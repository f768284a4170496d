---------------------------- MODULE HealthProofs ----------------------------
(***************************************************************************)
(* The safety of Health for any bindings, tools, snapshots and catalogs.   *)
(* The invariant ties a sweep to its snapshot: what it has yet to hear of  *)
(* is bound by the view it began with, and so is all that is known.        *)
(***************************************************************************)
EXTENDS Health, TLAPS

Wellformed(r) ==
    /\ r \in Conditions
    /\ r.state = "healthy" => Blocking(r.drift) = {}
    /\ r.succeeded = "never" => r.state = "unavailable" /\ r.drift = {}

WorldTyped ==
    /\ serving \in Snapshots \cup {None} /\ view \in Snapshots \cup {None}
    /\ backend \in [Targets -> Catalogs \cup Broken]

SweepTyped ==
    /\ answer \in [Targets -> Catalogs \cup Broken \cup {None}]
    /\ left \subseteq Targets
    /\ \A t \in Targets : answer[t] # None => t \in left

RegistryTyped ==
    /\ registry \in [Targets -> Conditions \cup {None}]
    /\ \A t \in Targets : registry[t] # None => Wellformed(registry[t])

Swept ==
    /\ view = None => left = {}
    /\ view # None => left \subseteq Bound(view)
    /\ OnlySweptTargets

Inv == WorldTyped /\ SweepTyped /\ RegistryTyped /\ Swept

LEMMA InvIsTypeOK == Inv => TypeOK
BY DEF Inv, WorldTyped, SweepTyped, RegistryTyped, Wellformed, TypeOK

LEMMA InitInv == Init => Inv
BY DEF Init, Inv, WorldTyped, SweepTyped, RegistryTyped, Swept, OnlySweptTargets

-----------------------------------------------------------------------------
(* What a probe finds *)

LEMMA DriftsTyped ==
    ASSUME NEW t, view[t].names \in [Tools -> Names], NEW observed
    PROVE  Diff(t, observed) \subseteq Drifts
<1>1. ASSUME NEW kind \in {"semantic", "removed", "cosmetic"}, NEW tools \in SUBSET Tools
      PROVE  Drift(t, kind, tools) \subseteq Drifts
  BY <1>1 DEF Drift, Drifts, Kinds
<1>2. Added(t, observed) \subseteq Drifts
  BY DEF Added, Drifts, Kinds
<1> QED
  BY <1>1, <1>2 DEF Diff

LEMMA PreviousTyped ==
    ASSUME RegistryTyped, NEW t \in Targets
    PROVE  /\ Previous(t).succeeded \in {"never", "recently", "long ago"}
           /\ Previous(t).drift \subseteq Drifts
           /\ Previous(t).succeeded = "never" => Previous(t).drift = {}
BY DEF RegistryTyped, Wellformed, Conditions, Previous

(* A report's condition is well formed, for the mode of the view it was swept by. *)
LEMMA ObservedTyped ==
    ASSUME RegistryTyped, NEW t \in Targets, view[t].mode \in {"strict", "advisory"},
           view[t].names \in [Tools -> Names]
    PROVE  Wellformed(Observed(t)) /\ Observed(t).mode = view[t].mode
<1> DEFINE mode == view[t].mode
           before == Previous(t)
<1>1. /\ before.succeeded \in {"never", "recently", "long ago"} /\ before.drift \subseteq Drifts
      /\ before.succeeded = "never" => before.drift = {}
  BY PreviousTyped
<1>2. ASSUME NEW state \in States, NEW drift \in SUBSET Drifts,
             NEW succeeded \in {"never", "recently", "long ago"},
             state = "healthy" => Blocking(drift) = {},
             succeeded = "never" => state = "unavailable" /\ drift = {}
      PROVE  /\ Wellformed(Condition(t, state, drift, succeeded))
             /\ Condition(t, state, drift, succeeded).mode = mode
  BY <1>2 DEF Wellformed, Conditions, Condition
<1>3. CASE answer[t] = Down
  <2> DEFINE state == Unreachable(before.succeeded)
             succeeded == before.succeeded
             drift == before.drift
  <2>1. state \in {"degraded", "unavailable"} /\ (succeeded = "never" => state = "unavailable")
    BY <1>1 DEF Unreachable
  <2>2. Observed(t) = Condition(t, state, drift, succeeded)
    BY <1>3, HealthAssumption DEF Observed
  <2>3. /\ succeeded \in {"never", "recently", "long ago"} /\ drift \in SUBSET Drifts
        /\ succeeded = "never" => drift = {}
    BY <1>1
  <2> HIDE DEF before, state, succeeded, drift
  <2>4. /\ state \in States /\ (state = "healthy" => Blocking(drift) = {})
        /\ succeeded = "never" => state = "unavailable" /\ drift = {}
    BY <2>1, <2>3 DEF States
  <2> HIDE DEF mode
  <2>5. /\ Wellformed(Condition(t, state, drift, succeeded))
        /\ Condition(t, state, drift, succeeded).mode = mode
    BY <1>2, <2>3, <2>4
  <2> QED
    BY <2>2, <2>5 DEF mode
<1>4. CASE answer[t] = Garbled
  <2>1. Observed(t) = Condition(t, "drifted", before.drift, "recently")
    BY <1>4, HealthAssumption DEF Observed
  <2> HIDE DEF before
  <2> QED
    BY <1>1, <1>2, <2>1 DEF States
<1>5. CASE answer[t] # Down /\ answer[t] # Garbled
  <2> DEFINE drift == Diff(t, answer[t])
  <2>1. Observed(t) = Condition(t, Answering(drift), drift, "recently")
    BY <1>5 DEF Observed
  <2>2. drift \subseteq Drifts
    BY DriftsTyped
  <2> HIDE DEF drift
  <2>3. Answering(drift) \in {"healthy", "drifted"} /\ (Answering(drift) = "healthy" => Blocking(drift) = {})
    BY DEF Answering
  <2> QED
    BY <1>2, <2>1, <2>2, <2>3 DEF States
<1> QED
  BY <1>3, <1>4, <1>5

(* Whoever has reported belongs to the sweep that runs. *)
LEMMA ReportsAreSwept ==
    ASSUME Inv, NEW t \in Targets, Report(t)
    PROVE  /\ view # None /\ t \in Bound(view) /\ view[t].mode \in {"strict", "advisory"}
           /\ view[t].names \in [Tools -> Names]
<1>1. t \in left
  BY DEF Report, Inv, SweepTyped
<1>2. view # None /\ t \in Bound(view) /\ view \in Snapshots
  BY <1>1 DEF Inv, Swept, WorldTyped
<1> QED
  BY <1>2, HealthAssumption DEF Bound

-----------------------------------------------------------------------------
(* The actions *)

LEMMA NextInv == Inv /\ [Next]_vars => Inv'
<1> SUFFICES ASSUME Inv, [Next]_vars PROVE Inv'
  OBVIOUS
<1>1. CASE BeginSweep
  <2>1. serving \in Snapshots /\ view' = serving /\ left' = Bound(serving)
        /\ answer' = answer /\ left = {}
    BY <1>1 DEF BeginSweep, Inv, WorldTyped, Swept
  <2>2. WorldTyped' /\ SweepTyped'
    BY <1>1, <2>1 DEF BeginSweep, Inv, WorldTyped, SweepTyped, Bound
  <2>3. RegistryTyped'
    BY <1>1 DEF BeginSweep, Forget, Inv, RegistryTyped
  <2>4. Swept'
    BY <1>1, <2>1, HealthAssumption DEF BeginSweep, Forget, Swept, OnlySweptTargets, Bound
  <2> QED
    BY <2>2, <2>3, <2>4 DEF Inv
<1>2. CASE EndSweep
  BY <1>2, Zenon DEF EndSweep, Inv, WorldTyped, SweepTyped, RegistryTyped, Swept, OnlySweptTargets, Wellformed
<1>3. ASSUME NEW t \in Targets, Ask(t) PROVE Inv'
  <2>1. WorldTyped' /\ SweepTyped'
    BY <1>3 DEF Ask, Inv, WorldTyped, SweepTyped
  <2>2. RegistryTyped' /\ Swept'
    BY <1>3 DEF Ask, Inv, RegistryTyped, Swept, OnlySweptTargets, Bound
  <2> QED
    BY <2>1, <2>2 DEF Inv
<1>4. ASSUME NEW t \in Targets, Report(t) PROVE Inv'
  <2>1. Wellformed(Observed(t)) /\ view # None /\ t \in Bound(view)
    BY <1>4, ReportsAreSwept, ObservedTyped DEF Inv
  <2>2. WorldTyped' /\ SweepTyped'
    BY <1>4 DEF Report, Inv, WorldTyped, SweepTyped
  <2>3. Observed(t) \in Conditions
    BY <2>1 DEF Wellformed
  <2>4. registry' = [registry EXCEPT ![t] = Observed(t)]
    BY <1>4 DEF Report
  <2>5. RegistryTyped'
    BY <2>1, <2>3, <2>4 DEF Inv, RegistryTyped
  <2>6. Swept'
    BY <1>4, <2>1, <2>4 DEF Report, Inv, RegistryTyped, Swept, OnlySweptTargets, Bound
  <2> QED
    BY <2>2, <2>5, <2>6 DEF Inv
<1>5. CASE Activate
  BY <1>5 DEF Activate, Inv, WorldTyped, SweepTyped, RegistryTyped, Swept, OnlySweptTargets, Bound
<1>6. ASSUME NEW t \in Targets, Deploy(t) PROVE Inv'
  <2>1. WorldTyped'
    BY <1>6 DEF Deploy, Inv, WorldTyped
  <2>2. SweepTyped' /\ RegistryTyped' /\ Swept'
    BY <1>6 DEF Deploy, Inv, SweepTyped, RegistryTyped, Swept, OnlySweptTargets, Bound
  <2> QED
    BY <2>1, <2>2 DEF Inv
<1>7. ASSUME NEW t \in Targets, GraceElapses(t) PROVE Inv'
  <2> DEFINE r == [registry[t] EXCEPT !.succeeded = "long ago"]
  <2>1. Wellformed(registry[t]) /\ registry[t].succeeded = "recently"
    BY <1>7 DEF GraceElapses, Inv, RegistryTyped
  <2>2. Wellformed(r) /\ r \in Conditions
    BY <2>1 DEF Wellformed, Conditions
  <2>3. registry' = [registry EXCEPT ![t] = r]
    BY <1>7 DEF GraceElapses
  <2>4. WorldTyped' /\ SweepTyped'
    BY <1>7 DEF GraceElapses, Inv, WorldTyped, SweepTyped
  <2> HIDE DEF r
  <2>5. RegistryTyped'
    BY <2>2, <2>3 DEF Inv, RegistryTyped
  <2>6. Swept'
    BY <1>7, <2>3 DEF GraceElapses, Inv, RegistryTyped, Swept, OnlySweptTargets, Bound
  <2> QED
    BY <2>4, <2>5, <2>6 DEF Inv
<1>8. CASE UNCHANGED vars
  BY <1>8 DEF vars, Inv, WorldTyped, SweepTyped, RegistryTyped, Swept, OnlySweptTargets, Bound
<1> QED
  BY <1>1, <1>2, <1>3, <1>4, <1>5, <1>6, <1>7, <1>8 DEF Next, Sweep

(* What the prober knows stays well typed, for any bindings, tools and worlds. *)
THEOREM TypeCorrect == Spec => []TypeOK
<1>1. Spec => []Inv
  BY InitInv, NextInv, PTL DEF Spec
<1> QED
  BY <1>1, InvIsTypeOK, PTL

(* Whatever publishes and sweeps interleave, a sweep knows, and so blocks, only *)
(* bindings of the snapshot it sweeps (Registry.Forget).                        *)
THEOREM NothingOutlivesItsBinding == Spec => []OnlySweptTargets
<1>1. Spec => []Inv
  BY InitInv, NextInv, PTL DEF Spec
<1>2. Inv => OnlySweptTargets
  BY DEF Inv, Swept
<1> QED
  BY <1>1, <1>2, PTL

-----------------------------------------------------------------------------
(* Blocks *)

Lifted(t, n) ==
    \/ registry'[t] = None \/ registry'[t].mode = "advisory"
    \/ /\ answer[t] \in Catalogs
       /\ \A x \in Tools :
            \/ view[t].names[x] # n \/ Admitted(t)[x] = None
            \/ answer[t][x] # None /\ answer[t][x].schema = Admitted(t)[x].schema

LEMMA BlocksStay ==
    ASSUME NEW t \in Targets, NEW n, n \in BlockedTools(t),
           registry'[t] # None, registry'[t].mode = "strict",
           registry[t].drift = registry'[t].drift
    PROVE  n \in BlockedTools(t)'
BY DEF BlockedTools, Blocking

(* A catalog that has the tool as it was admitted, or a view that did not admit *)
(* it, is the only answer without drift that blocks its name.                   *)
LEMMA UnfitIsDrift ==
    ASSUME NEW t \in Targets, NEW x \in Tools, NEW observed,
           Admitted(t)[x] # None,
           observed[x] # None => observed[x].schema # Admitted(t)[x].schema
    PROVE  \E d \in Blocking(Diff(t, observed)) : d.tool = x /\ d.name = view[t].names[x]
<1>1. CASE observed[x] = None
  <2>1. [tool |-> x, name |-> view[t].names[x], kind |-> "removed"] \in Diff(t, observed)
    BY <1>1 DEF Diff, Drift
  <2> QED
    BY <2>1 DEF Blocking
<1>2. CASE observed[x] # None
  <2>1. [tool |-> x, name |-> view[t].names[x], kind |-> "semantic"] \in Diff(t, observed)
    BY <1>2 DEF Diff, Drift
  <2> QED
    BY <2>1 DEF Blocking
<1> QED
  BY <1>1, <1>2

LEMMA ReportLifts ==
    ASSUME Inv, NEW t \in Targets, Report(t), NEW n \in BlockedTools(t) \ BlockedTools(t)'
    PROVE  Lifted(t, n)
<1>1. /\ view # None /\ t \in Bound(view) /\ Observed(t).mode = view[t].mode
      /\ view[t].mode \in {"strict", "advisory"}
  BY ReportsAreSwept, ObservedTyped DEF Inv
<1>2. registry'[t] = Observed(t)
  BY DEF Report, Inv, RegistryTyped
<1> SUFFICES ASSUME registry'[t].mode = "strict", registry'[t] # None PROVE Lifted(t, n)
  BY <1>1, <1>2 DEF Lifted
<1>3. registry[t] # None /\ Previous(t).drift = registry[t].drift
  BY DEF BlockedTools, Previous
<1>4. CASE answer[t] = Down
  <2>1. Observed(t).drift = registry[t].drift
    BY <1>3, <1>4 DEF Observed, Condition
  <2> QED
    BY <1>2, <2>1, BlocksStay
<1>5. CASE answer[t] = Garbled
  <2>1. Observed(t).drift = registry[t].drift
    BY <1>3, <1>5, HealthAssumption DEF Observed, Condition
  <2> QED
    BY <1>2, <2>1, BlocksStay
<1>6. CASE answer[t] # Down /\ answer[t] # Garbled
  <2>1. answer[t] \in Catalogs
    BY <1>6 DEF Report, Inv, SweepTyped, Broken
  <2>2. Observed(t).drift = Diff(t, answer[t])
    BY <1>6 DEF Observed, Condition
  <2>3. ASSUME NEW x \in Tools, view[t].names[x] = n, Admitted(t)[x] # None,
               answer[t][x] # None => answer[t][x].schema # Admitted(t)[x].schema
        PROVE  FALSE
    <3>1. PICK d \in Blocking(Diff(t, answer[t])) : d.name = n
      BY <2>3, UnfitIsDrift
    <3>2. d \in Blocking(registry'[t].drift)
      BY <1>2, <2>2, <3>1
    <3> QED
      BY <3>1, <3>2 DEF BlockedTools
  <2> QED
    BY <2>1, <2>3 DEF Lifted
<1> QED
  BY <1>4, <1>5, <1>6

LEMMA NextLifts ==
    ASSUME Inv, [Next]_vars, NEW t \in Targets, NEW n \in BlockedTools(t) \ BlockedTools(t)'
    PROVE  Lifted(t, n)
<1>1. CASE BeginSweep
  <2>1. registry'[t] = None \/ registry'[t] = registry[t]
    BY <1>1 DEF BeginSweep, Forget
  <2>2. registry'[t] # registry[t]
    BY DEF BlockedTools, Blocking
  <2> QED
    BY <2>1, <2>2 DEF Lifted
<1>2. ASSUME NEW u \in Targets, Report(u) PROVE Lifted(t, n)
  <2>1. CASE u = t
    BY <1>2, <2>1, ReportLifts
  <2>2. CASE u # t
    <3>1. registry'[t] = registry[t]
      BY <1>2, <2>2 DEF Report, Inv, RegistryTyped
    <3> QED
      BY <3>1 DEF BlockedTools, Blocking
  <2> QED
    BY <2>1, <2>2
<1>3. ASSUME NEW u \in Targets, GraceElapses(u) PROVE Lifted(t, n)
  <2>1. /\ registry[t] # None /\ registry[t].mode = "strict" /\ registry[t] \in Conditions
    BY DEF BlockedTools, Inv, RegistryTyped
  <2>2. registry' = [registry EXCEPT ![u] = [registry[u] EXCEPT !.succeeded = "long ago"]]
    BY <1>3 DEF GraceElapses
  <2>3. /\ registry'[t].mode = registry[t].mode /\ registry'[t].drift = registry[t].drift
        /\ registry'[t] \in Conditions
    BY <2>1, <2>2 DEF Inv, RegistryTyped, Conditions
  <2>4. CASE registry'[t] = None
    BY <2>4 DEF Lifted
  <2>5. CASE registry'[t] # None
    BY <2>1, <2>3, <2>5, BlocksStay
  <2> QED
    BY <2>4, <2>5
<1>4. CASE UNCHANGED registry
  BY <1>4 DEF BlockedTools, Blocking
<1> QED
  BY <1>1, <1>2, <1>3, <1>4 DEF Next, Sweep, EndSweep, Ask, Activate, Deploy, vars

(* No outage, garbled answer, swap or passing of time lifts a strict server's *)
(* block: a catalog does, or a snapshot (prober.go:253-256).                  *)
THEOREM BlocksOutliveOutages == Spec => BlocksAreLiftedByCatalogs
<1>1. Spec => []Inv
  BY InitInv, NextInv, PTL DEF Spec
<1>2. Inv /\ [Next]_vars => [\A t \in Targets : \A n \in BlockedTools(t) \ BlockedTools(t)' : Lifted(t, n)]_vars
  BY NextLifts
<1> QED
  BY <1>1, <1>2, PTL DEF Spec, BlocksAreLiftedByCatalogs, Lifted

-----------------------------------------------------------------------------
(* The truth *)

(* Blocking drift is just what makes a tool unfit: it was admitted and is gone *)
(* or has another schema.                                                      *)
UnfitIn(t, observed, x) ==
    /\ Admitted(t)[x] # None
    /\ observed[x] # None => observed[x].schema # Admitted(t)[x].schema

LEMMA DriftIsUnfit ==
    ASSUME NEW t \in Targets, NEW observed, NEW d \in Blocking(Diff(t, observed))
    PROVE  d.tool \in Tools /\ UnfitIn(t, observed, d.tool) /\ d.name = view[t].names[d.tool]
<1>1. d \in Diff(t, observed) /\ d.kind \in {"semantic", "removed"}
  BY DEF Blocking
<1>2. CASE d.kind = "removed"
  BY <1>1, <1>2 DEF Diff, Drift, Added, UnfitIn
<1>3. CASE d.kind = "semantic"
  BY <1>1, <1>3 DEF Diff, Drift, Added, UnfitIn
<1> QED
  BY <1>1, <1>2, <1>3

LEMMA BlockingHasTools ==
    ASSUME NEW t \in Targets, NEW observed
    PROVE  /\ Blocking(Diff(t, observed)) = {} <=> ~ \E x \in Tools : UnfitIn(t, observed, x)
           /\ {d.name : d \in Blocking(Diff(t, observed))}
                = {view[t].names[x] : x \in {y \in Tools : UnfitIn(t, observed, y)}}
<1>1. \A x \in Tools : UnfitIn(t, observed, x) =>
        \E d \in Blocking(Diff(t, observed)) : d.name = view[t].names[x]
  BY UnfitIsDrift DEF UnfitIn
<1>2. \A d \in Blocking(Diff(t, observed)) :
        d.tool \in Tools /\ UnfitIn(t, observed, d.tool) /\ d.name = view[t].names[d.tool]
  BY DriftIsUnfit
<1> QED
  BY <1>1, <1>2

(* A backend that is found down while the grace window runs is not written off. *)
Graceful == \A t \in Targets :
    registry[t] # None /\ registry[t].state = "unavailable" => registry[t].succeeded # "recently"

LEMMA ObservedGraceful ==
    ASSUME NEW t \in Targets, Observed(t).state = "unavailable"
    PROVE  Observed(t).succeeded # "recently"
BY DEF Observed, Condition, Unreachable, Answering

LEMMA NextGraceful == Inv /\ Graceful /\ [Next]_vars => Graceful'
<1> SUFFICES ASSUME Inv, Graceful, [Next]_vars PROVE Graceful'
  OBVIOUS
<1>1. CASE BeginSweep
  BY <1>1 DEF BeginSweep, Forget, Graceful
<1>2. ASSUME NEW t \in Targets, Report(t) PROVE Graceful'
  <2>1. registry' = [registry EXCEPT ![t] = Observed(t)]
    BY <1>2 DEF Report
  <2> QED
    BY <2>1, ObservedGraceful DEF Graceful, Inv, RegistryTyped
<1>3. ASSUME NEW t \in Targets, GraceElapses(t) PROVE Graceful'
  <2>1. registry[t] \in Conditions
    BY <1>3 DEF GraceElapses, Inv, RegistryTyped
  <2>2. registry' = [registry EXCEPT ![t] = [registry[t] EXCEPT !.succeeded = "long ago"]]
    BY <1>3 DEF GraceElapses
  <2>3. [registry[t] EXCEPT !.succeeded = "long ago"].succeeded = "long ago"
    BY <2>1 DEF Conditions
  <2> QED
    BY <2>2, <2>3 DEF Graceful, Inv, RegistryTyped
<1>4. CASE UNCHANGED registry
  BY <1>4 DEF Graceful
<1> QED
  BY <1>1, <1>2, <1>3, <1>4 DEF Next, Sweep, EndSweep, Ask, Activate, Deploy, vars

LEMMA AlwaysGraceful == Spec => [](Inv /\ Graceful)
<1>1. Init => Graceful
  BY DEF Init, Graceful
<1> QED
  BY <1>1, InitInv, NextInv, NextGraceful, PTL DEF Spec

(* What a sweep of the serving snapshot reports of a backend as it is, is right, *)
(* once the grace of a backend that is down has passed.                          *)
LEMMA ReportIsRight ==
    ASSUME Inv, NEW t \in Targets, Report(t), view = serving, answer[t] = backend[t],
           backend[t] = Down => Previous(t).succeeded # "recently"
    PROVE  Right(t)'
<1> DEFINE r == registry'[t]
           blocked == {d.name : d \in Blocking(r.drift)}
           unfit == {view[t].names[x] : x \in {y \in Tools : Unfit(t, y)}}
<1>1. /\ view # None /\ t \in Bound(view) /\ Observed(t).mode = view[t].mode
      /\ view[t].mode \in {"strict", "advisory"} /\ Observed(t) \in Conditions
  BY ReportsAreSwept, ObservedTyped DEF Inv, Wellformed
<1>2. r = Observed(t) /\ serving' = serving /\ backend' = backend /\ view' = view
  BY DEF Report, Inv, RegistryTyped
<1>3. serving # None /\ serving[t] # None /\ r.mode = serving[t].mode
  BY <1>1, <1>2 DEF Bound
<1>4. r # None
  BY <1>1, <1>2, ConditionsAssumption
<1>5. CASE backend[t] = Down
  <2>1. r.state = "unavailable"
    BY <1>2, <1>5, HealthAssumption DEF Observed, Condition, Unreachable
  <2>2. /\ serving' # None /\ serving'[t] # None /\ registry'[t] # None
        /\ registry'[t].mode = serving'[t].mode /\ backend'[t] = Down
        /\ registry'[t].state = "unavailable"
    BY <1>2, <1>3, <1>4, <1>5, <2>1
  <2> HIDE DEF r, blocked
  <2> QED
    BY <2>2, HealthAssumption DEF Right, Broken
<1>6. CASE backend[t] = Garbled
  <2>1. r.state = "drifted"
    BY <1>2, <1>6, HealthAssumption DEF Observed, Condition
  <2> QED
    BY <1>2, <1>3, <1>4, <1>6, <2>1, HealthAssumption DEF Right, Broken
<1>7. CASE backend[t] # Down /\ backend[t] # Garbled
  <2>1. /\ r.drift = Diff(t, backend[t])
        /\ r.state = IF Blocking(Diff(t, backend[t])) = {} THEN "healthy" ELSE "drifted"
    BY <1>2, <1>7 DEF Observed, Condition, Answering
  <2>2. \A x \in Tools : UnfitIn(t, backend[t], x) <=> Unfit(t, x)
    BY DEF UnfitIn, Admitted, Unfit
  <2>3. r.state = IF \E x \in Tools : Unfit(t, x) THEN "drifted" ELSE "healthy"
    BY <2>1, <2>2, BlockingHasTools
  <2>4. blocked = unfit
    <3>1. {y \in Tools : UnfitIn(t, backend[t], y)} = {y \in Tools : Unfit(t, y)}
      BY <2>2
    <3> QED
      BY <2>1, <3>1, BlockingHasTools
  <2>5. BlockedTools(t)' = IF serving[t].mode # "strict" THEN {} ELSE unfit
    <3>1. BlockedTools(t)' = IF r.mode # "strict" THEN {} ELSE blocked
      BY <1>4 DEF BlockedTools
    <3> QED
      BY <1>3, <2>4, <3>1
  <2> QED
    BY <1>2, <1>3, <1>4, <1>7, <2>3, <2>5 DEF Right, Unfit, Broken
<1> QED
  BY <1>5, <1>6, <1>7

(* The truth is known and nothing stale is left to report. *)
Settled(t) ==
    /\ Right(t)
    /\ view \in {None, serving} /\ answer[t] \in {None, backend[t]}

LEMMA RightStays ==
    ASSUME NEW t \in Targets, Right(t), serving' = serving, backend'[t] = backend[t],
           \/ registry'[t] = registry[t]
           \/ /\ registry[t] # None /\ registry'[t] # None
              /\ registry'[t].mode = registry[t].mode
              /\ registry'[t].state = registry[t].state /\ registry'[t].drift = registry[t].drift
    PROVE  Right(t)'
<1>1. BlockedTools(t)' = BlockedTools(t)
  BY DEF BlockedTools
<1>2. \A x : Unfit(t, x)' <=> Unfit(t, x)
  BY DEF Unfit
<1>3. CASE serving = None \/ serving[t] = None
  BY <1>3 DEF Right
<1>4. CASE ~ (serving = None \/ serving[t] = None)
  BY <1>1, <1>2, <1>4 DEF Right
<1> QED
  BY <1>3, <1>4

LEMMA NextSettled ==
    ASSUME Inv, Graceful, [Next]_vars, NEW t \in Targets, Settled(t),
           serving' = serving, backend'[t] = backend[t]
    PROVE  Settled(t)'
<1>1. CASE BeginSweep
  <2>1. registry'[t] = registry[t]
    <3>1. serving # None /\ registry'[t] = IF t \in Bound(serving) THEN registry[t] ELSE None
      BY <1>1 DEF BeginSweep, Forget
    <3>2. t \notin Bound(serving) => registry[t] = None
      BY DEF Settled, Right, Bound
    <3> QED
      BY <3>1, <3>2
  <2>2. view' = serving /\ answer' = answer
    BY <1>1 DEF BeginSweep
  <2> QED
    BY <2>1, <2>2, RightStays DEF Settled
<1>2. CASE EndSweep
  <2>1. registry' = registry /\ view' = None /\ answer' = answer
    BY <1>2 DEF EndSweep
  <2> QED
    BY <2>1, RightStays DEF Settled
<1>3. ASSUME NEW u \in Targets, Ask(u) PROVE Settled(t)'
  <2>1. registry' = registry /\ view' = view /\ answer'[t] \in {answer[t], backend[t]}
    BY <1>3 DEF Ask, Inv, SweepTyped
  <2> QED
    BY <2>1, RightStays DEF Settled
<1>4. ASSUME NEW u \in Targets, Report(u) PROVE Settled(t)'
  <2>1. view' = view /\ answer' = [answer EXCEPT ![u] = None]
        /\ registry' = [registry EXCEPT ![u] = Observed(u)]
    BY <1>4 DEF Report
  <2>2. answer'[t] \in {None, answer[t]}
    BY <2>1 DEF Inv, SweepTyped
  <2>3. CASE u # t
    <3>1. registry'[t] = registry[t]
      BY <2>1, <2>3 DEF Inv, RegistryTyped
    <3> QED
      BY <2>1, <2>2, <3>1, RightStays DEF Settled
  <2>4. CASE u = t
    <3>1. view = serving /\ answer[t] = backend[t] /\ serving # None /\ serving[t] # None
      BY <1>4, <2>4, ReportsAreSwept DEF Settled, Report, Bound
    <3>2. backend[t] = Down => Previous(t).succeeded # "recently"
      BY <3>1 DEF Settled, Right, Graceful, Previous
    <3>3. Right(t)'
      BY <1>4, <2>4, <3>1, <3>2, ReportIsRight
    <3> QED
      BY <2>1, <2>2, <3>3 DEF Settled
  <2> QED
    BY <2>3, <2>4
<1>5. CASE Activate
  BY <1>5 DEF Activate
<1>6. ASSUME NEW u \in Targets, Deploy(u) PROVE Settled(t)'
  <2>1. registry' = registry /\ view' = view /\ answer' = answer
    BY <1>6 DEF Deploy
  <2> QED
    BY <2>1, RightStays DEF Settled
<1>7. ASSUME NEW u \in Targets, GraceElapses(u) PROVE Settled(t)'
  <2>1. /\ registry' = [registry EXCEPT ![u] = [registry[u] EXCEPT !.succeeded = "long ago"]]
        /\ registry[u] # None /\ view' = view /\ answer' = answer
    BY <1>7 DEF GraceElapses
  <2>2. CASE u # t
    <3>1. registry'[t] = registry[t]
      BY <2>1, <2>2 DEF Inv, RegistryTyped
    <3> QED
      BY <2>1, <3>1, RightStays DEF Settled
  <2>3. CASE u = t
    <3>1. registry[t] \in Conditions
      BY <2>1, <2>3 DEF Inv, RegistryTyped, Wellformed
    <3>2. registry'[t] = [registry[t] EXCEPT !.succeeded = "long ago"]
      BY <2>1, <2>3 DEF Inv, RegistryTyped
    <3>3. /\ registry'[t] \in Conditions /\ registry'[t].mode = registry[t].mode
          /\ registry'[t].state = registry[t].state /\ registry'[t].drift = registry[t].drift
      BY <3>1, <3>2 DEF Conditions
    <3>4. registry'[t] # None
      BY <3>3, ConditionsAssumption
    <3> QED
      BY <2>1, <2>3, <3>3, <3>4, RightStays DEF Settled
  <2> QED
    BY <2>2, <2>3
<1>8. CASE UNCHANGED vars
  BY <1>8, RightStays DEF Settled, vars
<1> QED
  BY <1>1, <1>2, <1>3, <1>4, <1>5, <1>6, <1>7, <1>8 DEF Next, Sweep

(* The prober concludes rightly of a backend as soon as a sweep of the serving   *)
(* snapshot reports it as it is, for one that is down once its grace has passed  *)
(* (prober.go:238-299): what is drifted is blocked, what a publish reinstated is *)
(* served, whatever was known before.                                            *)
THEOREM ReportsTellTheTruth ==
    Spec => [][\A t \in Targets :
                 /\ Report(t) /\ view = serving /\ answer[t] = backend[t]
                 /\ backend[t] = Down => Previous(t).succeeded # "recently"
                 => Right(t)']_vars
<1>1. Inv /\ [Next]_vars => [\A t \in Targets :
                               /\ Report(t) /\ view = serving /\ answer[t] = backend[t]
                               /\ backend[t] = Down => Previous(t).succeeded # "recently"
                               => Right(t)']_vars
  BY ReportIsRight
<1> QED
  BY <1>1, AlwaysGraceful, PTL DEF Spec

(* And it keeps to that conclusion: once it is reached and no sweep of an older  *)
(* snapshot and no older answer is outstanding, no sweep, answer, deployment of  *)
(* another backend or passing of time undoes it, while the snapshot serves and   *)
(* the backend stays as it is: the safety half of SettlesOnTheTruth.             *)
THEOREM TruthLasts ==
    Spec => [][\A t \in Targets :
                 Settled(t) /\ UNCHANGED <<serving, backend[t]>> => Settled(t)']_vars
<1>1. Inv /\ Graceful /\ [Next]_vars =>
        [\A t \in Targets : Settled(t) /\ UNCHANGED <<serving, backend[t]>> => Settled(t)']_vars
  BY NextSettled
<1> QED
  BY <1>1, AlwaysGraceful, PTL DEF Spec
=============================================================================
