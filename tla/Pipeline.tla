------------------------------ MODULE Pipeline ------------------------------
(***************************************************************************)
(* The plugin pipeline of one gateway (internal/dataplane/pipeline): hooks *)
(* that run their plugins one after the other and the breaker each plugin  *)
(* shares between all hooks, beside the hosts that follow the serving      *)
(* snapshot. A step is one section of a lock, or one invocation together   *)
(* with what its goroutine does with the answer.                           *)
(*                                                                         *)
(* Budgets are wall-clock: a hook may run out of time whenever a plugin    *)
(* has run. Payloads are fields, each remembering who wrote it last.       *)
(***************************************************************************)
EXTENDS PluginHosts, Sequences

CONSTANTS
    Workers,     \* goroutines, each in one hook at a time
    Fields,      \* parts of a payload that a write scope can name
    HookOf,      \* [Workers -> [Snapshots -> what a view of it lists at the hook, in order]]
    Rollout,     \* [Plugins -> {"shadow", "canary", "enforce"}]
    FailsClosed, \* plugins whose failure policy for the tool's effect class is closed
    Writes,      \* [Plugins -> SUBSET Fields]
    Threshold    \* consecutive failures before a breaker opens

ASSUME PipelineAssumption ==
    /\ HookOf \in [Workers -> [Snapshots -> Seq(Plugins)]]
    /\ \A w \in Workers, s \in Snapshots : \A i \in DOMAIN HookOf[w][s] : s[HookOf[w][s][i]] # None
    /\ Rollout \in [Plugins -> {"shadow", "canary", "enforce"}]
    /\ FailsClosed \subseteq Plugins
    /\ Writes \in [Plugins -> SUBSET Fields]
    /\ Threshold \in Nat \ {0}

VARIABLES
    breaker,    \* [Plugins -> breaker], cooled standing for openedAt + cooldown passed
    run         \* [Workers -> one Engine.Run]

vars == <<hostVars, breaker, run>>

Decisions == {"allow", "deny", "mutate", "defer"}
Outcomes == [plugin : Plugins, did : {"skipped", "failed", "errored", "answered"},
             enforced : BOOLEAN, decision : Decisions, patch : SUBSET Fields]
Traces == Seq(Outcomes)
Untouched == [f \in Fields |-> None]
Breakers == [open : BOOLEAN, cooled : BOOLEAN, probe : BOOLEAN, consecutive : 0..Threshold]

TypeOK ==
    /\ HostsTyped
    /\ breaker \in [Plugins -> Breakers]
    /\ \A p \in Plugins :
         /\ breaker[p].probe => breaker[p].open /\ breaker[p].cooled
         /\ breaker[p].open <=> breaker[p].consecutive = Threshold
    /\ \A w \in Workers :
         /\ run[w].pc \in {"idle", "consult", "host", "invoke", "done"}
         /\ run[w].plugins \in Seq(Plugins)
         /\ run[w].outcomes \in Traces
         /\ run[w].decision \in Decisions
         /\ run[w].payload \in [Fields -> Plugins \cup {None}]
         /\ run[w].sampled \in SUBSET Plugins
         /\ run[w].code \in Codes \cup {None} /\ run[w].settled \in BOOLEAN

NewBreaker == [open |-> FALSE, cooled |-> FALSE, probe |-> FALSE, consecutive |-> 0]

Idle == [pc |-> "idle", plugins |-> <<>>, outcomes |-> <<>>, decision |-> "allow",
         payload |-> Untouched, sampled |-> {},
         code |-> None, settled |-> FALSE]

Init ==
    /\ HostsInit
    /\ breaker = [p \in Plugins |-> NewBreaker]
    /\ run = [w \in Workers |-> Idle]

-----------------------------------------------------------------------------
(* breaker *)

Admits(b) == ~b.open \/ (b.cooled /\ ~b.probe)

Admitting(b) == [b EXCEPT !.probe = b.open]

Succeeded_WhenClosed(b) == IF b.open THEN [b EXCEPT !.probe = FALSE] ELSE NewBreaker

Succeeded(b) == NewBreaker

Failed_KeepsTheProbe(b) ==
    IF b.probe THEN [b EXCEPT !.cooled = FALSE]
    ELSE IF b.open THEN b
    ELSE [b EXCEPT !.consecutive = @ + 1, !.open = b.consecutive + 1 >= Threshold]

(* A failure under a probe reopens, whoever reports it; one that arrives while *)
(* open, without a probe, changes nothing but the count.                       *)
Failed(b) ==
    IF b.probe THEN [b EXCEPT !.probe = FALSE, !.cooled = FALSE]
    ELSE IF b.open THEN b
    ELSE [b EXCEPT !.consecutive = @ + 1, !.open = b.consecutive + 1 >= Threshold]

Cooldown(p) ==
    /\ breaker[p].open /\ ~breaker[p].cooled
    /\ breaker' = [breaker EXCEPT ![p].cooled = TRUE]
    /\ UNCHANGED <<hostVars, run>>

-----------------------------------------------------------------------------
(* The hosts, beside the hooks: a hook that is running when a snapshot is     *)
(* swapped in keeps its list of plugins.                                      *)

Swap ==
    /\ Activate
    /\ run' = [w \in Workers |-> [run[w] EXCEPT !.settled = FALSE]]
    /\ UNCHANGED breaker

Follow == Sync /\ UNCHANGED <<breaker, run>>

-----------------------------------------------------------------------------
(* Engine.Run *)

At(w, pc) == run[w].pc = pc

Current(w) == run[w].plugins[Len(run[w].outcomes) + 1]

Skipped(p) ==
    [plugin |-> p, did |-> "skipped", enforced |-> FALSE, decision |-> "allow", patch |-> {}]

(* Every plugin the engine no longer gets to is recorded all the same. *)
SkipRest(outcomes, plugins) ==
    outcomes \o [i \in 1..(Len(plugins) - Len(outcomes)) |-> Skipped(plugins[Len(outcomes) + i])]

Continue(w, outcome) ==
    LET outcomes == Append(run[w].outcomes, outcome)
        over == Len(outcomes) = Len(run[w].plugins)
    IN  [run[w] EXCEPT !.outcomes = outcomes, !.pc = IF over THEN "done" ELSE "consult",
                       !.code = None, !.settled = @ /\ ~over]

(* A deny or a defer ends the hook. *)
Decide_Forgetful(w, outcome) ==
    [run[w] EXCEPT !.outcomes = Append(@, outcome), !.decision = outcome.decision, !.pc = "done", !.code = None,
                   !.settled = FALSE]

Decide(w, outcome) ==
    [run[w] EXCEPT !.outcomes = SkipRest(Append(@, outcome), run[w].plugins),
                   !.decision = outcome.decision, !.pc = "done", !.code = None,
                   !.settled = FALSE]

Patched(w, p, patch) ==
    [f \in Fields |-> IF f \in patch THEN p ELSE run[w].payload[f]]

(* The hash of the request's id against each canary's own percentage. *)
Samples(plugins) ==
    SUBSET {plugins[i] : i \in {j \in DOMAIN plugins : Rollout[plugins[j]] = "canary"}}

(* A call keeps the view its server was built with through all its hooks, and a *)
(* server built before a swap may be found after it: the list is that of the    *)
(* serving snapshot or of any served before.                                    *)
Start(w, view) ==
    /\ At(w, "idle")
    /\ LET plugins == HookOf[w][view]
       IN  \E sampled \in Samples(plugins) :
             run' = [run EXCEPT ![w].pc = IF plugins = <<>> THEN "done" ELSE "consult",
                                ![w].plugins = plugins, ![w].sampled = sampled,
                                ![w].settled = plugins # <<>> /\ ~syncing]
    /\ UNCHANGED <<hostVars, breaker>>

(* Only plugins that ran have used any of the time. *)
MayBeSpent(w) == \E i \in DOMAIN run[w].outcomes : run[w].outcomes[i].did # "skipped"

(* The hook's deadline, or the request's allowance, has passed: all the    *)
(* plugins that are left are skipped, whatever their failure policy says.  *)
OutOfTime(w) ==
    /\ At(w, "consult") /\ MayBeSpent(w)
    /\ run' = [run EXCEPT ![w].outcomes = SkipRest(@, run[w].plugins), ![w].pc = "done",
                            ![w].settled = FALSE]
    /\ UNCHANGED <<hostVars, breaker>>

CircuitOpen(w) ==
    /\ At(w, "consult") /\ ~Admits(breaker[Current(w)])
    /\ run' = [run EXCEPT ![w] = Continue(w, Skipped(Current(w)))]
    /\ UNCHANGED <<hostVars, breaker>>

Allow(w) ==
    /\ At(w, "consult") /\ Admits(breaker[Current(w)])
    /\ breaker' = [breaker EXCEPT ![Current(w)] = Admitting(@)]
    /\ run' = [run EXCEPT ![w].pc = "host"]
    /\ UNCHANGED hostVars

(* What is compiled changes while a Sync runs, and the registry at its end, so *)
(* looking both up at once misses no pair.                                     *)
FindHost(w) ==
    /\ At(w, "host") /\ HasHost(Current(w))
    /\ run' = [run EXCEPT ![w].pc = "invoke", ![w].code = CodeOf(Current(w))]
    /\ UNCHANGED <<hostVars, breaker>>

(* The breaker is not told: a probe it was waiting for never reports. *)
HostUnavailable(w) ==
    /\ At(w, "host") /\ ~HasHost(Current(w))
    /\ run' = [run EXCEPT ![w] = Continue(w, Skipped(Current(w)))]
    /\ UNCHANGED <<hostVars, breaker>>

Enforces(w, p) == Rollout[p] = "enforce" \/ (Rollout[p] = "canary" /\ p \in run[w].sampled)

(* The manifest's policy for the effect class of the tool; open unless it says. *)
Closed(p) == p \in FailsClosed

(* The invocation fails: a trap, a deadline, a client that went away. *)
Fails(w) ==
    /\ At(w, "invoke")
    /\ LET p == Current(w)
           denied == Closed(p) /\ Enforces(w, p)
           outcome == [plugin |-> p, did |-> "failed", enforced |-> denied,
                       decision |-> IF denied THEN "deny" ELSE "allow", patch |-> {}]
       IN  /\ breaker' = [breaker EXCEPT ![p] = Failed(@)]
           /\ run' = [run EXCEPT ![w] = IF denied THEN Decide(w, outcome) ELSE Continue(w, outcome)]
    /\ UNCHANGED hostVars

(* Verdict.Validate refuses the answer; no failure policy is applied to it. *)
AnswersInvalidly(w) ==
    /\ At(w, "invoke")
    /\ LET p == Current(w)
       IN  /\ breaker' = [breaker EXCEPT ![p] = Failed(@)]
           /\ run' = [run EXCEPT ![w] = Continue(w, [Skipped(p) EXCEPT !.did = "errored"])]
    /\ UNCHANGED hostVars

InScope_Any(p, patch) == TRUE

(* ApplyPatch: all of it or nothing. *)
InScope(p, patch) == patch \subseteq Writes[p]

Answer(p, enforced, decision, patch) ==
    [plugin |-> p, did |-> "answered", enforced |-> enforced, decision |-> decision, patch |-> patch]

Combine_DenyGoesOn(w, p, decision, patch) ==
    CASE Enforces(w, p) /\ decision \in {"deny", "defer"} ->
           [Continue(w, Answer(p, TRUE, decision, {})) EXCEPT !.decision = decision]
      [] Enforces(w, p) /\ decision = "mutate" /\ InScope(p, patch) ->
           [Continue(w, Answer(p, TRUE, "mutate", patch))
              EXCEPT !.payload = Patched(w, p, patch), !.decision = "mutate"]
      [] OTHER -> Continue(w, Answer(p, Enforces(w, p) /\ decision = "allow", decision, {}))

(* A verdict that is not enforced is recorded; a rejected patch is not enforced. *)
Combine(w, p, decision, patch) ==
    CASE Enforces(w, p) /\ decision \in {"deny", "defer"} -> Decide(w, Answer(p, TRUE, decision, {}))
      [] Enforces(w, p) /\ decision = "mutate" /\ InScope(p, patch) ->
           [Continue(w, Answer(p, TRUE, "mutate", patch))
              EXCEPT !.payload = Patched(w, p, patch), !.decision = "mutate"]
      [] OTHER -> Continue(w, Answer(p, Enforces(w, p) /\ decision = "allow", decision, {}))

(* A mutation carries a patch and needs declared writes; the annotation that *)
(* a plugin may answer with instead of allow changes nothing here.           *)
Verdicts(p) ==
    [decision : Decisions \ {"mutate"}, patch : {{}}]
      \cup {v \in [decision : {"mutate"}, patch : SUBSET Fields \ {{}}] : Writes[p] # {}}

Returns(w) ==
    /\ At(w, "invoke")
    /\ LET p == Current(w)
       IN  /\ breaker' = [breaker EXCEPT ![p] = Succeeded(@)]
           /\ \E v \in Verdicts(p) : run' = [run EXCEPT ![w] = Combine(w, p, v.decision, v.patch)]
    /\ UNCHANGED hostVars

(* The caller takes the result. *)
Finish(w) ==
    /\ At(w, "done")
    /\ run' = [run EXCEPT ![w] = Idle]
    /\ UNCHANGED <<hostVars, breaker>>

Proceed(w) ==
    \/ CircuitOpen(w) \/ Allow(w) \/ HostUnavailable(w) \/ FindHost(w)
    \/ Fails(w) \/ AnswersInvalidly(w) \/ Returns(w) \/ OutOfTime(w) \/ Finish(w)

Next ==
    \/ \E w \in Workers : Proceed(w) \/ \E view \in served : Start(w, view)
    \/ \E p \in Plugins : Cooldown(p)
    \/ Swap \/ Follow

Spec == Init /\ [][Next]_vars

(* Calls keep coming, and the purges of every principal heartbeat have them use *)
(* the serving snapshot's view again and again (CatalogsCatchUp); every         *)
(* invocation ends by its deadline, a cooldown passes, an activation ends.      *)
Fairness ==
    /\ \A w \in Workers : SF_vars(Start(w, declared)) /\ WF_vars(Proceed(w))
    /\ \A p \in Plugins : WF_vars(Cooldown(p))
    /\ WF_vars(Follow)

FairSpec == Spec /\ Fairness

-----------------------------------------------------------------------------
(* Properties *)

Enforced(w) == {i \in DOMAIN run[w].outcomes : run[w].outcomes[i].enforced}
LetThrough(w) == At(w, "done") /\ run[w].decision \in {"allow", "mutate"}

(* "Recorded for every plugin at every hook, including the ones that did not *)
(* run": whichever way a hook ended, its trace has one outcome per plugin,   *)
(* in the order of the list (verdict.go:141-144).                            *)
EveryPluginAccountedFor ==
    \A w \in Workers :
        At(w, "done") =>
            [i \in DOMAIN run[w].outcomes |-> run[w].outcomes[i].plugin] = run[w].plugins

(* The combined verdict is what the enforced outcomes say, and nothing else:  *)
(* a refusal or deferral that was enforced is the decision, nobody ran after  *)
(* it, and a fail-closed plugin that was invoked and failed let nothing pass. *)
ResultFollowsOutcomes ==
    \A w \in Workers :
        LET enforced == Enforced(w)
            at(i) == run[w].outcomes[i]
            final == {i \in enforced : at(i).decision \in {"deny", "defer"}}
        IN  /\ \A i \in final :
                 /\ run[w].decision = at(i).decision
                 /\ \A j \in DOMAIN run[w].outcomes : j > i => at(j).did = "skipped"
            /\ final = {} =>
                 /\ run[w].decision = "mutate" <=> \E i \in enforced : at(i).decision = "mutate"
                 /\ run[w].decision \in {"allow", "mutate"}
            /\ LetThrough(w) =>
                 \A i \in DOMAIN run[w].outcomes :
                     at(i).did = "failed" /\ at(i).plugin \in FailsClosed =>
                         ~Enforces(w, at(i).plugin)

(* What leaves a hook was written by plugins whose verdicts are acted on, each *)
(* inside its declared writes, the last such one winning (patch.go:21-26).     *)
PayloadWithinScopes ==
    \A w \in Workers, f \in Fields :
        LET p == run[w].payload[f]
            writers == {i \in Enforced(w) : f \in run[w].outcomes[i].patch}
        IN  p # None =>
              /\ f \in Writes[p] /\ Enforces(w, p)
              /\ \E i \in writers : run[w].outcomes[i].plugin = p /\ \A j \in writers : j <= i

(* Whatever list a hook carries, and whatever loaded, failed to load or was      *)
(* compiled before, once the serving snapshot's plugins are loaded the code that *)
(* a hook runs, no swap since it began, is the code that snapshot declares: a    *)
(* swapped or outdated artifact does not run (wasm.go:195-198). The manifest it  *)
(* runs under may be an older view's; the code it names is gone by then.         *)
RunsWhatIsDeclared ==
    \A w \in Workers :
        At(w, "invoke") /\ run[w].settled => run[w].code = declared[Current(w)]

Consulted(p) ==
    \E w \in Workers : \A s \in Snapshots : s[p] # None => HookOf[w][s] # <<>> /\ HookOf[w][s][1] = p
FailsOn(p) == \E w \in Workers : At(w, "invoke") /\ Current(w) = p /\ (Fails(w) \/ AnswersInvalidly(w))

(* A plugin that is first in some hook and never without a host is put back   *)
(* automatically once it stops failing, whatever late outcomes were still to  *)
(* be reported (breaker.go:12-15).                                            *)
BreakersClose ==
    \A p \in Plugins :
        Consulted(p) =>
            \/ <>(p \notin loaded) \/ []<><<FailsOn(p)>>_vars \/ <>[](~breaker[p].open)
=============================================================================
