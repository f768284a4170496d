--------------------------- MODULE PipelineProofs ---------------------------
(***************************************************************************)
(* The safety of Pipeline for any hooks, plugins, policies and thresholds. *)
(* Matched follows a plugin's code from the artifact to the invocation;    *)
(* Told relates a hook's decision and payload to the trace so far.         *)
(***************************************************************************)
EXTENDS Pipeline, TLAPS

Pcs == {"idle", "consult", "host", "invoke", "done"}
Busy == {"consult", "host", "invoke"}

Runs == [pc : Pcs, plugins : Seq(Plugins), outcomes : Traces, decision : Decisions,
         payload : [Fields -> Plugins \cup {None}], sampled : SUBSET Plugins,
         code : Codes \cup {None}, settled : BOOLEAN]

Wellformed(b) ==
    /\ b \in Breakers
    /\ b.probe => b.open /\ b.cooled
    /\ b.open <=> b.consecutive = Threshold

BreakersTyped ==
    /\ breaker \in [Plugins -> Breakers]
    /\ \A p \in Plugins : Wellformed(breaker[p])

Typed == HostsTyped /\ BreakersTyped /\ run \in [Workers -> Runs]

-----------------------------------------------------------------------------
(* Breakers *)

LEMMA BreakersStayWellformed ==
    ASSUME NEW b, Wellformed(b)
    PROVE  /\ Wellformed(Failed(b)) /\ Wellformed(Succeeded(b)) /\ Wellformed([b EXCEPT !.cooled = TRUE])
           /\ Admits(b) => Wellformed(Admitting(b))
<1>1. Threshold \in Nat \ {0} /\ b \in Breakers
  BY PipelineAssumption DEF Wellformed
<1>2. Wellformed(Succeeded(b))
  BY <1>1 DEF Wellformed, Succeeded, NewBreaker, Breakers
<1>3. Wellformed([b EXCEPT !.cooled = TRUE])
  BY <1>1 DEF Wellformed, Breakers
<1>4. Admits(b) => Wellformed(Admitting(b))
  BY <1>1 DEF Wellformed, Admits, Admitting, Breakers
<1>5. Wellformed(Failed(b))
  <2>1. CASE b.probe
    BY <1>1, <2>1 DEF Wellformed, Failed, Breakers
  <2>2. CASE ~b.probe /\ b.open
    BY <1>1, <2>2 DEF Wellformed, Failed
  <2>3. CASE ~b.probe /\ ~b.open
    <3> DEFINE n == b.consecutive + 1
    <3>1. b.consecutive \in 0..Threshold /\ b.consecutive # Threshold /\ n \in 0..Threshold
      BY <1>1, <2>3 DEF Wellformed, Breakers
    <3> DEFINE over == n >= Threshold
    <3>2. over \in BOOLEAN /\ (over <=> n = Threshold)
      BY <1>1, <3>1
    <3>3. Failed(b) = [b EXCEPT !.consecutive = n, !.open = over]
      BY <2>3 DEF Failed
    <3> HIDE DEF n, over
    <3>4. Failed(b) = [open |-> over, cooled |-> b.cooled, probe |-> FALSE, consecutive |-> n]
      BY <1>1, <2>3, <3>3 DEF Breakers
    <3> QED
      BY <1>1, <3>1, <3>2, <3>4 DEF Wellformed, Breakers
  <2> QED
    BY <2>1, <2>2, <2>3
<1> QED
  BY <1>2, <1>3, <1>4, <1>5

LEMMA NewBreakerWellformed == Wellformed(NewBreaker)
BY PipelineAssumption DEF Wellformed, NewBreaker, Breakers

-----------------------------------------------------------------------------
(* Traces *)

LEMMA SkippedTyped == \A p \in Plugins : Skipped(p) \in Outcomes
BY DEF Skipped, Outcomes, Decisions

LEMMA SkippedSays ==
    \A p : /\ Skipped(p).plugin = p /\ Skipped(p).did = "skipped"
           /\ Skipped(p).enforced = FALSE /\ Skipped(p).patch = {}
BY DEF Skipped

LEMMA SkipRestRecords ==
    ASSUME NEW outcomes \in Traces, NEW plugins \in Seq(Plugins), Len(outcomes) <= Len(plugins)
    PROVE  LET s == SkipRest(outcomes, plugins)
           IN  /\ s \in Traces /\ Len(s) = Len(plugins)
               /\ \A i \in 1..Len(outcomes) : s[i] = outcomes[i]
               /\ \A i \in 1..Len(plugins) : i > Len(outcomes) => s[i] = Skipped(plugins[i])
<1> DEFINE n == Len(plugins) - Len(outcomes)
           rest == [i \in 1..n |-> Skipped(plugins[Len(outcomes) + i])]
<1>1. n \in Nat /\ Len(outcomes) \in Nat /\ Len(plugins) = Len(outcomes) + n
  BY DEF Traces
<1>2. \A i \in 1..n : Skipped(plugins[Len(outcomes) + i]) \in Outcomes
  BY <1>1, SkippedTyped
<1>3. rest \in Seq(Outcomes) /\ Len(rest) = n
  BY <1>1, <1>2
<1>4. \A i \in 1..n : rest[i] = Skipped(plugins[Len(outcomes) + i])
  OBVIOUS
<1>5. SkipRest(outcomes, plugins) = outcomes \o rest
  BY DEF SkipRest
<1> HIDE DEF rest, n
<1>6. outcomes \o rest \in Seq(Outcomes) /\ Len(outcomes \o rest) = Len(plugins)
  BY <1>1, <1>3 DEF Traces
<1>7. \A i \in 1..Len(outcomes) : (outcomes \o rest)[i] = outcomes[i]
  BY <1>1, <1>3 DEF Traces
<1>8. ASSUME NEW i \in 1..Len(plugins), i > Len(outcomes)
      PROVE  (outcomes \o rest)[i] = Skipped(plugins[i])
  <2>1. i - Len(outcomes) \in 1..n
    BY <1>1, <1>8
  <2>2. (outcomes \o rest)[i] = rest[i - Len(outcomes)]
    BY <1>1, <1>3, <1>8, <2>1 DEF Traces
  <2>3. Len(outcomes) + (i - Len(outcomes)) = i
    BY <1>1
  <2> QED
    BY <1>4, <2>1, <2>2, <2>3
<1> QED
  BY <1>5, <1>6, <1>7, <1>8 DEF Traces

(* t is the trace s with more outcomes. *)
Extends(s, t) ==
    /\ t \in Traces /\ Len(s) <= Len(t)
    /\ \A i \in 1..Len(s) : t[i] = s[i]

LEMMA AppendExtends ==
    ASSUME NEW s \in Traces, NEW o \in Outcomes
    PROVE  /\ Extends(s, Append(s, o)) /\ Len(Append(s, o)) = Len(s) + 1
           /\ \A i \in 1..(Len(s) + 1) : i > Len(s) => Append(s, o)[i] = o
BY DEF Extends, Traces

-----------------------------------------------------------------------------
(* What a hook has to show for itself *)

Acts(r, p) == Rollout[p] = "enforce" \/ (Rollout[p] = "canary" /\ p \in r.sampled)

(* The trace follows the list, and is as long once the hook has ended. *)
Accounted(r) ==
    /\ Len(r.outcomes) <= Len(r.plugins)
    /\ \A i \in 1..Len(r.outcomes) : r.outcomes[i].plugin = r.plugins[i]
    /\ r.pc = "idle" => r.outcomes = <<>>
    /\ r.pc \in Busy => Len(r.outcomes) < Len(r.plugins)
    /\ r.pc = "done" => Len(r.outcomes) = Len(r.plugins)

(* Nothing enforced so far refuses or defers. *)
Goes(r) ==
    /\ r.decision \in {"allow", "mutate"}
    /\ \A i \in 1..Len(r.outcomes) :
         LET o == r.outcomes[i]
         IN  /\ o.enforced => o.decision \notin {"deny", "defer"}
             /\ o.enforced /\ o.decision = "mutate" => r.decision = "mutate"
             /\ o.did = "failed" /\ o.plugin \in FailsClosed => ~Acts(r, o.plugin)
    /\ r.decision = "mutate" =>
         \E i \in 1..Len(r.outcomes) : r.outcomes[i].enforced /\ r.outcomes[i].decision = "mutate"

(* One enforced outcome ended the hook, the last that ran. *)
Stopped(r) ==
    /\ r.decision \in {"deny", "defer"}
    /\ \E i \in 1..Len(r.outcomes) :
         /\ r.outcomes[i].enforced /\ r.outcomes[i].decision = r.decision
         /\ \A j \in 1..Len(r.outcomes) :
              /\ j > i => r.outcomes[j].did = "skipped" /\ ~r.outcomes[j].enforced
              /\ j < i => (r.outcomes[j].enforced => r.outcomes[j].decision \notin {"deny", "defer"})

(* A field's writer is the last whose enforced patch has it. *)
LastWriter(r, f, i) ==
    /\ r.outcomes[i].enforced /\ f \in r.outcomes[i].patch
    /\ \A j \in 1..Len(r.outcomes) : r.outcomes[j].enforced /\ f \in r.outcomes[j].patch => j <= i

Written(r) ==
    \A f \in Fields :
        r.payload[f] # None =>
            /\ f \in Writes[r.payload[f]] /\ Acts(r, r.payload[f])
            /\ \E i \in 1..Len(r.outcomes) :
                 r.outcomes[i].plugin = r.payload[f] /\ LastWriter(r, f, i)

Told(r) == Goes(r) \/ (r.pc = "done" /\ Stopped(r))
Sound(r) == Accounted(r) /\ Told(r) /\ Written(r)

LEMMA GoesOn ==
    ASSUME NEW r \in Runs, NEW r2 \in Runs, Goes(r), Extends(r.outcomes, r2.outcomes),
           r2.sampled = r.sampled, r2.decision = r.decision,
           \A i \in 1..Len(r2.outcomes) : i > Len(r.outcomes) =>
             LET o == r2.outcomes[i]
             IN  /\ o.enforced => o.decision = "allow"
                 /\ o.did = "failed" /\ o.plugin \in FailsClosed => ~Acts(r, o.plugin)
    PROVE  Goes(r2)
<1>1. /\ Len(r.outcomes) \in Nat /\ Len(r2.outcomes) \in Nat
      /\ Len(r.outcomes) <= Len(r2.outcomes)
      /\ \A i \in 1..Len(r.outcomes) : r2.outcomes[i] = r.outcomes[i]
  BY DEF Extends, Runs, Traces
<1>2. \A p : Acts(r2, p) = Acts(r, p)
  BY DEF Acts
<1>3. ASSUME NEW i \in 1..Len(r2.outcomes)
      PROVE  LET o == r2.outcomes[i]
             IN  /\ o.enforced => o.decision \notin {"deny", "defer"}
                 /\ o.enforced /\ o.decision = "mutate" => r2.decision = "mutate"
                 /\ o.did = "failed" /\ o.plugin \in FailsClosed => ~Acts(r2, o.plugin)
  <2>1. CASE i \in 1..Len(r.outcomes)
    BY <1>1, <1>2, <2>1 DEF Goes
  <2>2. CASE i > Len(r.outcomes)
    BY <1>2, <2>2
  <2> QED
    BY <1>1, <2>1, <2>2
<1>4. r2.decision = "mutate" =>
        \E i \in 1..Len(r2.outcomes) : r2.outcomes[i].enforced /\ r2.outcomes[i].decision = "mutate"
  BY <1>1 DEF Goes
<1> QED
  BY <1>3, <1>4 DEF Goes

LEMMA WritersStay ==
    ASSUME NEW r \in Runs, NEW r2 \in Runs, Written(r), Extends(r.outcomes, r2.outcomes),
           r2.sampled = r.sampled, NEW f \in Fields, r2.payload[f] = r.payload[f],
           r2.payload[f] # None,
           \A i \in 1..Len(r2.outcomes) : i > Len(r.outcomes) =>
             ~(r2.outcomes[i].enforced /\ f \in r2.outcomes[i].patch)
    PROVE  /\ f \in Writes[r2.payload[f]] /\ Acts(r2, r2.payload[f])
           /\ \E i \in 1..Len(r2.outcomes) :
                r2.outcomes[i].plugin = r2.payload[f] /\ LastWriter(r2, f, i)
<1>1. /\ Len(r.outcomes) \in Nat /\ Len(r2.outcomes) \in Nat
      /\ Len(r.outcomes) <= Len(r2.outcomes)
      /\ \A i \in 1..Len(r.outcomes) : r2.outcomes[i] = r.outcomes[i]
  BY DEF Extends, Runs, Traces
<1>2. f \in Writes[r2.payload[f]] /\ Acts(r2, r2.payload[f])
  BY DEF Written, Acts
<1>3. PICK i \in 1..Len(r.outcomes) :
        r.outcomes[i].plugin = r.payload[f] /\ LastWriter(r, f, i)
  BY DEF Written
<1>4. i \in 1..Len(r2.outcomes) /\ r2.outcomes[i] = r.outcomes[i]
  BY <1>1
<1>5. ASSUME NEW j \in 1..Len(r2.outcomes), r2.outcomes[j].enforced, f \in r2.outcomes[j].patch
      PROVE  j <= i
  <2>1. j \in 1..Len(r.outcomes)
    BY <1>1, <1>5
  <2> QED
    BY <1>1, <1>3, <1>5, <2>1 DEF LastWriter
<1> QED
  BY <1>2, <1>3, <1>4, <1>5 DEF LastWriter

LEMMA StaysWritten ==
    ASSUME NEW r \in Runs, NEW r2 \in Runs, Written(r), Extends(r.outcomes, r2.outcomes),
           r2.sampled = r.sampled, r2.payload = r.payload,
           \A i \in 1..Len(r2.outcomes) : i > Len(r.outcomes) =>
             (r2.outcomes[i].enforced => r2.outcomes[i].patch = {})
    PROVE  Written(r2)
<1> SUFFICES ASSUME NEW f \in Fields, r2.payload[f] # None
             PROVE  /\ f \in Writes[r2.payload[f]] /\ Acts(r2, r2.payload[f])
                    /\ \E i \in 1..Len(r2.outcomes) :
                         r2.outcomes[i].plugin = r2.payload[f] /\ LastWriter(r2, f, i)
  BY DEF Written
<1>1. \A i \in 1..Len(r2.outcomes) : i > Len(r.outcomes) =>
        ~(r2.outcomes[i].enforced /\ f \in r2.outcomes[i].patch)
  OBVIOUS
<1> QED
  BY <1>1, WritersStay

-----------------------------------------------------------------------------
(* How a run goes on *)

LEMMA CurrentTyped ==
    ASSUME Typed, NEW w \in Workers, run[w].pc \in Busy, Accounted(run[w])
    PROVE  /\ Current(w) \in Plugins
           /\ run[w] \in Runs /\ run[w].outcomes \in Traces /\ run[w].plugins \in Seq(Plugins)
           /\ Len(run[w].outcomes) \in Nat /\ Len(run[w].outcomes) < Len(run[w].plugins)
<1>1. run[w] \in Runs
  BY DEF Typed
<1>2. run[w].outcomes \in Traces /\ run[w].plugins \in Seq(Plugins)
  BY <1>1 DEF Runs
<1>3. Len(run[w].outcomes) \in Nat /\ Len(run[w].plugins) \in Nat
  BY <1>2 DEF Traces
<1>4. Len(run[w].outcomes) < Len(run[w].plugins)
  BY DEF Accounted
<1>5. Len(run[w].outcomes) + 1 \in 1..Len(run[w].plugins)
  BY <1>3, <1>4
<1> QED
  BY <1>1, <1>2, <1>3, <1>4, <1>5 DEF Current

LEMMA ContinueFields ==
    ASSUME Typed, NEW w \in Workers, run[w].pc \in Busy, Accounted(run[w]),
           NEW o \in Outcomes, o.plugin = Current(w)
    PROVE  LET r == run[w]
               c == Continue(w, o)
           IN  /\ c \in Runs /\ c.outcomes = Append(r.outcomes, o) /\ c.plugins = r.plugins
               /\ c.decision = r.decision /\ c.payload = r.payload /\ c.sampled = r.sampled
               /\ c.pc \in {"consult", "done"} /\ (c.settled => r.settled)
               /\ Accounted(c)
<1> DEFINE r == run[w]
           outcomes == Append(r.outcomes, o)
           over == Len(outcomes) = Len(r.plugins)
           pc == IF over THEN "done" ELSE "consult"
           settled == r.settled /\ ~over
           c == [pc |-> pc, plugins |-> r.plugins, outcomes |-> outcomes, decision |-> r.decision,
                 payload |-> r.payload, sampled |-> r.sampled, code |-> None, settled |-> settled]
<1>1. /\ r \in Runs /\ r.outcomes \in Traces /\ r.plugins \in Seq(Plugins)
      /\ Len(r.outcomes) \in Nat /\ Len(r.outcomes) < Len(r.plugins)
  BY CurrentTyped
<1>2. Continue(w, o) = [r EXCEPT !.outcomes = outcomes, !.pc = pc, !.code = None, !.settled = settled]
  BY DEF Continue
<1>3. /\ outcomes \in Traces /\ Len(outcomes) = Len(r.outcomes) + 1
      /\ \A i \in 1..Len(r.outcomes) : outcomes[i] = r.outcomes[i]
      /\ outcomes[Len(r.outcomes) + 1] = o
  BY <1>1, AppendExtends DEF Extends
<1>4. /\ Len(r.plugins) \in Nat /\ (over <=> Len(outcomes) = Len(r.plugins)) /\ over \in BOOLEAN
      /\ pc \in {"consult", "done"} /\ (pc = "done" <=> over)
  BY <1>1
<1>5. settled \in BOOLEAN /\ (settled => r.settled)
  BY <1>1 DEF Runs
<1>6. o.plugin = r.plugins[Len(r.outcomes) + 1]
  BY DEF Current
<1> HIDE DEF r, outcomes, over, pc, settled
<1>7. Continue(w, o) = c
  BY <1>1, <1>2 DEF Runs
<1>8. c \in Runs
  BY <1>1, <1>3, <1>4, <1>5 DEF Runs, Pcs
<1>9. Accounted(c)
  <2>1. Len(outcomes) <= Len(r.plugins) /\ (~over => Len(outcomes) < Len(r.plugins))
    BY <1>1, <1>3, <1>4
  <2>2. \A i \in 1..Len(outcomes) : outcomes[i].plugin = r.plugins[i]
    <3> SUFFICES ASSUME NEW i \in 1..Len(outcomes) PROVE outcomes[i].plugin = r.plugins[i]
      OBVIOUS
    <3>1. CASE i \in 1..Len(r.outcomes)
      BY <1>3, <3>1 DEF Accounted, r
    <3>2. CASE i = Len(r.outcomes) + 1
      BY <1>3, <1>6, <3>2
    <3> QED
      BY <1>1, <1>3, <3>1, <3>2
  <2>3. c.pc = pc /\ c.outcomes = outcomes /\ c.plugins = r.plugins
    OBVIOUS
  <2> HIDE DEF c
  <2> QED
    BY <1>4, <2>1, <2>2, <2>3 DEF Accounted, Busy
<1> QED
  BY <1>3, <1>4, <1>5, <1>7, <1>8, <1>9 DEF r, outcomes

LEMMA ContinueSound ==
    ASSUME Typed, NEW w \in Workers, run[w].pc \in Busy, Sound(run[w]),
           NEW o \in Outcomes, o.plugin = Current(w),
           o.enforced => o.decision = "allow" /\ o.patch = {},
           o.did = "failed" /\ o.plugin \in FailsClosed => ~Enforces(w, o.plugin)
    PROVE  Sound(Continue(w, o))
<1> DEFINE r == run[w]
           c == Continue(w, o)
<1>1. /\ c \in Runs /\ c.outcomes = Append(r.outcomes, o) /\ Accounted(c)
      /\ c.decision = r.decision /\ c.payload = r.payload /\ c.sampled = r.sampled
  BY ContinueFields DEF Sound
<1>2. r \in Runs /\ r.outcomes \in Traces /\ Goes(r) /\ Written(r)
  BY CurrentTyped DEF Sound, Told, Busy
<1>3. /\ Extends(r.outcomes, c.outcomes)
      /\ \A i \in 1..Len(c.outcomes) : i > Len(r.outcomes) => c.outcomes[i] = o
  BY <1>1, <1>2, AppendExtends
<1>4. o.did = "failed" /\ o.plugin \in FailsClosed => ~Acts(r, o.plugin)
  BY DEF Enforces, Acts
<1> HIDE DEF r, c
<1>5. Goes(c)
  BY <1>1, <1>2, <1>3, <1>4, GoesOn
<1>6. Written(c)
  BY <1>1, <1>2, <1>3, StaysWritten
<1> QED
  BY <1>1, <1>5, <1>6 DEF Sound, Told, c

(* A refusal or deferral that is enforced ends the hook. *)
LEMMA DecideSound ==
    ASSUME Typed, NEW w \in Workers, run[w].pc \in Busy, Sound(run[w]),
           NEW o \in Outcomes, o.plugin = Current(w),
           o.enforced, o.decision \in {"deny", "defer"}, o.patch = {}
    PROVE  Decide(w, o) \in Runs /\ Sound(Decide(w, o)) /\ ~Decide(w, o).settled
<1> DEFINE r == run[w]
           s == Append(r.outcomes, o)
           t == SkipRest(s, r.plugins)
           d == [pc |-> "done", plugins |-> r.plugins, outcomes |-> t, decision |-> o.decision,
                 payload |-> r.payload, sampled |-> r.sampled, code |-> None, settled |-> FALSE]
           n == Len(r.outcomes) + 1
<1>1. /\ r \in Runs /\ r.outcomes \in Traces /\ r.plugins \in Seq(Plugins)
      /\ Len(r.outcomes) \in Nat /\ Len(r.plugins) \in Nat /\ Len(r.outcomes) < Len(r.plugins)
      /\ Goes(r) /\ Written(r) /\ Accounted(r)
  BY CurrentTyped DEF Sound, Told, Busy
<1>2. /\ s \in Traces /\ Len(s) = n /\ s[n] = o
      /\ \A i \in 1..Len(r.outcomes) : s[i] = r.outcomes[i]
  BY <1>1, AppendExtends DEF Extends
<1>3. n \in Nat /\ n <= Len(r.plugins) /\ n \in 1..n /\ n > Len(r.outcomes)
  BY <1>1
<1>4. Decide(w, o) = [r EXCEPT !.outcomes = t, !.decision = o.decision, !.pc = "done",
                               !.code = None, !.settled = FALSE]
  BY DEF Decide
<1>5. o.plugin = r.plugins[n]
  BY DEF Current
<1> HIDE DEF r, s, n
<1>6. /\ t \in Traces /\ Len(t) = Len(r.plugins)
      /\ \A i \in 1..n : t[i] = s[i]
      /\ \A i \in 1..Len(r.plugins) : i > n => t[i] = Skipped(r.plugins[i])
  BY <1>1, <1>2, <1>3, SkipRestRecords
<1> HIDE DEF t
<1>7. Decide(w, o) = d
  BY <1>1, <1>4 DEF Runs
<1>8. d \in Runs
  BY <1>1, <1>6 DEF Runs, Pcs, Decisions
<1>9. /\ \A i \in 1..Len(r.outcomes) : t[i] = r.outcomes[i]
      /\ t[n] = o
      /\ \A i \in 1..Len(t) : i > n =>
           /\ t[i].plugin = r.plugins[i] /\ t[i].did = "skipped"
           /\ ~t[i].enforced /\ t[i].patch = {}
      /\ n \in 1..Len(t)
  <2>1. \A i \in 1..Len(r.outcomes) : i \in 1..n
    BY <1>1 DEF n
  <2>2. \A i \in 1..Len(t) : i > n => t[i] = Skipped(r.plugins[i])
    BY <1>6
  <2> QED
    BY <1>2, <1>3, <1>6, <2>1, <2>2, SkippedSays
<1>10. \A i \in 1..Len(t) : i \in 1..Len(r.outcomes) \/ i = n \/ i > n
  BY <1>1, <1>6 DEF n
<1>11. Accounted(d)
  <2>1. \A i \in 1..Len(t) : t[i].plugin = r.plugins[i]
    BY <1>1, <1>5, <1>9, <1>10 DEF Accounted
  <2> QED
    BY <1>1, <1>6, <2>1 DEF Accounted, Busy
<1>12. Stopped(d)
  <2>1. ASSUME NEW j \in 1..Len(t)
        PROVE  /\ j > n => t[j].did = "skipped" /\ ~t[j].enforced
               /\ j < n => (t[j].enforced => t[j].decision \notin {"deny", "defer"})
    <3>1. j > n => t[j].did = "skipped" /\ ~t[j].enforced
      BY <1>9
    <3>2. j < n => j \in 1..Len(r.outcomes)
      BY <1>1 DEF n
    <3> QED
      BY <1>1, <1>9, <3>1, <3>2 DEF Goes
  <2> QED
    BY <1>9, <2>1 DEF Stopped
<1>13. Written(d)
  <2>1. Extends(r.outcomes, d.outcomes)
    BY <1>1, <1>6, <1>9 DEF Extends
  <2>2. \A i \in 1..Len(d.outcomes) : i > Len(r.outcomes) =>
          (d.outcomes[i].enforced => d.outcomes[i].patch = {})
    BY <1>1, <1>9, <1>10
  <2>3. d.sampled = r.sampled /\ d.payload = r.payload
    OBVIOUS
  <2> HIDE DEF d
  <2> QED
    BY <1>1, <1>8, <2>1, <2>2, <2>3, StaysWritten
<1> QED
  BY <1>7, <1>8, <1>11, <1>12, <1>13 DEF Sound, Told

(* An enforced mutation inside its plugin's writes overrides earlier ones. *)
LEMMA MutateSound ==
    ASSUME Typed, NEW w \in Workers, run[w].pc \in Busy, Sound(run[w]),
           NEW patch \in SUBSET Fields, InScope(Current(w), patch), Enforces(w, Current(w))
    PROVE  LET p == Current(w)
               m == [Continue(w, Answer(p, TRUE, "mutate", patch))
                       EXCEPT !.payload = Patched(w, p, patch), !.decision = "mutate"]
           IN  m \in Runs /\ Sound(m) /\ (m.settled => run[w].settled) /\ m.pc # "invoke"
<1> DEFINE r == run[w]
           p == Current(w)
           o == Answer(p, TRUE, "mutate", patch)
           c == Continue(w, o)
           payload == Patched(w, p, patch)
           m == [c EXCEPT !.payload = payload, !.decision = "mutate"]
<1>1. /\ r \in Runs /\ r.outcomes \in Traces /\ p \in Plugins
      /\ Len(r.outcomes) \in Nat /\ Goes(r) /\ Written(r)
  BY CurrentTyped DEF Sound, Told, Busy
<1>2. /\ o \in Outcomes /\ o.plugin = p /\ o.did = "answered" /\ o.enforced = TRUE
      /\ o.decision = "mutate" /\ o.patch = patch
  BY <1>1 DEF Answer, Outcomes, Decisions
<1>3. payload \in [Fields -> Plugins \cup {None}]
      /\ \A f \in Fields : payload[f] = IF f \in patch THEN p ELSE r.payload[f]
  BY <1>1 DEF Patched, Runs
<1>4. patch \subseteq Writes[p] /\ Acts(r, p)
  BY DEF InScope, Enforces, Acts
<1> HIDE DEF r, p, o, payload
<1>5. /\ c \in Runs /\ c.outcomes = Append(r.outcomes, o) /\ Accounted(c)
      /\ c.sampled = r.sampled /\ c.pc \in {"consult", "done"} /\ (c.settled => r.settled)
  BY <1>2, ContinueFields DEF r, p, Sound
<1> HIDE DEF c
<1>6. /\ m \in Runs /\ m.outcomes = c.outcomes /\ m.plugins = c.plugins /\ m.pc = c.pc
      /\ m.sampled = c.sampled /\ m.settled = c.settled
      /\ m.payload = payload /\ m.decision = "mutate"
  BY <1>3, <1>5 DEF Runs, Decisions
<1> HIDE DEF m
<1>7. /\ Extends(r.outcomes, m.outcomes)
      /\ \A i \in 1..Len(m.outcomes) : i > Len(r.outcomes) => m.outcomes[i] = o
      /\ Len(m.outcomes) = Len(r.outcomes) + 1
  BY <1>1, <1>2, <1>5, <1>6, AppendExtends
<1>8. /\ \A i \in 1..Len(r.outcomes) : m.outcomes[i] = r.outcomes[i]
      /\ m.outcomes[Len(m.outcomes)] = o /\ Len(m.outcomes) \in 1..Len(m.outcomes)
      /\ \A i \in 1..Len(m.outcomes) : i \in 1..Len(r.outcomes) \/ i = Len(m.outcomes)
  BY <1>1, <1>7 DEF Extends
<1>9. \A q : Acts(m, q) = Acts(r, q)
  BY <1>5, <1>6 DEF Acts
<1>10. Goes(m)
  BY <1>1, <1>2, <1>6, <1>8, <1>9 DEF Goes
<1>11. Written(m)
  <2> SUFFICES ASSUME NEW f \in Fields, m.payload[f] # None
               PROVE  /\ f \in Writes[m.payload[f]] /\ Acts(m, m.payload[f])
                      /\ \E i \in 1..Len(m.outcomes) :
                           m.outcomes[i].plugin = m.payload[f] /\ LastWriter(m, f, i)
    BY DEF Written
  <2>1. CASE f \in patch
    <3>1. LastWriter(m, f, Len(m.outcomes))
      BY <1>1, <1>2, <1>7, <1>8, <2>1 DEF LastWriter
    <3> QED
      BY <1>2, <1>3, <1>4, <1>6, <1>8, <1>9, <2>1, <3>1
  <2>2. CASE f \notin patch
    <3>1. m.payload[f] = r.payload[f] /\ m.sampled = r.sampled
      BY <1>3, <1>5, <1>6, <2>2
    <3>2. \A i \in 1..Len(m.outcomes) : i > Len(r.outcomes) =>
            ~(m.outcomes[i].enforced /\ f \in m.outcomes[i].patch)
      BY <1>2, <1>7, <2>2
    <3> QED
      BY <1>1, <1>6, <1>7, <3>1, <3>2, WritersStay
  <2> QED
    BY <2>1, <2>2
<1>12. Accounted(m)
  BY <1>5, <1>6 DEF Accounted
<1> QED
  BY <1>5, <1>6, <1>10, <1>11, <1>12 DEF Sound, Told, m, c, o, p, payload, r

LEMMA CombineSound ==
    ASSUME Typed, NEW w \in Workers, run[w].pc \in Busy, Sound(run[w]),
           NEW decision \in Decisions, NEW patch \in SUBSET Fields
    PROVE  LET c == Combine(w, Current(w), decision, patch)
           IN  c \in Runs /\ Sound(c) /\ (c.settled => run[w].settled) /\ c.pc # "invoke"
<1> DEFINE p == Current(w)
           final == Enforces(w, p) /\ decision \in {"deny", "defer"}
           written == Enforces(w, p) /\ decision = "mutate" /\ InScope(p, patch)
<1>1. p \in Plugins /\ Enforces(w, p) \in BOOLEAN
  BY CurrentTyped DEF Sound, Enforces
<1>2. CASE final
  <2> DEFINE o == Answer(p, TRUE, decision, {})
  <2>1. /\ o \in Outcomes /\ o.plugin = p /\ o.enforced /\ o.decision \in {"deny", "defer"}
        /\ o.patch = {}
    BY <1>1, <1>2 DEF Answer, Outcomes
  <2>2. Combine(w, p, decision, patch) = Decide(w, o)
    BY <1>2 DEF Combine
  <2>3. Decide(w, o).pc # "invoke"
    <3>1. run[w] \in Runs
      BY DEF Typed
    <3> QED
      BY <3>1 DEF Decide, Runs
  <2> HIDE DEF o, p
  <2> QED
    BY <2>1, <2>2, <2>3, DecideSound DEF p
<1>3. CASE written
  <2>1. ~final
    BY <1>3
  <2>2. Combine(w, p, decision, patch) =
          [Continue(w, Answer(p, TRUE, "mutate", patch))
             EXCEPT !.payload = Patched(w, p, patch), !.decision = "mutate"]
    BY <1>3, <2>1 DEF Combine
  <2> QED
    BY <1>3, <2>2, MutateSound
<1>4. CASE ~final /\ ~written
  <2> DEFINE enforced == Enforces(w, p) /\ decision = "allow"
             o == Answer(p, enforced, decision, {})
  <2>1. /\ o \in Outcomes /\ o.plugin = p /\ (o.enforced => o.decision = "allow")
        /\ o.patch = {} /\ o.did = "answered"
    BY <1>1 DEF Answer, Outcomes
  <2>2. Combine(w, p, decision, patch) = Continue(w, o)
    BY <1>4 DEF Combine
  <2> HIDE DEF o, p
  <2>3. Sound(Continue(w, o))
    BY <2>1, ContinueSound DEF p
  <2>4. LET c == Continue(w, o) IN c \in Runs /\ c.pc \in {"consult", "done"} /\ (c.settled => run[w].settled)
    BY <2>1, ContinueFields DEF p, Sound
  <2> QED
    BY <2>2, <2>3, <2>4 DEF p
<1> QED
  BY <1>2, <1>3, <1>4

-----------------------------------------------------------------------------
(* Hosts *)

(* Between swaps what is loaded is compiled as declared; while a swap is being *)
(* followed, what has been loaded so far is, and is not loaded again.          *)
HostsMatched ==
    /\ ~syncing => todo = {} /\ \A p \in loaded : compiled[p] = declared[p]
    /\ syncing => \A p \in ready : p \notin todo /\ compiled[p] = declared[p]

Matched(r) ==
    /\ r.settled => ~syncing
    /\ r.settled /\ r.pc = "invoke" => r.code = declared[r.plugins[Len(r.outcomes) + 1]]

Inv ==
    /\ Typed /\ HostsMatched
    /\ \A w \in Workers : Matched(run[w]) /\ Sound(run[w])

LEMMA IdleSound == Idle \in Runs /\ Sound(Idle) /\ ~Idle.settled /\ Idle.pc = "idle"
<1> DEFINE r == Idle
<1>1. /\ r.pc = "idle" /\ r.outcomes = <<>> /\ r.plugins = <<>> /\ r.decision = "allow"
      /\ \A f \in Fields : r.payload[f] = None
      /\ r.settled = FALSE
  BY DEF Idle, Untouched
<1>2. r \in Runs
  BY DEF Idle, Untouched, Runs, Pcs, Traces, Decisions
<1> HIDE DEF r
<1>3. Accounted(r) /\ Goes(r) /\ Written(r)
  BY <1>1 DEF Accounted, Goes, Written, Busy
<1> QED
  BY <1>1, <1>2, <1>3 DEF r, Sound, Told

LEMMA InitInv == Init => Inv
<1> SUFFICES ASSUME Init PROVE Inv
  OBVIOUS
<1>1. HostsTyped
  BY SnapshotsAssumption DEF Init, HostsInit, HostsTyped, Declared
<1>2. HostsMatched
  BY DEF Init, HostsInit, HostsMatched, Declared
<1>3. BreakersTyped
  BY NewBreakerWellformed DEF Init, BreakersTyped, Wellformed
<1>4. run \in [Workers -> Runs] /\ \A w \in Workers : Matched(run[w]) /\ Sound(run[w])
  BY IdleSound DEF Init, Matched
<1> QED
  BY <1>1, <1>2, <1>3, <1>4 DEF Inv, Typed

(* A step of one hook. *)
LEMMA RunStep ==
    ASSUME Inv, NEW w \in Workers, NEW r, run' = [run EXCEPT ![w] = r], UNCHANGED hostVars,
           BreakersTyped', r \in Runs, Sound(r), Matched(r)
    PROVE  Inv'
<1>1. HostsTyped' /\ HostsMatched'
  BY DEF Inv, Typed, hostVars, HostsTyped, HostsMatched
<1>2. run' \in [Workers -> Runs]
  BY DEF Inv, Typed
<1>3. ASSUME NEW v \in Workers PROVE Matched(run[v])' /\ Sound(run'[v])
  <2>1. run'[v] = r \/ run'[v] = run[v]
    BY DEF Inv, Typed
  <2>2. Sound(run'[v])
    BY <2>1 DEF Inv
  <2>3. Matched(run[v]) /\ syncing' = syncing /\ declared' = declared
    BY DEF Inv, hostVars
  <2>4. Matched(run[v])'
    BY <2>1, <2>3 DEF Matched
  <2> QED
    BY <2>2, <2>4
<1>4. \A v \in Workers : Sound(run[v])'
  BY <1>3
<1> QED
  BY <1>1, <1>2, <1>3, <1>4 DEF Inv, Typed

LEMMA HostStep ==
    ASSUME Inv, Follow
    PROVE  Inv'
<1>1. breaker' = breaker /\ run' = run /\ declared' = declared /\ served' = served
  BY DEF Follow, Sync, LoadNext, Replace
<1>2. CASE LoadNext
  <2>1. PICK p \in todo, artifact \in Artifacts : Load(p, artifact) /\ todo' = todo \ {p}
    BY <1>2 DEF LoadNext
  <2>2. p \in Plugins /\ syncing /\ declared[p] \in Codes \cup {None} /\ p \notin ready
        /\ syncing' = syncing /\ loaded' = loaded
    BY <1>2, <2>1, SnapshotsAssumption DEF LoadNext, Inv, Typed, HostsTyped, HostsMatched
  <2>3. /\ ready' = ready \cup {p} \/ ready' = ready
        /\ compiled' = compiled \/ compiled' = [compiled EXCEPT ![p] = declared[p]]
        /\ p \in ready' => compiled'[p] = declared[p]
    BY <2>1, <2>2 DEF Load, Inv, Typed, HostsTyped
  <2>4. HostsTyped'
    BY <1>1, <2>1, <2>2, <2>3 DEF Inv, Typed, HostsTyped
  <2>5. HostsMatched'
    BY <1>1, <2>1, <2>2, <2>3 DEF Inv, Typed, HostsTyped, HostsMatched
  <2>6. \A w \in Workers : Matched(run[w])'
    BY <1>1, <2>2 DEF Inv, Matched
  <2> QED
    BY <1>1, <2>4, <2>5, <2>6 DEF Inv, Typed, BreakersTyped
<1>3. CASE Replace
  <2>1. HostsTyped' /\ HostsMatched'
    BY <1>1, <1>3 DEF Replace, Inv, Typed, HostsTyped, HostsMatched
  <2>2. \A w \in Workers : Matched(run[w])'
    BY <1>1, <1>3 DEF Replace, Inv, Matched
  <2> QED
    BY <1>1, <2>1, <2>2 DEF Inv, Typed, BreakersTyped
<1> QED
  BY <1>2, <1>3 DEF Follow, Sync

(* Whatever is running when a snapshot is swapped in is no longer settled. *)
LEMMA SwapStep ==
    ASSUME Inv, Swap
    PROVE  Inv'
<1>1. breaker' = breaker /\ compiled' = compiled /\ loaded' = loaded /\ syncing' = TRUE
      /\ declared' \in Snapshots /\ served' = served \cup {declared'}
      /\ todo' \subseteq Plugins /\ ready' = {}
  BY DEF Swap, Activate
<1>2. HostsTyped' /\ HostsMatched'
  BY <1>1 DEF Inv, Typed, HostsTyped, HostsMatched
<1>3. ASSUME NEW w \in Workers
      PROVE  run'[w] \in Runs /\ Sound(run'[w]) /\ ~run'[w].settled
  <2> DEFINE r == run[w]
             r2 == [r EXCEPT !.settled = FALSE]
  <2>1. run'[w] = r2
    BY DEF Swap
  <2>2. r \in Runs /\ Sound(r)
    BY DEF Inv, Typed
  <2> HIDE DEF r
  <2>3. /\ r2 \in Runs /\ r2.pc = r.pc /\ r2.plugins = r.plugins /\ r2.outcomes = r.outcomes
        /\ r2.decision = r.decision /\ r2.payload = r.payload /\ r2.sampled = r.sampled
        /\ r2.settled = FALSE
    BY <2>2 DEF Runs
  <2> HIDE DEF r2
  <2>4. Sound(r2)
    BY <2>2, <2>3 DEF Sound, Accounted, Told, Goes, Stopped, Written, LastWriter, Acts
  <2> QED
    BY <2>1, <2>3, <2>4
<1>4. run' \in [Workers -> Runs]
  BY <1>3 DEF Swap
<1>5. \A w \in Workers : Matched(run[w])'
  BY <1>3 DEF Matched
<1>6. \A w \in Workers : Sound(run[w])'
  BY <1>3
<1> QED
  BY <1>1, <1>2, <1>4, <1>5, <1>6 DEF Inv, Typed, BreakersTyped

-----------------------------------------------------------------------------
(* The steps of a hook *)

LEMMA StartStep ==
    ASSUME Inv, NEW w \in Workers, NEW view \in served, Start(w, view)
    PROVE  Inv'
<1> DEFINE r == run[w]
           plugins == HookOf[w][view]
           pc == IF plugins = <<>> THEN "done" ELSE "consult"
           settled == plugins # <<>> /\ ~syncing
<1>1. r \in Runs /\ r.pc = "idle" /\ Sound(r) /\ UNCHANGED <<hostVars, breaker>>
  BY DEF Start, At, Inv, Typed
<1>2. plugins \in Seq(Plugins)
  BY PipelineAssumption DEF Inv, Typed, HostsTyped
<1>3. PICK sampled \in Samples(plugins) :
        run' = [run EXCEPT ![w].pc = pc, ![w].plugins = plugins, ![w].sampled = sampled,
                           ![w].settled = settled]
  BY DEF Start
<1>0. sampled \in SUBSET Plugins
  BY <1>2 DEF Samples
<1>4. r.outcomes = <<>> /\ r.decision = "allow" /\ \A f \in Fields : r.payload[f] = None
  BY <1>1 DEF Sound, Accounted, Told, Goes, Written
<1>5. settled \in BOOLEAN /\ (settled => ~syncing) /\ pc \in {"done", "consult"}
      /\ (pc = "done" <=> plugins = <<>>) /\ Len(plugins) \in Nat /\ (Len(plugins) = 0 <=> plugins = <<>>)
  BY <1>2 DEF Inv, Typed, HostsTyped
<1> DEFINE r1 == [r EXCEPT !.pc = pc, !.plugins = plugins]
           r2 == [r1 EXCEPT !.sampled = sampled, !.settled = settled]
<1> HIDE DEF pc, settled, plugins
<1>6. run' = [run EXCEPT ![w] = r2]
  BY <1>3 DEF Inv, Typed
<1> HIDE DEF r
<1>7. /\ r2 \in Runs /\ r2.pc = pc /\ r2.plugins = plugins /\ r2.outcomes = r.outcomes
      /\ r2.decision = r.decision /\ r2.payload = r.payload /\ r2.sampled = sampled
      /\ r2.settled = settled
  <2>1. r1 \in Runs /\ r1.pc = pc /\ r1.plugins = plugins /\ r1.outcomes = r.outcomes
        /\ r1.decision = r.decision /\ r1.payload = r.payload
    BY <1>1, <1>2, <1>5 DEF Runs, Pcs
  <2> HIDE DEF r1
  <2> QED
    BY <1>0, <1>5, <2>1 DEF Runs
<1> HIDE DEF r2
<1>8. Accounted(r2) /\ Goes(r2) /\ Written(r2)
  BY <1>4, <1>5, <1>7 DEF Accounted, Goes, Written, Busy
<1>9. Sound(r2) /\ Matched(r2)
  BY <1>5, <1>7, <1>8 DEF Sound, Told, Matched
<1>10. BreakersTyped'
  BY <1>1 DEF Inv, Typed, BreakersTyped
<1> QED
  BY <1>1, <1>6, <1>7, <1>9, <1>10, RunStep

(* Every other step ends, continues or changes the stage of a hook under way. *)
LEMMA StageStep ==
    ASSUME Inv, NEW w \in Workers, run[w].pc \in Busy, NEW pc \in Busy, NEW code \in Codes \cup {None},
           run' = [run EXCEPT ![w] = [run[w] EXCEPT !.pc = pc, !.code = code]],
           UNCHANGED hostVars, BreakersTyped',
           run[w].settled /\ pc = "invoke" => code = declared[Current(w)]
    PROVE  Inv'
<1> DEFINE r == run[w]
           r2 == [r EXCEPT !.pc = pc, !.code = code]
<1>1. r \in Runs /\ Sound(r) /\ Goes(r) /\ Matched(r)
  BY DEF Inv, Typed, Sound, Told, Busy
<1>2. Current(w) = r.plugins[Len(r.outcomes) + 1]
  BY DEF Current
<1> HIDE DEF r
<1>3. /\ r2 \in Runs /\ r2.pc = pc /\ r2.plugins = r.plugins /\ r2.outcomes = r.outcomes
      /\ r2.decision = r.decision /\ r2.payload = r.payload /\ r2.sampled = r.sampled
      /\ r2.settled = r.settled /\ r2.code = code
  BY <1>1 DEF Runs, Pcs, Busy
<1> HIDE DEF r2
<1>4. Accounted(r2)
  BY <1>1, <1>3 DEF Sound, Accounted, Busy, r
<1>5. Goes(r2) /\ Written(r2)
  BY <1>1, <1>3 DEF Sound, Goes, Written, LastWriter, Acts
<1>6. Matched(r2)
  BY <1>1, <1>2, <1>3 DEF Matched, r
<1>7. run' = [run EXCEPT ![w] = r2]
  BY DEF r, r2
<1> QED
  BY <1>3, <1>4, <1>5, <1>6, <1>7, RunStep DEF Sound, Told

LEMMA ContinueStep ==
    ASSUME Inv, NEW w \in Workers, run[w].pc \in Busy, NEW c \in Runs, Sound(c),
           c.settled => run[w].settled, c.pc # "invoke",
           run' = [run EXCEPT ![w] = c], UNCHANGED hostVars, BreakersTyped'
    PROVE  Inv'
<1>1. Matched(c)
  BY DEF Inv, Matched
<1> QED
  BY <1>1, RunStep

LEMMA BusyStep ==
    ASSUME Inv, NEW w \in Workers, run[w].pc \in Busy
    PROVE  /\ Typed /\ Sound(run[w]) /\ Accounted(run[w]) /\ Current(w) \in Plugins
           /\ run[w] \in Runs /\ BreakersTyped
BY CurrentTyped DEF Inv, Typed, Sound

(* A skipped, errored or tolerated outcome. *)
LEMMA TolerateStep ==
    ASSUME Inv, NEW w \in Workers, run[w].pc \in Busy, NEW o \in Outcomes, o.plugin = Current(w),
           ~o.enforced, o.did = "failed" /\ o.plugin \in FailsClosed => ~Enforces(w, o.plugin),
           run' = [run EXCEPT ![w] = Continue(w, o)], UNCHANGED hostVars, BreakersTyped'
    PROVE  Inv'
<1>1. Typed /\ Sound(run[w]) /\ Accounted(run[w])
  BY BusyStep
<1>2. Sound(Continue(w, o))
  BY <1>1, ContinueSound
<1>3. LET c == Continue(w, o)
      IN  c \in Runs /\ c.pc \in {"consult", "done"} /\ (c.settled => run[w].settled)
  BY <1>1, ContinueFields
<1> QED
  BY <1>2, <1>3, ContinueStep

LEMMA BreakerStep ==
    ASSUME BreakersTyped, NEW p \in Plugins, NEW b, Wellformed(b), breaker' = [breaker EXCEPT ![p] = b]
    PROVE  BreakersTyped'
BY DEF BreakersTyped, Wellformed

LEMMA OutOfTimeStep ==
    ASSUME Inv, NEW w \in Workers, OutOfTime(w)
    PROVE  Inv'
<1> DEFINE r == run[w]
           t == SkipRest(r.outcomes, r.plugins)
           d == [r EXCEPT !.outcomes = t, !.pc = "done", !.settled = FALSE]
<1>1. /\ r \in Runs /\ r.outcomes \in Traces /\ r.plugins \in Seq(Plugins)
      /\ r.pc = "consult" /\ UNCHANGED <<hostVars, breaker>> /\ Sound(r) /\ Goes(r) /\ Written(r)
      /\ Len(r.outcomes) <= Len(r.plugins)
  BY DEF OutOfTime, At, Inv, Typed, Runs, Sound, Told, Accounted
<1>2. run' = [run EXCEPT ![w] = d]
  BY DEF OutOfTime, Inv, Typed
<1> HIDE DEF r
<1>3. /\ t \in Traces /\ Len(t) = Len(r.plugins)
      /\ \A i \in 1..Len(r.outcomes) : t[i] = r.outcomes[i]
      /\ \A i \in 1..Len(r.plugins) : i > Len(r.outcomes) => t[i] = Skipped(r.plugins[i])
  BY <1>1, SkipRestRecords
<1> HIDE DEF t
<1>4. /\ d \in Runs /\ d.pc = "done" /\ d.plugins = r.plugins /\ d.outcomes = t
      /\ d.decision = r.decision /\ d.payload = r.payload /\ d.sampled = r.sampled /\ ~d.settled
  BY <1>1, <1>3 DEF Runs, Pcs
<1> HIDE DEF d
<1>5. Extends(r.outcomes, d.outcomes)
  BY <1>1, <1>3, <1>4 DEF Extends
<1>6. \A i \in 1..Len(d.outcomes) : i > Len(r.outcomes) =>
        /\ d.outcomes[i].plugin = r.plugins[i] /\ d.outcomes[i].did = "skipped"
        /\ ~d.outcomes[i].enforced
  BY <1>3, <1>4, SkippedSays
<1>7. Goes(d) /\ Written(d)
  BY <1>1, <1>4, <1>5, <1>6, GoesOn, StaysWritten
<1>8. Accounted(d)
  <2>1. Len(r.outcomes) \in Nat /\ Len(d.outcomes) \in Nat
    BY <1>1, <1>3, <1>4 DEF Traces
  <2>2. \A i \in 1..Len(d.outcomes) : d.outcomes[i].plugin = r.plugins[i]
    BY <1>1, <1>3, <1>4, <1>6, <2>1 DEF Sound, Accounted
  <2> QED
    BY <1>3, <1>4, <2>1, <2>2 DEF Accounted, Busy
<1>9. BreakersTyped'
  BY <1>1 DEF Inv, Typed, BreakersTyped
<1>10. Sound(d) /\ run[w].pc \in Busy
  BY <1>1, <1>7, <1>8 DEF Sound, Told, r, Busy
<1> QED
  BY <1>1, <1>2, <1>4, <1>9, <1>10, ContinueStep

LEMMA ProceedStep ==
    ASSUME Inv, NEW w \in Workers, Proceed(w)
    PROVE  Inv'
<1> DEFINE p == Current(w)
<1>1. CASE CircuitOpen(w) \/ HostUnavailable(w)
  <2>1. /\ run[w].pc \in Busy /\ UNCHANGED <<hostVars, breaker>>
        /\ run' = [run EXCEPT ![w] = Continue(w, Skipped(p))]
    BY <1>1 DEF CircuitOpen, HostUnavailable, At, Busy
  <2>2. Skipped(p) \in Outcomes /\ BreakersTyped'
    BY <2>1, BusyStep, SkippedTyped DEF BreakersTyped
  <2>3. Skipped(p).plugin = p /\ ~Skipped(p).enforced /\ Skipped(p).did # "failed"
    BY SkippedSays
  <2> QED
    BY <2>1, <2>2, <2>3, TolerateStep
<1>2. CASE Allow(w)
  <2>1. /\ run[w].pc = "consult" /\ run[w].pc \in Busy /\ UNCHANGED hostVars
        /\ Admits(breaker[p]) /\ breaker' = [breaker EXCEPT ![p] = Admitting(breaker[p])]
        /\ run' = [run EXCEPT ![w].pc = "host"]
    BY <1>2 DEF Allow, At, Busy
  <2>2. /\ run[w] \in Runs /\ p \in Plugins /\ BreakersTyped /\ run \in [Workers -> Runs]
    BY <2>1, BusyStep DEF Typed
  <2>3. BreakersTyped'
    <3>1. Wellformed(Admitting(breaker[p]))
      BY <2>1, <2>2, BreakersStayWellformed DEF BreakersTyped
    <3> QED
      BY <2>1, <2>2, <3>1, BreakerStep
  <2>4. [run[w] EXCEPT !.pc = "host", !.code = run[w].code] = [run[w] EXCEPT !.pc = "host"]
        /\ run[w].code \in Codes \cup {None}
    <3> DEFINE r == run[w]
    <3>1. r \in Runs
      BY <2>2
    <3> HIDE DEF r
    <3>2. [r EXCEPT !.pc = "host", !.code = r.code] = [r EXCEPT !.pc = "host"] /\ r.code \in Codes \cup {None}
      BY <3>1 DEF Runs
    <3> QED
      BY <3>2 DEF r
  <2>5. run' = [run EXCEPT ![w] = [run[w] EXCEPT !.pc = "host", !.code = run[w].code]]
    BY <2>1, <2>4
  <2>6. "host" \in Busy /\ "host" # "invoke"
    BY DEF Busy
  <2> QED
    BY <2>1, <2>3, <2>4, <2>5, <2>6, StageStep
<1>3. CASE FindHost(w)
  <2>1. /\ run[w].pc \in Busy /\ HasHost(p) /\ UNCHANGED <<hostVars, breaker>>
        /\ run' = [run EXCEPT ![w] = [run[w] EXCEPT !.pc = "invoke", !.code = CodeOf(p)]]
    BY <1>3 DEF FindHost, At, Busy, Inv, Typed
  <2>2. p \in Plugins /\ BreakersTyped /\ compiled[p] \in Codes \cup {None}
    BY <2>1, BusyStep DEF Typed, HostsTyped
  <2>3. run[w].settled => CodeOf(p) = declared[p]
    BY <2>1 DEF HasHost, CodeOf, Inv, Matched, HostsMatched
  <2>4. BreakersTyped' /\ "invoke" \in Busy
    BY <2>1, <2>2 DEF BreakersTyped, Busy
  <2> QED
    BY <2>1, <2>2, <2>3, <2>4, StageStep DEF CodeOf
<1>4. CASE Fails(w)
  <2> DEFINE denied == Closed(p) /\ Enforces(w, p)
             o == [plugin |-> p, did |-> "failed", enforced |-> denied,
                   decision |-> IF denied THEN "deny" ELSE "allow", patch |-> {}]
  <2>1. /\ run[w].pc \in Busy /\ UNCHANGED hostVars
        /\ breaker' = [breaker EXCEPT ![p] = Failed(breaker[p])]
        /\ run' = [run EXCEPT ![w] = IF denied THEN Decide(w, o) ELSE Continue(w, o)]
    BY <1>4 DEF Fails, At, Busy
  <2>2. /\ Typed /\ Sound(run[w]) /\ p \in Plugins /\ BreakersTyped
    BY <2>1, BusyStep
  <2>3. BreakersTyped'
    <3>1. Wellformed(Failed(breaker[p]))
      BY <2>2, BreakersStayWellformed DEF BreakersTyped
    <3> QED
      BY <2>1, <2>2, <3>1, BreakerStep
  <2>4. o \in Outcomes /\ o.plugin = p /\ o.patch = {} /\ o.enforced = denied
        /\ (denied => o.decision = "deny")
    BY <2>2 DEF Outcomes, Decisions, Closed, Enforces
  <2>5. o.plugin \in FailsClosed /\ ~denied => ~Enforces(w, o.plugin)
    BY <2>4 DEF Closed
  <2> HIDE DEF o, p
  <2>6. CASE denied
    <3>1. /\ Decide(w, o) \in Runs /\ Sound(Decide(w, o)) /\ ~Decide(w, o).settled
      BY <2>1, <2>2, <2>4, <2>6, DecideSound DEF p
    <3>2. Decide(w, o).pc # "invoke"
      BY <2>2 DEF Decide, Typed, Runs
    <3>3. run' = [run EXCEPT ![w] = Decide(w, o)]
      BY <2>1, <2>6
    <3> QED
      BY <2>1, <2>3, <3>1, <3>2, <3>3, ContinueStep
  <2>7. CASE ~denied
    <3>1. run' = [run EXCEPT ![w] = Continue(w, o)]
      BY <2>1, <2>7
    <3> HIDE DEF denied
    <3> QED
      BY <2>1, <2>3, <2>4, <2>5, <2>7, <3>1, TolerateStep DEF p
  <2> QED
    BY <2>6, <2>7
<1>5. CASE AnswersInvalidly(w)
  <2> DEFINE o == [Skipped(p) EXCEPT !.did = "errored"]
  <2>1. /\ run[w].pc \in Busy /\ UNCHANGED hostVars
        /\ breaker' = [breaker EXCEPT ![p] = Failed(breaker[p])]
        /\ run' = [run EXCEPT ![w] = Continue(w, o)]
    BY <1>5 DEF AnswersInvalidly, At, Busy
  <2>2. p \in Plugins /\ BreakersTyped
    BY <2>1, BusyStep
  <2>3. BreakersTyped'
    <3>1. Wellformed(Failed(breaker[p]))
      BY <2>2, BreakersStayWellformed DEF BreakersTyped
    <3> QED
      BY <2>1, <2>2, <3>1, BreakerStep
  <2>4. o \in Outcomes /\ o.plugin = p /\ ~o.enforced /\ o.did = "errored"
    BY <2>2 DEF Skipped, Outcomes, Decisions
  <2> HIDE DEF o
  <2> QED
    BY <2>1, <2>3, <2>4, TolerateStep
<1>6. CASE Returns(w)
  <2>1. /\ run[w].pc \in Busy /\ UNCHANGED hostVars
        /\ breaker' = [breaker EXCEPT ![p] = Succeeded(breaker[p])]
    BY <1>6 DEF Returns, At, Busy
  <2>2. PICK v \in Verdicts(p) : run' = [run EXCEPT ![w] = Combine(w, p, v.decision, v.patch)]
    BY <1>6 DEF Returns
  <2>3. /\ Typed /\ Sound(run[w]) /\ p \in Plugins /\ BreakersTyped
    BY <2>1, BusyStep
  <2>4. BreakersTyped'
    <3>1. Wellformed(Succeeded(breaker[p]))
      BY <2>3, BreakersStayWellformed DEF BreakersTyped
    <3> QED
      BY <2>1, <2>3, <3>1, BreakerStep
  <2>5. v.decision \in Decisions /\ v.patch \in SUBSET Fields
    BY DEF Verdicts, Decisions
  <2> DEFINE decision == v.decision
             patch == v.patch
             c == Combine(w, p, decision, patch)
  <2>6. decision \in Decisions /\ patch \in SUBSET Fields /\ run' = [run EXCEPT ![w] = c]
    BY <2>2, <2>5
  <2> HIDE DEF decision, patch
  <2>7. c \in Runs /\ Sound(c) /\ (c.settled => run[w].settled) /\ c.pc # "invoke"
    BY <2>1, <2>3, <2>6, CombineSound
  <2> HIDE DEF c
  <2> QED
    BY <2>1, <2>4, <2>6, <2>7, ContinueStep
<1>7. CASE OutOfTime(w)
  BY <1>7, OutOfTimeStep
<1>8. CASE Finish(w)
  <2>1. run' = [run EXCEPT ![w] = Idle] /\ UNCHANGED <<hostVars, breaker>>
    BY <1>8 DEF Finish
  <2>2. BreakersTyped' /\ Matched(Idle)
    BY <2>1, IdleSound DEF Inv, Typed, BreakersTyped, Matched
  <2> QED
    BY <2>1, <2>2, IdleSound, RunStep
<1> QED
  BY <1>1, <1>2, <1>3, <1>4, <1>5, <1>6, <1>7, <1>8 DEF Proceed

LEMMA NextInv == Inv /\ [Next]_vars => Inv'
<1> SUFFICES ASSUME Inv, [Next]_vars PROVE Inv'
  OBVIOUS
<1>1. ASSUME NEW w \in Workers, Proceed(w) \/ \E view \in served : Start(w, view) PROVE Inv'
  BY <1>1, StartStep, ProceedStep
<1>2. ASSUME NEW p \in Plugins, Cooldown(p) PROVE Inv'
  <2> DEFINE b == [breaker[p] EXCEPT !.cooled = TRUE]
  <2>1. breaker' = [breaker EXCEPT ![p] = b] /\ UNCHANGED <<hostVars, run>>
    BY <1>2 DEF Cooldown
  <2>2. Wellformed(b)
    BY BreakersStayWellformed DEF Inv, Typed, BreakersTyped
  <2> HIDE DEF b
  <2>3. BreakersTyped'
    BY <2>1, <2>2, BreakerStep DEF Inv, Typed
  <2>4. HostsTyped' /\ HostsMatched'
    BY <2>1 DEF Inv, Typed, hostVars, HostsTyped, HostsMatched
  <2>5. \A w \in Workers : Matched(run[w])' /\ Sound(run[w])'
    BY <2>1 DEF Inv, hostVars, Matched
  <2> QED
    BY <2>1, <2>3, <2>4, <2>5 DEF Inv, Typed
<1>3. CASE Swap \/ Follow
  BY <1>3, SwapStep, HostStep
<1>4. CASE UNCHANGED vars
  <2>1. HostsTyped' /\ HostsMatched' /\ BreakersTyped'
    BY <1>4 DEF vars, Inv, Typed, hostVars, HostsTyped, HostsMatched, BreakersTyped
  <2>2. \A w \in Workers : Matched(run[w])' /\ Sound(run[w])'
    BY <1>4 DEF vars, Inv, hostVars, Matched
  <2> QED
    BY <1>4, <2>1, <2>2 DEF vars, Inv, Typed
<1> QED
  BY <1>1, <1>2, <1>3, <1>4 DEF Next

LEMMA Invariance == Spec => []Inv
BY InitInv, NextInv, PTL DEF Spec

(* The state of hooks, breakers and hosts stays well typed, for any plugins,   *)
(* hooks, rollouts, policies and threshold (engine.go, breaker.go, hosts.go).  *)
THEOREM TypeCorrect == Spec => []TypeOK
<1>1. Inv => TypeOK
  BY DEF Inv, Typed, BreakersTyped, Wellformed, Runs, Pcs, TypeOK
<1> QED
  BY <1>1, Invariance, PTL

(* A hook that ended, however it ended, has one outcome for every plugin of   *)
(* its list, in order (verdict.go:141-144).                                   *)
THEOREM TracesAreComplete == Spec => []EveryPluginAccountedFor
<1>1. Inv => EveryPluginAccountedFor
  <2> SUFFICES ASSUME Inv, NEW w \in Workers, At(w, "done")
               PROVE  [i \in DOMAIN run[w].outcomes |-> run[w].outcomes[i].plugin] = run[w].plugins
    BY DEF EveryPluginAccountedFor
  <2> DEFINE s == run[w].outcomes
             t == run[w].plugins
  <2>1. s \in Traces /\ t \in Seq(Plugins)
    BY DEF Inv, Typed, Runs
  <2>2. Len(s) = Len(t) /\ \A i \in 1..Len(s) : s[i].plugin = t[i]
    BY DEF Inv, Sound, Accounted, At
  <2>3. DOMAIN s = 1..Len(s) /\ DOMAIN t = 1..Len(t) /\ t = [i \in 1..Len(t) |-> t[i]]
    BY <2>1 DEF Traces
  <2> HIDE DEF s, t
  <2>4. [i \in DOMAIN s |-> s[i].plugin] = t
    BY <2>2, <2>3
  <2> QED
    BY <2>4 DEF s, t
<1> QED
  BY <1>1, Invariance, PTL

(* What a hook decided is what its enforced outcomes say: the refusal or       *)
(* deferral that ended it, or else a mutation if one was applied; and nothing  *)
(* passes a fail-closed plugin that was invoked and failed (engine.go).        *)
THEOREM DecisionsFollowTraces == Spec => []ResultFollowsOutcomes
<1>1. Inv => ResultFollowsOutcomes
  <2> SUFFICES ASSUME Inv, NEW w \in Workers
               PROVE  LET enforced == Enforced(w)
                          at(i) == run[w].outcomes[i]
                          final == {i \in enforced : at(i).decision \in {"deny", "defer"}}
                      IN  /\ \A i \in final :
                               /\ run[w].decision = at(i).decision
                               /\ \A j \in DOMAIN run[w].outcomes : j > i => at(j).did = "skipped"
                          /\ final = {} =>
                               /\ run[w].decision = "mutate" <=> \E i \in enforced : at(i).decision = "mutate"
                               /\ run[w].decision \in {"allow", "mutate"}
                          /\ LetThrough(w) =>
                               \A i \in DOMAIN run[w].outcomes :
                                   at(i).did = "failed" /\ at(i).plugin \in FailsClosed =>
                                       ~Enforces(w, at(i).plugin)
    BY DEF ResultFollowsOutcomes
  <2> DEFINE r == run[w]
             s == r.outcomes
  <2>1. s \in Traces /\ Told(r)
    BY DEF Inv, Typed, Runs, Sound
  <2>2. DOMAIN s = 1..Len(s) /\ Len(s) \in Nat
    BY <2>1 DEF Traces
  <2>3. Enforced(w) = {i \in 1..Len(s) : s[i].enforced}
    BY <2>2 DEF Enforced
  <2>4. \A p : Enforces(w, p) = Acts(r, p)
    BY DEF Enforces, Acts
  <2>5. CASE Goes(r)
    BY <2>2, <2>3, <2>4, <2>5 DEF Goes
  <2>6. CASE Stopped(r)
    <3>1. PICK i \in 1..Len(s) :
            /\ s[i].enforced /\ s[i].decision = r.decision
            /\ \A j \in 1..Len(s) :
                 /\ j > i => s[j].did = "skipped" /\ ~s[j].enforced
                 /\ j < i => (s[j].enforced => s[j].decision \notin {"deny", "defer"})
      BY <2>6 DEF Stopped
    <3>2. r.decision \in {"deny", "defer"}
      BY <2>6 DEF Stopped
    <3>3. ASSUME NEW j \in Enforced(w), s[j].decision \in {"deny", "defer"} PROVE j = i
      BY <2>2, <2>3, <3>1, <3>3
    <3>4. ~LetThrough(w)
      BY <3>2 DEF LetThrough
    <3> QED
      BY <2>2, <2>3, <3>1, <3>2, <3>3, <3>4
  <2> QED
    BY <2>1, <2>5, <2>6 DEF Told
<1> QED
  BY <1>1, Invariance, PTL

(* Whatever plugins answer, what a hook wrote was written last by a plugin that *)
(* is acted on, inside its declared writes (patch.go:21-26).                    *)
THEOREM PatchesStayInScope == Spec => []PayloadWithinScopes
<1>1. Inv => PayloadWithinScopes
  <2> SUFFICES ASSUME Inv, NEW w \in Workers, NEW f \in Fields, run[w].payload[f] # None
               PROVE  LET p == run[w].payload[f]
                          writers == {i \in Enforced(w) : f \in run[w].outcomes[i].patch}
                      IN  /\ f \in Writes[p] /\ Enforces(w, p)
                          /\ \E i \in writers :
                               run[w].outcomes[i].plugin = p /\ \A j \in writers : j <= i
    BY DEF PayloadWithinScopes
  <2> DEFINE r == run[w]
             s == r.outcomes
  <2>1. s \in Traces /\ Written(r)
    BY DEF Inv, Typed, Runs, Sound
  <2>2. DOMAIN s = 1..Len(s)
    BY <2>1 DEF Traces
  <2>3. Enforced(w) = {i \in 1..Len(s) : s[i].enforced}
    BY <2>2 DEF Enforced
  <2>4. \A p : Enforces(w, p) = Acts(r, p)
    BY DEF Enforces, Acts
  <2> QED
    BY <2>1, <2>3, <2>4 DEF Written, LastWriter
<1> QED
  BY <1>1, Invariance, PTL

(* However swaps, loads, failed loads and hooks interleave, and whichever view a *)
(* hook has its list from: once the serving snapshot's plugins are loaded, and   *)
(* while no other is swapped in, the code that runs is the code it declares      *)
(* (wasm.go:195, hosts.go:88).                                                   *)
THEOREM CodeIsDeclared == Spec => []RunsWhatIsDeclared
<1>1. Inv => RunsWhatIsDeclared
  BY DEF Inv, Matched, RunsWhatIsDeclared, At, Current
<1> QED
  BY <1>1, Invariance, PTL
=============================================================================
