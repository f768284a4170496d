------------------------- MODULE ControlPlaneProofs -------------------------
(***************************************************************************)
(* The safety of what the control plane runs in the background and what it *)
(* builds.                                                                 *)
(*                                                                         *)
(* Schedule, for any replicas, jobs, seeds and cadences: Kept relates the  *)
(* rows to what operators decided and the turns to the rows; TheRowWins    *)
(* and TurnsAreKept follow from it, and that the replicas together         *)
(* implement Turns. InEffect is what lasts of a cadence.                   *)
(*                                                                         *)
(* Catalog, for any documents that decode, any tenants and any releases of *)
(* the backends: what a gateway serves is what some build admitted         *)
(* (CatalogServing), and whatever order it is sorted into is the one order *)
(* of its ranks, so catalogs that follow one another keep to it. What a    *)
(* recursive operator of the libraries computes is shown by the least      *)
(* length at which it would not (Least).                                   *)
(***************************************************************************)
EXTENDS Schedule, Catalog, SequenceTheorems, FiniteSetTheorems, WellFoundedInduction, TLAPS


Rows == [present : BOOLEAN, enabled : BOOLEAN, spec : Cadence, error : {"none", "failed"}]

Stages == {"down", "register", "wait", "read", "claim", "run", "record"}

Claimed == {"claim", "run", "record"}

(* A row that is not there is as the operators found it, and its turn is due.  *)
(* The turn the last claim took is what next_run_at says: re-arming a row      *)
(* gives the turn back.                                                        *)
Kept ==
    /\ TheRowWins
    /\ \A j \in Job : ~row[j].present => wanted[j] = [enabled |-> TRUE, spec |-> Seed[j]]
    /\ \A j \in Job : ~row[j].present => due[j] = 0
    /\ turn = due

-----------------------------------------------------------------------------
(* Types *)

RowsTyped ==
    /\ row \in [Job -> Rows]
    /\ \A j \in Job : row[j].present => Parses(row[j].spec) \/ row[j].spec = Seed[j]

ReplicasTyped ==
    /\ stage \in [Replicas -> Stages]
    /\ job \in [Replicas -> Job] /\ every \in [Replicas -> Cadence]
    /\ ticked \in [Replicas -> BOOLEAN]
    /\ result \in [Replicas -> {"none", "failed"}]
    /\ \A r \in Replicas : stage[r] \in Claimed => Parses(every[r])

TimesTyped ==
    /\ due \in [Job -> Nat] /\ turn \in [Job -> Nat]
    /\ errors \in 0..MaxErrors
    /\ wanted \in [Job -> [enabled : BOOLEAN, spec : Cadence]]

Typed == RowsTyped /\ ReplicasTyped /\ TimesTyped

LEMMA TypedIsTypeOK == Typed => TypeOK
BY DEF Typed, RowsTyped, ReplicasTyped, TimesTyped, TypeOK, Rows, Stages, Claimed

LEMMA JobsFinite == Len(Jobs) \in Nat \ {0} /\ Job = 1..Len(Jobs) /\ Cadence \subseteq Nat
<1>1. Len(Jobs) \in Nat /\ DOMAIN Jobs = 1..Len(Jobs)
  BY JobsAssumption
<1>2. \A j \in Job : Seed[j] \in Nat
  BY CadenceAssumption
<1>3. Cadence \subseteq Nat
  <2>1. Specs \subseteq Nat /\ 0 \in Nat
    BY CadenceAssumption
  <2>2. ASSUME NEW n \in Cadence, n # 0, n \notin Specs PROVE n \in Nat
    <3>1. PICK j \in Job : n = Seed[j]
      BY <2>2 DEF Cadence
    <3> QED
      BY <1>2, <3>1
  <2> QED
    BY <2>1, <2>2
<1>4. Len(Jobs) # 0
  BY <1>1, JobsAssumption
<1>5. Job = DOMAIN Jobs
  BY DEF Job
<1> QED
  BY <1>1, <1>3, <1>4, <1>5

LEMMA SeedsAreCadences == \A j \in Job : Seed[j] \in Cadence
BY CadenceAssumption DEF Cadence

LEMMA InitTyped == Init => Typed
<1> SUFFICES ASSUME Init PROVE Typed
  OBVIOUS
<1>1. 0 \in Cadence /\ 1 \in Job /\ errors \in 0..MaxErrors
  BY JobsFinite, MaxErrorsAssumption DEF Init, Cadence
<1>2. RowsTyped
  BY <1>1 DEF Init, RowsTyped, NoRow, Rows
<1>3. ReplicasTyped
  BY <1>1 DEF Init, ReplicasTyped, Stages, Claimed
<1>4. TimesTyped
  BY <1>1, SeedsAreCadences DEF Init, TimesTyped
<1> QED
  BY <1>2, <1>3, <1>4 DEF Typed

LEMMA NextJobTyped ==
    ASSUME Typed, NEW r \in Replicas, NEW loop \in {"register", "read"}, NextJob(r, loop),
           ticked' \in [Replicas -> BOOLEAN]
    PROVE  ReplicasTyped'
<1>1. job' \in [Replicas -> Job]
  BY JobsFinite DEF NextJob, Typed, ReplicasTyped
<1>2. 0 \in Cadence
  BY DEF Cadence
<1> QED
  BY <1>1, <1>2 DEF NextJob, Goes, Typed, ReplicasTyped, Stages, Claimed

LEMMA RefusedTyped == Typed /\ Refused => errors' \in 0..MaxErrors
BY MaxErrorsAssumption DEF Typed, TimesTyped, Refused

LEMMA StepTyped ==
    ASSUME Typed, NEW r \in Replicas, Boot(r) \/ Step(r) \/ Stop(r)
    PROVE  Typed'
<1>1. job[r] \in Job /\ errors \in 0..MaxErrors /\ 0 \in Cadence /\ 1 \in Job /\ ticked \in [Replicas -> BOOLEAN]
  BY JobsFinite DEF Typed, ReplicasTyped, TimesTyped, Cadence
<1>2. CASE Boot(r)
  BY <1>2 DEF Boot, Goes, Typed, RowsTyped, ReplicasTyped, TimesTyped, Stages, Claimed
<1>3. CASE Register(r)
  <2>1. ReplicasTyped'
    BY <1>1, <1>3, NextJobTyped DEF Register
  <2>2. Registered(job[r]) \in Rows /\ (Registered(job[r]).present =>
            Parses(Registered(job[r]).spec) \/ Registered(job[r]).spec = Seed[job[r]])
    BY <1>1, SeedsAreCadences DEF Registered, Rows, Typed, RowsTyped
  <2>3. RowsTyped'
    BY <1>1, <1>3, <2>2 DEF Register, Typed, RowsTyped
  <2>4. TimesTyped'
    BY <1>1, <1>3, RefusedTyped DEF Register, Typed, TimesTyped
  <2> QED
    BY <2>1, <2>3, <2>4 DEF Typed
<1>4. CASE Dispatch(r)
  BY <1>4 DEF Dispatch, Goes, Typed, RowsTyped, ReplicasTyped, TimesTyped, Stages, Claimed
<1>5. CASE ReadCadence(r)
  <2>1. RowsTyped' /\ TimesTyped'
    BY <1>5, RefusedTyped DEF ReadCadence, Typed, RowsTyped, TimesTyped
  <2>2. CASE NextJob(r, "read")
    BY <1>1, <1>5, <2>1, <2>2, NextJobTyped DEF ReadCadence, Typed
  <2>3. CASE ~NextJob(r, "read")
    <3>1. RowCadence(job[r]) \in Cadence /\ Parses(RowCadence(job[r]))
      BY <1>1, <1>5, <2>3 DEF ReadCadence, RowCadence, Typed, RowsTyped, Rows
    <3> QED
      BY <1>5, <2>1, <2>3, <3>1 DEF ReadCadence, Goes, Typed, ReplicasTyped, Stages, Claimed
  <2> QED
    BY <2>2, <2>3
<1>6. CASE ClaimDue(r)
  <2>1. every[r] \in Nat
    BY JobsFinite DEF Typed, ReplicasTyped
  <2> QED
    BY <1>6, <2>1 DEF ClaimDue, Goes, Typed, RowsTyped, ReplicasTyped, TimesTyped, Stages, Claimed
<1>7. CASE NotClaimed(r)
  BY <1>1, <1>7, NextJobTyped, RefusedTyped DEF NotClaimed, Typed, RowsTyped, TimesTyped
<1>8. CASE Run(r)
  BY <1>8 DEF Run, Goes, Typed, RowsTyped, ReplicasTyped, TimesTyped, Stages, Claimed
<1>9. CASE RecordOutcome(r)
  <2>1. RowsTyped'
    BY <1>1, <1>9 DEF RecordOutcome, Typed, RowsTyped, ReplicasTyped, Rows
  <2> QED
    BY <1>1, <1>9, <2>1, NextJobTyped DEF RecordOutcome, Typed, TimesTyped
<1>10. CASE RecordFails(r)
  BY <1>1, <1>10, NextJobTyped, RefusedTyped DEF RecordFails, Typed, RowsTyped, TimesTyped
<1>11. CASE Stop(r)
  BY <1>1, <1>11 DEF Stop, Goes, Typed, RowsTyped, ReplicasTyped, TimesTyped, Stages, Claimed
<1> QED
  BY <1>2, <1>3, <1>4, <1>5, <1>6, <1>7, <1>8, <1>9, <1>10, <1>11 DEF Step

LEMMA UpdateTyped ==
    ASSUME Typed, NEW j \in Job, NEW spec \in Specs \cup {Keep}, NEW enabled \in BOOLEAN \cup {Keep},
           UpdateSchedule(j, spec, enabled)
    PROVE  Typed'
<1>1. row[j] \in Rows /\ Or(spec, row[j].spec) \in Cadence /\ Or(enabled, row[j].enabled) \in BOOLEAN
  BY DEF Typed, RowsTyped, Rows, Or, Cadence
<1>2. Or(spec, wanted[j].spec) \in Cadence /\ Or(enabled, wanted[j].enabled) \in BOOLEAN
  BY DEF Typed, TimesTyped, Or, Cadence
<1>3. row' = [row EXCEPT ![j] = [row[j] EXCEPT !.spec = Or(spec, row[j].spec),
                                               !.enabled = Or(enabled, row[j].enabled)]]
  BY DEF UpdateSchedule, Typed, RowsTyped, Rows
<1>4. Parses(Or(spec, row[j].spec)) \/ Or(spec, row[j].spec) = Seed[j]
  BY DEF UpdateSchedule, Or, Typed, RowsTyped
<1>5. RowsTyped'
  BY <1>1, <1>3, <1>4 DEF Typed, RowsTyped, Rows
<1>6. TimesTyped'
  BY <1>2 DEF UpdateSchedule, Typed, TimesTyped
<1>7. ReplicasTyped'
  BY DEF UpdateSchedule, replica, Typed, ReplicasTyped
<1> QED
  BY <1>5, <1>6, <1>7 DEF Typed

LEMMA AroundTyped ==
    ASSUME Typed, Operate \/ Tick
    PROVE  Typed'
<1>1. ASSUME NEW j \in Job, RunScheduleNow(j) PROVE Typed'
  BY <1>1 DEF RunScheduleNow, replica, Typed, RowsTyped, ReplicasTyped, TimesTyped
<1>2. CASE Tick
  <2>1. \A n \in Nat : Less(n) \in Nat
    BY DEF Less
  <2>2. TimesTyped'
    BY <1>2, <2>1 DEF Tick, Typed, TimesTyped
  <2> QED
    BY <1>2, <2>2 DEF Tick, Typed, RowsTyped, ReplicasTyped
<1> QED
  BY <1>1, <1>2, UpdateTyped DEF Operate

LEMMA NextTyped == Typed /\ [Next]_vars => Typed'
<1> SUFFICES ASSUME Typed, [Next]_vars PROVE Typed'
  OBVIOUS
<1>1. CASE UNCHANGED vars
  BY <1>1 DEF vars, replica, Typed, RowsTyped, ReplicasTyped, TimesTyped
<1> QED
  BY <1>1, StepTyped, AroundTyped DEF Next

LEMMA AlwaysTyped == Spec => []Typed
BY InitTyped, NextTyped, PTL DEF Spec

(* Rows, turns and replicas keep their types; whoever claims or runs read a     *)
(* cadence that parses, and only a seed can be below the floor in a row         *)
(* (scheduler.go, schedules.sql).                                               *)
THEOREM TypeCorrect == Spec => []TypeOK
BY AlwaysTyped, TypedIsTypeOK, PTL

-----------------------------------------------------------------------------
(* What operators decided *)

LEMMA InitKept == Init => Kept
BY DEF Init, Kept, TheRowWins, NoRow

(* A replica changes a row only by putting it there or by recording an outcome, *)
(* and the turn of a row only by claiming it.                                   *)
LEMMA StepKept ==
    ASSUME Typed, Kept, NEW r \in Replicas, Boot(r) \/ Step(r) \/ Stop(r)
    PROVE  Kept'
<1>1. row \in [Job -> Rows] /\ job[r] \in Job /\ due \in [Job -> Nat] /\ UNCHANGED wanted
  BY DEF Typed, RowsTyped, ReplicasTyped, TimesTyped, Boot, Step, Stop, Register, Dispatch,
         ReadCadence, ClaimDue, NotClaimed, Run, RecordOutcome, RecordFails
<1>2. CASE Register(r)
  <2> DEFINE j == job[r]
  <2>1. CASE row' = row /\ due' = due
    BY <1>1, <1>2, <2>1 DEF Register, Kept, TheRowWins
  <2>2. CASE row' = [row EXCEPT ![j] = Registered(j)] /\
             due' = IF row[j].present THEN due ELSE [due EXCEPT ![j] = 0]
    <3>1. CASE row[j].present
      BY <1>1, <1>2, <2>2, <3>1 DEF Register, Registered, Kept, TheRowWins
    <3>2. CASE ~row[j].present
      <4>1. due' = due /\ turn' = turn
        BY <1>1, <1>2, <2>2, <3>2 DEF Register, Kept
      <4>2. /\ row'[j] = [present |-> TRUE, enabled |-> TRUE, spec |-> Seed[j], error |-> "none"]
            /\ \A k \in Job \ {j} : row'[k] = row[k]
        BY <1>1, <2>2, <3>2 DEF Registered
      <4>3. wanted'[j] = [enabled |-> TRUE, spec |-> Seed[j]]
        BY <1>1, <3>2 DEF Kept
      <4>4. row'[j].spec = wanted'[j].spec /\ row'[j].enabled = wanted'[j].enabled
        BY <4>2, <4>3
      <4>5. \A k \in Job \ {j} : row'[k] = row[k] /\ wanted'[k] = wanted[k]
        BY <1>1, <4>2
      <4>6. turn' = due' /\ \A k \in Job \ {j} : ~row'[k].present => due'[k] = 0
        BY <4>1, <4>2 DEF Kept
      <4>7. TheRowWins'
        BY <4>4, <4>5 DEF Kept, TheRowWins
      <4>8. \A k \in Job : ~row'[k].present =>
               wanted'[k] = [enabled |-> TRUE, spec |-> Seed[k]] /\ due'[k] = 0
        BY <4>2, <4>5, <4>6 DEF Kept
      <4> QED
        BY <4>6, <4>7, <4>8 DEF Kept
    <3> QED
      BY <3>1, <3>2
  <2> QED
    BY <1>2, <2>1, <2>2 DEF Register
<1>3. CASE ClaimDue(r)
  <2>1. row[job[r]].present /\ turn' = due' /\ UNCHANGED row
    BY <1>1, <1>3 DEF ClaimDue, Claimable, Kept
  <2>2. \A k \in Job \ {job[r]} : due'[k] = due[k]
    BY <1>1, <1>3 DEF ClaimDue
  <2> QED
    BY <1>1, <2>1, <2>2 DEF Kept, TheRowWins
<1>4. CASE RecordOutcome(r)
  <2>1. \A k \in Job : /\ row'[k].present = row[k].present /\ row'[k].spec = row[k].spec
                       /\ row'[k].enabled = row[k].enabled
    BY <1>1, <1>4 DEF RecordOutcome, Rows
  <2> QED
    BY <1>1, <1>4, <2>1 DEF RecordOutcome, Kept, TheRowWins
<1>5. CASE UNCHANGED <<row, due, turn>>
  BY <1>1, <1>5 DEF Kept, TheRowWins
<1> QED
  BY <1>2, <1>3, <1>4, <1>5 DEF Boot, Step, Stop, Dispatch, ReadCadence, NotClaimed, Run, RecordFails

LEMMA AroundKept ==
    ASSUME Typed, Kept, Operate \/ Tick
    PROVE  Kept'
<1>1. row \in [Job -> Rows] /\ due \in [Job -> Nat]
      /\ wanted \in [Job -> [enabled : BOOLEAN, spec : Cadence]]
  BY DEF Typed, RowsTyped, TimesTyped
<1>2. ASSUME NEW j \in Job, NEW spec, NEW enabled, UpdateSchedule(j, spec, enabled) PROVE Kept'
  <2>1. /\ row'[j].present = row[j].present /\ row[j].present
        /\ row'[j].spec = Or(spec, row[j].spec) /\ wanted'[j].spec = Or(spec, wanted[j].spec)
        /\ row'[j].enabled = Or(enabled, row[j].enabled)
        /\ wanted'[j].enabled = Or(enabled, wanted[j].enabled)
    BY <1>1, <1>2 DEF UpdateSchedule, Rows
  <2>2. \A k \in Job \ {j} : row'[k] = row[k] /\ wanted'[k] = wanted[k] /\ due'[k] = due[k]
    BY <1>1, <1>2 DEF UpdateSchedule
  <2>3. turn' = due'
    BY <1>2 DEF UpdateSchedule, Kept
  <2>4. row'[j].spec = wanted'[j].spec /\ row'[j].enabled = wanted'[j].enabled
    BY <2>1 DEF Kept, TheRowWins
  <2> QED
    BY <2>1, <2>2, <2>3, <2>4 DEF Kept, TheRowWins
<1>3. ASSUME NEW j \in Job, RunScheduleNow(j) PROVE Kept'
  BY <1>1, <1>3 DEF RunScheduleNow, Kept, TheRowWins
<1>4. CASE Tick
  BY <1>1, <1>4 DEF Tick, Less, Kept, TheRowWins
<1> QED
  BY <1>2, <1>3, <1>4 DEF Operate

LEMMA NextKept == Typed /\ Kept /\ [Next]_vars => Kept'
<1> SUFFICES ASSUME Typed, Kept, [Next]_vars PROVE Kept'
  OBVIOUS
<1>1. CASE UNCHANGED vars
  BY <1>1 DEF vars, Kept, TheRowWins
<1> QED
  BY <1>1, StepKept, AroundKept DEF Next

LEMMA AlwaysKept == Spec => [](Typed /\ Kept)
BY InitTyped, NextTyped, InitKept, NextKept, PTL DEF Spec

(* A row is as operators last left it, or as it was seeded: no replica that     *)
(* boots, reads, claims or records undoes a change, whatever it read before it  *)
(* (ADR 0026).                                                                  *)
THEOREM OperatorsHaveTheLastWord == Spec => []TheRowWins
<1>1. Kept => TheRowWins
  BY DEF Kept
<1> QED
  BY <1>1, AlwaysKept, PTL

-----------------------------------------------------------------------------
(* Turns *)

LEMMA OnlyClaimsRun ==
    ASSUME Typed, Kept, [Next]_vars, NEW r \in Replicas, stage[r] # "run", stage'[r] = "run"
    PROVE  wanted[job[r]].enabled /\ turn[job[r]] = 0
<1>1. stage \in [Replicas -> Stages] /\ job[r] \in Job
  BY DEF Typed, ReplicasTyped
<1>2. CASE ClaimDue(r)
  BY <1>1, <1>2 DEF ClaimDue, Claimable, Kept, TheRowWins
<1>3. ASSUME NEW q \in Replicas, ClaimDue(q), q # r PROVE FALSE
  BY <1>1, <1>3 DEF ClaimDue, Goes
<1>4. ASSUME NEW q \in Replicas, Boot(q) \/ Stop(q) \/ Dispatch(q) \/ Run(q) PROVE FALSE
  BY <1>1, <1>4 DEF Boot, Stop, Dispatch, Run, Goes
<1>5. ASSUME NEW q \in Replicas, NEW loop \in {"register", "read"}, NextJob(q, loop) PROVE FALSE
  BY <1>1, <1>5 DEF NextJob, Goes
<1>6. ASSUME NEW q \in Replicas, ReadCadence(q), ~NextJob(q, "read") PROVE FALSE
  BY <1>1, <1>6 DEF ReadCadence, Goes
<1>7. CASE UNCHANGED stage
  BY <1>7
<1> QED
  BY <1>2, <1>3, <1>4, <1>5, <1>6, <1>7
     DEF Next, Step, Register, NotClaimed, RecordOutcome, RecordFails, Operate, UpdateSchedule,
         RunScheduleNow, replica, Tick, vars

(* A run begins only in its own turn and while the job is switched on, however  *)
(* many replicas read the row, and however stale what they read was: the        *)
(* claim's UPDATE decides (schedules.sql, ADR 0026).                            *)
THEOREM ClaimsKeepTheTurns == Spec => TurnsAreKept
<1>1. Typed /\ Kept /\ [Next]_vars
        => [\A r \in Replicas : stage[r] # "run" /\ stage'[r] = "run"
              => wanted[job[r]].enabled /\ turn[job[r]] = 0]_vars
  BY OnlyClaimsRun
<1> QED
  BY <1>1, AlwaysKept, PTL DEF Spec, TurnsAreKept

-----------------------------------------------------------------------------
(* The refinement *)

LEMMA UnchangedRows ==
    ASSUME \A j \in Job : row'[j].present = row[j].present /\ row'[j].enabled = row[j].enabled
    PROVE  UNCHANGED On
BY DEF On

(* A replica that is in a run leaves it, or keeps its job. *)
LEMMA RunningMoves ==
    ASSUME Typed, NEW r \in Replicas, UNCHANGED <<On, due>>,
           \A q \in Replicas \ {r} : stage'[q] = stage[q] /\ job'[q] = job[q],
           \/ stage'[r] \notin {"run", "record"}
           \/ r \in Busy /\ stage'[r] \in {"run", "record"} /\ job'[r] = job[r]
    PROVE  One!Next \/ UNCHANGED One!turns
<1>1. job[r] \in Job
  BY DEF Typed, ReplicasTyped
<1>2. CASE r \in Busy /\ stage'[r] \in {"run", "record"} /\ job'[r] = job[r]
  BY <1>2 DEF Running, Busy, One!turns
<1>3. CASE stage'[r] \notin {"run", "record"}
  <2>1. Running' = Running \ {<<r, job[r]>>}
    BY <1>3 DEF Running, Busy
  <2>2. One!Finish(r, job[r])
    BY <2>1 DEF One!Finish
  <2> QED
    BY <1>1, <2>2 DEF One!Next
<1> QED
  BY <1>2, <1>3

LEMMA ArmRefines ==
    ASSUME Typed, NEW j \in Job, due' = [due EXCEPT ![j] = 0], UNCHANGED Running,
           row'[j].present \in BOOLEAN, row'[j].enabled \in BOOLEAN,
           \A i \in Job \ {j} : row'[i] = row[i]
    PROVE  One!Next
<1>1. One!Arm(j)
  BY DEF One!Arm, On
<1> QED
  BY <1>1 DEF One!Next

LEMMA ClaimRefines ==
    ASSUME Typed, NEW r \in Replicas, ClaimDue(r)
    PROVE  One!Next
<1>1. /\ stage \in [Replicas -> Stages] /\ job[r] \in Job /\ due \in [Job -> Nat]
      /\ every[r] \in Nat \ {0}
  <2>1. every[r] \in Nat /\ Parses(every[r])
    BY JobsFinite DEF Typed, ReplicasTyped, ClaimDue, Claimed
  <2> QED
    BY <2>1 DEF Typed, ReplicasTyped, TimesTyped, Parses, MinInterval
<1>2. UNCHANGED On /\ On[job[r]] /\ due[job[r]] = 0
  BY <1>1, UnchangedRows DEF ClaimDue, Claimable, On
<1>3. due'[job[r]] \in Nat \ {0} /\ due' = [due EXCEPT ![job[r]] = due'[job[r]]]
  BY <1>1 DEF ClaimDue
<1>4. r \notin Busy /\ Busy' = Busy \cup {r} /\ UNCHANGED job
  BY <1>1 DEF ClaimDue, Goes, Busy
<1>5. Running' = Running \cup {<<r, job[r]>>} /\ ~One!Busy(r)
  BY <1>4 DEF Running, One!Busy, Busy
<1>6. One!Take(r, job[r])
  BY <1>2, <1>3, <1>5 DEF One!Take
<1> QED
  BY <1>1, <1>6 DEF One!Next

LEMMA StepRefines ==
    ASSUME Typed, Kept, NEW r \in Replicas, Boot(r) \/ Step(r) \/ Stop(r)
    PROVE  One!Next \/ UNCHANGED One!turns
<1>1. /\ row \in [Job -> Rows] /\ due \in [Job -> Nat] /\ job[r] \in Job
      /\ stage \in [Replicas -> Stages] /\ job \in [Replicas -> Job]
  BY DEF Typed, RowsTyped, ReplicasTyped, TimesTyped
<1>2. CASE ClaimDue(r)
  BY <1>2, ClaimRefines
<1>3. CASE Register(r)
  <2>1. stage[r] = "register" /\ NextJob(r, "register")
    BY <1>3 DEF Register
  <2>2. r \notin Busy /\ stage'[r] \notin {"run", "record"}
        /\ \A q \in Replicas \ {r} : stage'[q] = stage[q] /\ job'[q] = job[q]
    BY <1>1, <2>1 DEF NextJob, Goes, Busy
  <2>3. CASE UNCHANGED <<row, due>>
    BY <2>2, <2>3, UnchangedRows, RunningMoves
  <2>4. CASE row' = [row EXCEPT ![job[r]] = Registered(job[r])] /\ row[job[r]].present /\ UNCHANGED due
    BY <1>1, <2>2, <2>4, UnchangedRows, RunningMoves DEF Registered
  <2>5. CASE /\ row' = [row EXCEPT ![job[r]] = Registered(job[r])] /\ ~row[job[r]].present
             /\ due' = [due EXCEPT ![job[r]] = 0]
    <3>1. UNCHANGED Running
      BY <2>2 DEF Running, Busy
    <3> QED
      BY <1>1, <2>5, <3>1, ArmRefines DEF Registered
  <2> QED
    BY <1>3, <2>3, <2>4, <2>5 DEF Register
<1>4. CASE Run(r)
  <2>1. stage[r] = "run" /\ UNCHANGED <<row, due, job>> /\ stage' = [stage EXCEPT ![r] = "record"]
    BY <1>4 DEF Run, Goes
  <2> QED
    BY <1>1, <2>1, UnchangedRows, RunningMoves DEF Busy
<1>5. CASE Boot(r) \/ Dispatch(r) \/ ReadCadence(r) \/ NotClaimed(r) \/ RecordFails(r) \/ Stop(r)
  <2>1. UNCHANGED <<row, due>>
    BY <1>5 DEF Boot, Dispatch, ReadCadence, NotClaimed, RecordFails, Stop
  <2>2. /\ stage'[r] \notin {"run", "record"}
        /\ \A q \in Replicas \ {r} : stage'[q] = stage[q] /\ job'[q] = job[q]
    BY <1>1, <1>5 DEF Boot, Dispatch, ReadCadence, NotClaimed, RecordFails, Stop, NextJob, Goes
  <2> QED
    BY <2>1, <2>2, UnchangedRows, RunningMoves
<1>6. CASE RecordOutcome(r)
  <2>1. row' = [row EXCEPT ![job[r]].error = result[r]] /\ UNCHANGED due /\ NextJob(r, "read")
    BY <1>6 DEF RecordOutcome
  <2>2. UNCHANGED On
    BY <1>1, <2>1, UnchangedRows DEF Rows
  <2>3. /\ stage'[r] \notin {"run", "record"}
        /\ \A q \in Replicas \ {r} : stage'[q] = stage[q] /\ job'[q] = job[q]
    BY <1>1, <2>1 DEF NextJob, Goes
  <2> QED
    BY <2>1, <2>2, <2>3, RunningMoves
<1> QED
  BY <1>2, <1>3, <1>4, <1>5, <1>6 DEF Step

LEMMA AroundRefines ==
    ASSUME Typed, Operate \/ Tick
    PROVE  One!Next \/ UNCHANGED One!turns
<1>1. row \in [Job -> Rows] /\ due \in [Job -> Nat]
  BY DEF Typed, RowsTyped, TimesTyped
<1>2. UNCHANGED Running
  <2>1. UNCHANGED <<stage, job>>
    BY DEF Operate, UpdateSchedule, RunScheduleNow, Tick, replica
  <2> QED
    BY <2>1 DEF Running, Busy
<1>3. ASSUME NEW j \in Job, NEW spec \in Specs \cup {Keep}, NEW enabled \in BOOLEAN \cup {Keep},
             UpdateSchedule(j, spec, enabled)
      PROVE  One!Next
  <2>1. row'[j].present \in BOOLEAN /\ row'[j].enabled \in BOOLEAN
        /\ \A i \in Job \ {j} : row'[i] = row[i]
    BY <1>1, <1>3 DEF UpdateSchedule, Or, Rows
  <2> QED
    BY <1>2, <1>3, <2>1, ArmRefines DEF UpdateSchedule
<1>4. ASSUME NEW j \in Job, RunScheduleNow(j) PROVE One!Next
  BY <1>1, <1>2, <1>4, ArmRefines DEF RunScheduleNow, Rows
<1>5. CASE Tick
  <2>1. One!Pass
    BY <1>1, <1>2, <1>5 DEF Tick, Less, One!Pass, On
  <2> QED
    BY <2>1 DEF One!Next
<1> QED
  BY <1>3, <1>4, <1>5 DEF Operate

(* However many replicas read a cadence, race for the row and die with a claim  *)
(* or in a run, the rows make one scheduler of them: each step is a step of     *)
(* Turns, where a turn is taken at once, or changes nothing there (ADR 0026).   *)
THEOREM ReplicasActAsOne == Spec => ReplicasTakeTurns
<1>1. Init => One!Init
  <2> SUFFICES ASSUME Init PROVE One!Init
    OBVIOUS
  <2>1. On = [j \in Job |-> FALSE]
    BY DEF Init, NoRow, On
  <2>2. Running = {}
    BY DEF Init, Running, Busy
  <2> QED
    BY <2>1, <2>2 DEF Init, One!Init
<1>2. Typed /\ Kept /\ [Next]_vars => [One!Next]_(One!turns)
  <2>1. CASE UNCHANGED vars
    BY <2>1 DEF vars, replica, On, Busy, Running, One!turns
  <2> QED
    BY <2>1, StepRefines, AroundRefines DEF Next
<1> QED
  BY <1>1, <1>2, AlwaysKept, PTL DEF Spec, ReplicasTakeTurns, One!Spec

-----------------------------------------------------------------------------
(* Cadences *)

(* The row says a cadence, the turn that is under way was taken with it or less, *)
(* and nobody is about to claim the row with more.                               *)
InEffect(j, spec) ==
    /\ row[j].present /\ row[j].spec = spec
    /\ due[j] <= spec
    /\ \A r \in Replicas : stage[r] = "claim" /\ job[r] = j => every[r] <= spec

(* A replica comes to the claim only from the read of the cadence. *)
LEMMA StepStaysInEffect ==
    ASSUME Typed, NEW r \in Replicas, Boot(r) \/ Step(r) \/ Stop(r),
           NEW j \in Job, NEW spec \in Cadence, InEffect(j, spec)
    PROVE  InEffect(j, spec)'
<1>1. /\ row \in [Job -> Rows] /\ job[r] \in Job /\ due \in [Job -> Nat] /\ spec \in Nat
      /\ stage \in [Replicas -> Stages] /\ job \in [Replicas -> Job]
      /\ every \in [Replicas -> Cadence] /\ every[r] \in Nat
  BY JobsFinite DEF Typed, RowsTyped, ReplicasTyped, TimesTyped
<1>2. \A x \in Replicas \ {r} : stage'[x] = stage[x] /\ job'[x] = job[x] /\ every'[x] = every[x]
  BY <1>1 DEF Boot, Step, Stop, Register, Dispatch, ReadCadence, ClaimDue, NotClaimed, Run,
              RecordOutcome, RecordFails, NextJob, Goes
<1>3. ASSUME row'[j].present, row'[j].spec = spec, due'[j] <= spec,
             stage'[r] # "claim" \/ job'[r] # j \/ every'[r] <= spec
      PROVE  InEffect(j, spec)'
  BY <1>2, <1>3 DEF InEffect
<1>4. /\ row[j].present /\ row[j].spec = spec /\ due[j] <= spec
      /\ stage[r] = "claim" /\ job[r] = j => every[r] <= spec
  BY DEF InEffect
<1>5. ASSUME NEW loop \in {"register", "read"}, NextJob(r, loop)
      PROVE  stage'[r] # "claim"
  BY <1>1, <1>5 DEF NextJob, Goes
<1>6. CASE Register(r)
  <2>1. row'[j] = row[j] /\ due'[j] = due[j]
    BY <1>1, <1>4, <1>6 DEF Register, Registered
  <2> QED
    BY <1>3, <1>4, <1>5, <1>6, <2>1 DEF Register
<1>7. CASE ReadCadence(r)
  <2>1. UNCHANGED <<row, due>>
    BY <1>7 DEF ReadCadence
  <2>2. CASE NextJob(r, "read")
    BY <1>3, <1>4, <1>5, <2>1, <2>2
  <2>3. CASE ~NextJob(r, "read")
    <3>1. job' = job /\ every'[r] = row[job[r]].spec
      BY <1>1, <1>7, <2>3 DEF ReadCadence, RowCadence
    <3>2. job'[r] # j \/ every'[r] <= spec
      BY <1>1, <1>4, <3>1
    <3> QED
      BY <1>3, <1>4, <2>1, <3>2
  <2> QED
    BY <2>2, <2>3
<1>8. CASE ClaimDue(r)
  <2>1. due'[j] <= spec
    BY <1>1, <1>4, <1>8 DEF ClaimDue
  <2>2. row' = row /\ stage'[r] = "run"
    BY <1>1, <1>8 DEF ClaimDue, Goes
  <2> QED
    BY <1>3, <1>4, <2>1, <2>2
<1>9. CASE RecordOutcome(r)
  <2>1. row'[j].present = row[j].present /\ row'[j].spec = row[j].spec
    BY <1>1, <1>9 DEF RecordOutcome, Rows
  <2> QED
    BY <1>3, <1>4, <1>5, <1>9, <2>1 DEF RecordOutcome
<1>10. CASE NotClaimed(r) \/ RecordFails(r)
  BY <1>3, <1>4, <1>5, <1>10 DEF NotClaimed, RecordFails
<1>11. CASE Boot(r) \/ Dispatch(r) \/ Run(r) \/ Stop(r)
  <2>1. UNCHANGED <<row, due>> /\ stage'[r] # "claim"
    BY <1>1, <1>11 DEF Boot, Dispatch, Run, Stop, Goes
  <2> QED
    BY <1>3, <1>4, <2>1
<1> QED
  BY <1>6, <1>7, <1>8, <1>9, <1>10, <1>11 DEF Step

LEMMA StaysInEffect ==
    ASSUME Typed, [Next]_vars, NEW j \in Job, NEW spec \in Cadence, InEffect(j, spec),
           row'[j].spec = spec
    PROVE  InEffect(j, spec)'
<1>1. row \in [Job -> Rows] /\ due \in [Job -> Nat] /\ spec \in Nat
  BY JobsFinite DEF Typed, RowsTyped, TimesTyped
<1>2. ASSUME NEW k \in Job, NEW asked, NEW enabled, UpdateSchedule(k, asked, enabled)
      PROVE  InEffect(j, spec)'
  <2>1. row'[j].present /\ due'[j] <= spec
    BY <1>1, <1>2 DEF UpdateSchedule, InEffect, Rows
  <2> QED
    BY <1>2, <2>1 DEF UpdateSchedule, replica, InEffect
<1>3. ASSUME NEW k \in Job, RunScheduleNow(k)
      PROVE  InEffect(j, spec)'
  <2>1. due'[j] <= spec
    BY <1>1, <1>3 DEF RunScheduleNow, InEffect
  <2> QED
    BY <1>3, <2>1 DEF RunScheduleNow, replica, InEffect
<1>4. CASE Tick
  <2>1. due'[j] <= spec
    BY <1>1, <1>4 DEF Tick, Less, InEffect
  <2> QED
    BY <1>4, <2>1 DEF Tick, InEffect
<1>5. CASE UNCHANGED vars
  BY <1>5 DEF vars, replica, InEffect
<1> QED
  BY <1>2, <1>3, <1>4, <1>5, StepStaysInEffect DEF Next, Operate

(* A retuned cadence keeps its effect: once no claim with a longer one is left, *)
(* none is made until an operator asks for another, whatever replicas boot,     *)
(* register, read and claim meanwhile: the safety half of CadenceTakesEffect.   *)
THEOREM CadencesLast ==
    Spec => [][\A j \in Job, spec \in Cadence :
                 InEffect(j, spec) /\ row'[j].spec = spec => InEffect(j, spec)']_vars
<1>1. Typed /\ [Next]_vars =>
        [\A j \in Job, spec \in Cadence :
           InEffect(j, spec) /\ row'[j].spec = spec => InEffect(j, spec)']_vars
  BY StaysInEffect
<1> QED
  BY <1>1, AlwaysTyped, PTL DEF Spec

-----------------------------------------------------------------------------
(* Sequences, sets and sorting *)

(* Every set of numbers has a least member: what stands for induction here.   *)
LEMMA Least ==
    ASSUME NEW T \in SUBSET Nat, T # {}
    PROVE  \E m \in T : \A k \in T : m <= k
<1> DEFINE R == OpToRel(<, Nat)
<1>1. IsWellFoundedOn(R, Nat)
  BY NatLessThanWellFounded, Zenon
<1>2. PICK m \in T : \A k \in T : <<k, m>> \notin R
  <2> HIDE DEF R
  <2> QED BY <1>1, WFMin, Zenon
<1>3. \A k \in T : ~(k < m)
  BY <1>2 DEF OpToRel
<1> QED
  BY <1>3

(* The function that FlattenSeq is defined by exists.                         *)
LEMMA FlattenDefined ==
    ASSUME NEW seqs, Len(seqs) \in Nat \ {0}
    PROVE  \E f : /\ f = [i \in 1..Len(seqs) |-> IF i = 1 THEN seqs[i] ELSE f[i - 1] \o seqs[i]]
                  /\ FlattenSeq(seqs) = f[Len(seqs)]
<1> DEFINE Flattens(f, n) == f = [i \in 1..n |-> IF i = 1 THEN seqs[i] ELSE f[i - 1] \o seqs[i]]
           Without == {n \in Nat \ {0} : ~ \E f : Flattens(f, n)}
           N == Len(seqs)
<1>1. ASSUME Without # {} PROVE FALSE
  <2>1. PICK n \in Without : \A m \in Without : n <= m
    BY <1>1, Least
  <2>a. n \in Nat \ {0} /\ ~ \E f : Flattens(f, n)
    BY <2>1
  <2>b. ASSUME NEW m \in Nat \ {0}, m < n PROVE \E f : Flattens(f, m)
    <3> HIDE DEF Flattens
    <3>1. m \notin Without
      <4> HIDE DEF Without
      <4> QED BY <2>1, <2>a, <2>b
    <3> QED
      BY <3>1
  <2>2. CASE n = 1
    <3> DEFINE f == [i \in 1..1 |-> seqs[1]]
    <3>1. Flattens(f, 1)
      OBVIOUS
    <3> QED
      BY <2>a, <2>2, <3>1
  <2>3. CASE n # 1
    <3>1. n - 1 \in Nat \ {0} /\ n - 1 < n
      BY <2>a, <2>3
    <3>2. PICK f : Flattens(f, n - 1)
      <4> HIDE DEF Flattens
      <4> QED BY <3>1, <2>b
    <3> DEFINE g == [i \in 1..n |-> IF i = n THEN f[n - 1] \o seqs[n] ELSE f[i]]
    <3>3. \A i \in 1..n : g[i] = IF i = 1 THEN seqs[i] ELSE g[i - 1] \o seqs[i]
      <4> SUFFICES ASSUME NEW i \in 1..n PROVE g[i] = IF i = 1 THEN seqs[i] ELSE g[i - 1] \o seqs[i]
        OBVIOUS
      <4>1. CASE i = n
        <5>1. g[n] = f[n - 1] \o seqs[n]
          <6>1. n \in 1..n
            BY <3>1
          <6> QED
            BY <6>1
        <5>2. g[n - 1] = f[n - 1]
          BY <3>1
        <5> QED
          BY <5>1, <5>2, <4>1, <2>3
      <4>2. CASE i # n
        <5>1. i \in 1..(n - 1) /\ g[i] = f[i]
          BY <4>2
        <5>2. f[i] = IF i = 1 THEN seqs[i] ELSE f[i - 1] \o seqs[i]
          BY <5>1, <3>2
        <5> QED
          BY <5>1, <5>2
      <4> QED
        BY <4>1, <4>2
    <3>4. Flattens(g, n)
      BY <3>3
    <3> QED
      BY <2>a, <3>4
  <2> QED
    BY <2>2, <2>3
<1>2. \E f : Flattens(f, N)
  BY <1>1
<1>3. Flattens(CHOOSE f : Flattens(f, N), N)
  <2> HIDE DEF Flattens
  <2> QED BY <1>2
<1>4. FlattenSeq(seqs) = (CHOOSE f : Flattens(f, N))[N]
  BY DEF FlattenSeq
<1> QED
  BY <1>3, <1>4

(* FlattenSeq concatenates: the same elements, by sequence and then as        *)
(* each has them.                                                             *)
LEMMA FlattenSeqProperties ==
    ASSUME NEW S, NEW seqs \in Seq(Seq(S))
    PROVE  /\ FlattenSeq(seqs) \in Seq(S)
           /\ \A e : e \in ToSet(FlattenSeq(seqs)) <=> \E i \in DOMAIN seqs : e \in ToSet(seqs[i])
           /\ \A p, q \in DOMAIN FlattenSeq(seqs) : p < q =>
                \E i, j \in DOMAIN seqs : \E a \in DOMAIN seqs[i], b \in DOMAIN seqs[j] :
                   /\ FlattenSeq(seqs)[p] = seqs[i][a] /\ FlattenSeq(seqs)[q] = seqs[j][b]
                   /\ i < j \/ (i = j /\ a < b)
<1> DEFINE Follow(flat, p, q, n) ==
             \E i, j \in 1..n : \E a \in DOMAIN seqs[i], b \in DOMAIN seqs[j] :
                /\ flat[p] = seqs[i][a] /\ flat[q] = seqs[j][b]
                /\ i < j \/ (i = j /\ a < b)
<1>1. CASE Len(seqs) = 0
  <2>1. seqs = <<>>
    BY <1>1
  <2>2. FlattenSeq(seqs) = <<>>
    BY <1>1, <2>1 DEF FlattenSeq
  <2>3. <<>> \in Seq(S) /\ DOMAIN seqs = {} /\ ToSet(<<>>) = {}
    BY <2>1 DEF ToSet
  <2> QED
    BY <2>2, <2>3
<1>2. CASE Len(seqs) # 0
  <2>0. Len(seqs) \in Nat \ {0}
    BY <1>2, LenProperties
  <2>1. PICK f : /\ f = [i \in 1..Len(seqs) |-> IF i = 1 THEN seqs[i] ELSE f[i - 1] \o seqs[i]]
                 /\ FlattenSeq(seqs) = f[Len(seqs)]
    BY <2>0, FlattenDefined
  <2>2. \A n \in 1..Len(seqs) : f[n] = IF n = 1 THEN seqs[n] ELSE f[n - 1] \o seqs[n]
    BY <2>1
  <2>3. \A n \in 1..Len(seqs) : seqs[n] \in Seq(S)
    BY ElementOfSeq
  <2> DEFINE Good(n) == /\ f[n] \in Seq(S)
                        /\ \A e : e \in ToSet(f[n]) <=> \E i \in 1..n : e \in ToSet(seqs[i])
                        /\ \A p, q \in DOMAIN f[n] : p < q => Follow(f[n], p, q, n)
             Bad == {n \in 1..Len(seqs) : ~ Good(n)}
  <2>4. Good(1)
    <3>1. f[1] = seqs[1] /\ 1 \in 1..Len(seqs)
      BY <2>0, <2>2
    <3>2. ASSUME NEW p \in DOMAIN f[1], NEW q \in DOMAIN f[1], p < q PROVE Follow(f[1], p, q, 1)
      <4>1. 1 \in 1..1
        OBVIOUS
      <4> QED
        BY <3>1, <3>2, <4>1
    <3>3. f[1] \in Seq(S) /\ \A e : e \in ToSet(f[1]) <=> \E i \in 1..1 : e \in ToSet(seqs[i])
      BY <3>1, <2>3
    <3> HIDE DEF Follow
    <3> QED
      BY <3>2, <3>3
  <2>5. ASSUME NEW n \in 2..Len(seqs), Good(n - 1) PROVE Good(n)
    <3>1. f[n] = f[n - 1] \o seqs[n] /\ n \in 1..Len(seqs)
      <4>1. n \in 1..Len(seqs) /\ n # 1
        BY <2>5, <2>0
      <4> QED
        BY <4>1, <2>2
    <3>2. f[n] \in Seq(S) /\ ToSet(f[n]) = ToSet(f[n - 1]) \cup ToSet(seqs[n])
      <4> DEFINE s == f[n - 1]
                 t == seqs[n]
      <4>1. s \in Seq(S) /\ t \in Seq(S)
        BY <2>5, <3>1, <2>3
      <4> HIDE DEF s, t
      <4>2. s \o t \in Seq(S) /\ Len(s \o t) = Len(s) + Len(t)
        BY <4>1
      <4>3. ToSet(s \o t) = ToSet(s) \cup ToSet(t)
        <5>1. ASSUME NEW i \in DOMAIN s PROVE s[i] \in ToSet(s \o t)
          <6>1. i \in DOMAIN (s \o t) /\ (s \o t)[i] = s[i]
            BY <4>1, <4>2
          <6> QED
            BY <6>1 DEF ToSet
        <5>2. ASSUME NEW i \in DOMAIN t PROVE t[i] \in ToSet(s \o t)
          <6>1. i + Len(s) \in DOMAIN (s \o t) /\ (s \o t)[i + Len(s)] = t[i]
            BY <4>1, <4>2
          <6> QED
            BY <6>1 DEF ToSet
        <5>3. ASSUME NEW i \in DOMAIN (s \o t) PROVE (s \o t)[i] \in ToSet(s) \cup ToSet(t)
          <6>1. CASE i \in 1..Len(s)
            BY <6>1, <4>1 DEF ToSet
          <6>2. CASE i \notin 1..Len(s)
            <7>1. i - Len(s) \in DOMAIN t /\ (s \o t)[i] = t[i - Len(s)]
              BY <6>2, <4>1, <4>2
            <7> QED
              BY <7>1 DEF ToSet
          <6> QED
            BY <6>1, <6>2
        <5> QED
          BY <5>1, <5>2, <5>3, Zenon DEF ToSet
      <4> QED
        BY <4>2, <4>3, <3>1 DEF s, t
    <3>3. \A e : (\E i \in 1..n : e \in ToSet(seqs[i]))
                   <=> (\E i \in 1..(n - 1) : e \in ToSet(seqs[i])) \/ e \in ToSet(seqs[n])
      <4>1. 1..n = (1..(n - 1)) \cup {n}
        OBVIOUS
      <4> QED
        BY <4>1, Zenon
    <3>4. ASSUME NEW p \in DOMAIN f[n], NEW q \in DOMAIN f[n], p < q PROVE Follow(f[n], p, q, n)
      <4> DEFINE s == f[n - 1]
                 t == seqs[n]
      <4>1. s \in Seq(S) /\ t \in Seq(S) /\ f[n] = s \o t /\ n \in 2..Len(seqs)
        BY <2>5, <3>1, <2>3
      <4>2. /\ \A e : e \in ToSet(s) <=> \E i \in 1..(n - 1) : e \in ToSet(seqs[i])
            /\ \A x, y \in DOMAIN s : x < y => Follow(s, x, y, n - 1)
        <5> HIDE DEF Follow
        <5> QED BY <2>5
      <4>3. p \in 1..(Len(s) + Len(t)) /\ q \in 1..(Len(s) + Len(t)) /\ Len(s) \in Nat /\ Len(t) \in Nat
        <5> HIDE DEF s, t
        <5> QED BY <3>4, <4>1
      <4>4. /\ \A x \in 1..Len(s) : x \in DOMAIN s /\ f[n][x] = s[x]
            /\ \A x \in 1..(Len(s) + Len(t)) : x \notin 1..Len(s) => x - Len(s) \in DOMAIN t /\ f[n][x] = t[x - Len(s)]
        <5> HIDE DEF s, t
        <5> QED BY <4>1
      <4>5. CASE q \in 1..Len(s)
        <5>1. p \in 1..Len(s)
          <6> HIDE DEF s, t, Follow
          <6> QED BY <3>4, <4>3, <4>5
        <5>2. Follow(s, p, q, n - 1)
          <6> HIDE DEF s, t, Follow
          <6> QED BY <3>4, <4>2, <4>4, <4>5, <5>1
        <5>3. PICK i \in 1..(n - 1), j \in 1..(n - 1) : \E a \in DOMAIN seqs[i], b \in DOMAIN seqs[j] :
                /\ s[p] = seqs[i][a] /\ s[q] = seqs[j][b]
                /\ i < j \/ (i = j /\ a < b)
          BY <5>2
        <5>4. i \in 1..n /\ j \in 1..n /\ f[n][p] = s[p] /\ f[n][q] = s[q]
          <6> HIDE DEF s, t
          <6> QED BY <4>1, <4>4, <4>5, <5>1
        <5> HIDE DEF s, t
        <5> QED
          BY <5>3, <5>4
      <4>6. CASE q \notin 1..Len(s) /\ p \in 1..Len(s)
        <5>1. f[n][p] \in ToSet(s)
          <6> HIDE DEF s, t
          <6> QED BY <4>4, <4>6 DEF ToSet
        <5>2. PICK i \in 1..(n - 1) : f[n][p] \in ToSet(seqs[i])
          <6> HIDE DEF s, t, Follow
          <6> QED BY <4>2, <5>1
        <5>3. PICK a \in DOMAIN seqs[i] : f[n][p] = seqs[i][a]
          BY <5>2 DEF ToSet
        <5>4. q - Len(s) \in DOMAIN seqs[n] /\ f[n][q] = seqs[n][q - Len(s)]
          <6>1. q - Len(s) \in DOMAIN t /\ f[n][q] = t[q - Len(s)]
            <7> HIDE DEF s, t
            <7> QED BY <4>3, <4>4, <4>6
          <6> QED
            BY <6>1
        <5>5. i \in 1..n /\ n \in 1..n /\ i < n
          <6> HIDE DEF s, t
          <6> QED BY <4>1
        <5> DEFINE b == q - Len(s)
        <5> HIDE DEF s, t, b
        <5>6. \E x \in DOMAIN seqs[i], y \in DOMAIN seqs[n] :
                f[n][p] = seqs[i][x] /\ f[n][q] = seqs[n][y]
          BY <5>3, <5>4
        <5> QED
          BY <5>5, <5>6
      <4>7. CASE q \notin 1..Len(s) /\ p \notin 1..Len(s)
        <5> DEFINE a == p - Len(s)
                   b == q - Len(s)
        <5>1. /\ a \in DOMAIN t /\ f[n][p] = t[a]
              /\ b \in DOMAIN t /\ f[n][q] = t[b] /\ a < b
          <6> HIDE DEF s, t
          <6> QED BY <3>4, <4>3, <4>4, <4>7
        <5>2. n \in 1..n
          <6> HIDE DEF s, t
          <6> QED BY <4>1
        <5> HIDE DEF a, b, s
        <5> QED
          BY <5>1, <5>2
      <4> QED
        BY <4>5, <4>6, <4>7
    <3> HIDE DEF Follow
    <3>5. f[n] \in Seq(S) /\ \A e : e \in ToSet(f[n]) <=> \E i \in 1..n : e \in ToSet(seqs[i])
      BY <2>5, <3>2, <3>3
    <3> QED
      BY <3>4, <3>5
  <2>6. Bad = {}
    <3> SUFFICES ASSUME Bad # {} PROVE FALSE
      OBVIOUS
    <3>1. PICK n \in Bad : \A m \in Bad : n <= m
      <4>1. Bad \in SUBSET Nat
        OBVIOUS
      <4> HIDE DEF Bad
      <4> QED
        BY <4>1, Least
    <3>2. n \in 1..Len(seqs) /\ ~ Good(n)
      BY <3>1
    <3> HIDE DEF Good
    <3>3. n # 1
      BY <3>2, <2>4
    <3>4. n \in 2..Len(seqs) /\ n - 1 \in 1..Len(seqs) /\ n - 1 < n
      BY <3>2, <3>3, <2>0
    <3>5. n - 1 \notin Bad
      <4> HIDE DEF Bad
      <4> QED
        BY <3>1, <3>4
    <3>6. Good(n - 1)
      BY <3>5, <3>4
    <3> QED
      BY <3>2, <3>4, <3>6, <2>5
  <2>7. Good(Len(seqs))
    <3> HIDE DEF Good
    <3> QED
      BY <2>6, <2>0
  <2>8. DOMAIN seqs = 1..Len(seqs) /\ FlattenSeq(seqs) = f[Len(seqs)]
    BY <2>1, LenProperties
  <2> DEFINE flat == FlattenSeq(seqs)
  <2>9. /\ flat \in Seq(S)
        /\ \A e : e \in ToSet(flat) <=> \E i \in 1..Len(seqs) : e \in ToSet(seqs[i])
        /\ \A p, q \in DOMAIN flat : p < q => Follow(flat, p, q, Len(seqs))
    <3> HIDE DEF Follow
    <3> QED
      BY <2>7, <2>8
  <2>10. ASSUME NEW p \in DOMAIN flat, NEW q \in DOMAIN flat, p < q
         PROVE  \E i, j \in DOMAIN seqs : \E a \in DOMAIN seqs[i], b \in DOMAIN seqs[j] :
                   /\ flat[p] = seqs[i][a] /\ flat[q] = seqs[j][b]
                   /\ i < j \/ (i = j /\ a < b)
    <3>1. Follow(flat, p, q, Len(seqs))
      <4> HIDE DEF Follow, flat
      <4> QED BY <2>9, <2>10
    <3> HIDE DEF flat
    <3> QED
      BY <2>8, <3>1
  <2> HIDE DEF Follow, Good
  <2> QED
    BY <2>8, <2>9, <2>10, Zenon
<1> QED
  BY <1>1, <1>2

(* A strict total order sorts a finite set: all its members, in that          *)
(* order.                                                                     *)
LEMMA InOrderProperties ==
    ASSUME NEW S, IsFiniteSet(S), NEW before,
           \A x \in S : <<x, x>> \notin before,
           \A x, y \in S : x # y => <<x, y>> \in before \/ <<y, x>> \in before,
           \A x, y, z \in S : <<x, y>> \in before /\ <<y, z>> \in before => <<x, z>> \in before
    PROVE  /\ InOrder(S, before) \in Seq(S)
           /\ ToSet(InOrder(S, before)) = S
           /\ \A k, m \in DOMAIN InOrder(S, before) :
                k < m => <<InOrder(S, before)[k], InOrder(S, before)[m]>> \in before
<1> DEFINE n == Cardinality(S)
           Earlier(x) == {y \in S : <<y, x>> \in before}
           place == [x \in S |-> Cardinality(Earlier(x)) + 1]
           order == InOrder(S, before)
<1>1. n \in Nat /\ IsFiniteSet(1..n) /\ Cardinality(1..n) = n
  BY FS_CardinalityType, FS_Interval
<1>2. ASSUME NEW x \in S PROVE IsFiniteSet(Earlier(x)) /\ Cardinality(Earlier(x)) \in 0..(n - 1)
  <2>1. Earlier(x) \in SUBSET S /\ x \notin Earlier(x)
    OBVIOUS
  <2> HIDE DEF Earlier
  <2>2. IsFiniteSet(Earlier(x)) /\ Cardinality(Earlier(x)) <= n /\ Cardinality(Earlier(x)) # n
    BY <2>1, FS_Subset
  <2> QED
    BY <1>1, <2>2, FS_CardinalityType
<1>3. ASSUME NEW x \in S, NEW y \in S, <<x, y>> \in before
      PROVE  Cardinality(Earlier(x)) < Cardinality(Earlier(y))
  <2>1. Earlier(x) \in SUBSET Earlier(y) /\ x \in Earlier(y) /\ x \notin Earlier(x)
    BY <1>3
  <2> HIDE DEF Earlier
  <2>2. Cardinality(Earlier(x)) <= Cardinality(Earlier(y)) /\ Cardinality(Earlier(x)) # Cardinality(Earlier(y))
    BY <1>2, <2>1, FS_Subset
  <2> QED
    BY <1>2, <2>2
<1>4. place \in Injection(S, 1..n)
  <2>1. \A x \in S : place[x] \in 1..n
    <3> HIDE DEF Earlier, n
    <3> QED BY <1>1, <1>2
  <2>2. ASSUME NEW x \in S, NEW y \in S, place[x] = place[y] PROVE x = y
    <3> HIDE DEF Earlier
    <3>1. Cardinality(Earlier(x)) = Cardinality(Earlier(y))
      BY <1>2, <2>2
    <3>2. <<x, y>> \notin before /\ <<y, x>> \notin before
      BY <1>2, <1>3, <3>1
    <3> QED
      BY <3>2
  <2>3. place \in [S -> 1..n]
    BY <2>1
  <2> HIDE DEF place
  <2> QED
    BY <2>2, <2>3 DEF Injection, IsInjective
<1>5. place \in Surjection(S, 1..n)
  <2>1. Cardinality(S) = Cardinality(1..n)
    BY <1>1
  <2> HIDE DEF place, n
  <2> QED BY <1>1, <1>4, <2>1, FS_Injection
<1>6. ASSUME NEW k \in 1..n PROVE order[k] \in S /\ Cardinality(Earlier(order[k])) = k - 1
  <2>1. PICK x \in S : place[x] = k
    <3> HIDE DEF place, n
    <3> QED BY <1>5 DEF Surjection
  <2>2. Cardinality(Earlier(x)) = k - 1
    <3> HIDE DEF Earlier
    <3> QED BY <1>2, <2>1
  <2>3. order[k] = CHOOSE y \in S : Cardinality(Earlier(y)) = k - 1
    BY DEF InOrder
  <2> HIDE DEF Earlier, order
  <2> QED
    BY <2>2, <2>3
<1>7. DOMAIN order = 1..n
  BY DEF InOrder
<1>8. order \in Seq(S)
  <2> DEFINE nth(k) == CHOOSE x \in S : Cardinality(Earlier(x)) = k - 1
  <2>1. order = [k \in 1..n |-> nth(k)]
    BY DEF InOrder
  <2> HIDE DEF order, n, nth
  <2>2. \A k \in 1..n : nth(k) \in S
    BY <1>6, <2>1
  <2>3. order \in [1..n -> S]
    BY <2>1, <2>2
  <2> QED
    BY <1>1, <2>3
<1>9. ASSUME NEW x \in S PROVE \E k \in 1..n : order[k] = x
  <2> DEFINE k == Cardinality(Earlier(x)) + 1
  <2>1. k \in 1..n
    <3> HIDE DEF Earlier, n
    <3> QED BY <1>1, <1>2
  <2>2. order[k] \in S /\ Cardinality(Earlier(order[k])) = Cardinality(Earlier(x))
    <3> HIDE DEF Earlier, n, order
    <3> QED BY <1>2, <1>6, <2>1
  <2>3. order[k] = x
    <3> DEFINE y == order[k]
    <3> HIDE DEF Earlier, order, k, y
    <3>1. y \in S /\ Cardinality(Earlier(y)) = Cardinality(Earlier(x))
      BY <2>2 DEF y
    <3>2. <<x, y>> \notin before /\ <<y, x>> \notin before
      BY <1>2, <1>3, <3>1
    <3> QED
      BY <3>1, <3>2 DEF y
  <2> HIDE DEF k, order, n
  <2> QED
    BY <2>1, <2>3
<1>10. ToSet(order) = S
  <2> HIDE DEF order, n, Earlier
  <2> QED BY <1>6, <1>7, <1>9 DEF ToSet
<1>11. ASSUME NEW k \in 1..n, NEW m \in 1..n, k < m PROVE <<order[k], order[m]>> \in before
  <2> DEFINE x == order[k]
             y == order[m]
  <2>1. /\ x \in S /\ y \in S /\ k \in Nat /\ m \in Nat
        /\ Cardinality(Earlier(x)) = k - 1 /\ Cardinality(Earlier(y)) = m - 1
    <3> HIDE DEF order, n, Earlier
    <3> QED BY <1>1, <1>6
  <2>2. x # y
    <3> HIDE DEF x, y, Earlier
    <3> QED BY <1>11, <2>1
  <2>3. <<y, x>> \notin before
    <3> HIDE DEF x, y, Earlier
    <3> QED BY <1>3, <1>11, <2>1
  <2> HIDE DEF x, y, Earlier
  <2>4. <<x, y>> \in before
    BY <2>1, <2>2, <2>3
  <2> QED
    BY <2>4 DEF x, y
<1> HIDE DEF order, n
<1> QED
  BY <1>7, <1>8, <1>10, <1>11 DEF order

(* SetToSeq lists a finite set.                                               *)
LEMMA SetToSeqProperties ==
    ASSUME NEW S, NEW T \in SUBSET S, IsFiniteSet(T)
    PROVE  SetToSeq(T) \in Seq(S) /\ ToSet(SetToSeq(T)) = T
<1> DEFINE n == Cardinality(T)
           f == SetToSeq(T)
<1>1. n \in Nat /\ Bijection(1..n, T) # {}
  BY FS_CardinalityType DEF ExistsBijection
<1>2. PICK g : g \in Bijection(1..n, T)
  BY <1>1
<1>3. g \in [1..n -> T] /\ IsInjective(g)
  BY <1>2 DEF Bijection, Injection, IsInjective
<1>4. f \in [1..n -> T] /\ IsInjective(f)
  BY <1>3 DEF SetToSeq
<1>5. f \in Injection(1..n, T)
  BY <1>4 DEF Injection, IsInjective
<1>6. IsFiniteSet(1..n) /\ Cardinality(1..n) = n
  BY <1>1, FS_Interval
<1>7. f \in Surjection(1..n, T)
  <2>1. Cardinality(1..n) = Cardinality(T)
    BY <1>6
  <2> HIDE DEF f, n
  <2> QED BY <1>5, <1>6, <2>1, FS_Injection
<1>8. f \in Seq(S)
  BY <1>1, <1>4
<1>9. \A e \in T : \E i \in 1..n : f[i] = e
  BY <1>7 DEF Surjection
<1>10. DOMAIN f = 1..n /\ \A i \in 1..n : f[i] \in T
  BY <1>4
<1>11. ToSet(f) = T
  <2> HIDE DEF f, n
  <2> QED BY <1>9, <1>10 DEF ToSet
<1> QED
  BY <1>8, <1>11

(* Ascending lists a finite set of numbers by size.                           *)
LEMMA AscendingProperties ==
    ASSUME NEW S \in SUBSET Nat, IsFiniteSet(S)
    PROVE  /\ Ascending(S) \in Seq(S)
           /\ ToSet(Ascending(S)) = S
           /\ \A k, m \in DOMAIN Ascending(S) : k < m => Ascending(S)[k] < Ascending(S)[m]
<1> DEFINE before == {r \in S \X S : r[1] < r[2]}
<1>1. \A x, y \in S : <<x, y>> \in before <=> x < y
  OBVIOUS
<1>2. Ascending(S) = InOrder(S, before)
  BY DEF Ascending
<1>3. \A x, y \in S : x # y => x < y \/ y < x
  OBVIOUS
<1>4. \A x, y, z \in S : ~(x < x) /\ (x < y /\ y < z => x < z)
  OBVIOUS
<1> HIDE DEF before
<1>5. /\ InOrder(S, before) \in Seq(S) /\ ToSet(InOrder(S, before)) = S
      /\ \A k, m \in DOMAIN InOrder(S, before) :
           k < m => <<InOrder(S, before)[k], InOrder(S, before)[m]>> \in before
  <2>1. \A x \in S : <<x, x>> \notin before
    BY <1>1, <1>4
  <2>2. \A x, y \in S : x # y => <<x, y>> \in before \/ <<y, x>> \in before
    BY <1>1, <1>3
  <2>3. \A x, y, z \in S : <<x, y>> \in before /\ <<y, z>> \in before => <<x, z>> \in before
    BY <1>1, <1>4
  <2> QED
    BY <2>1, <2>2, <2>3, InOrderProperties
<1>6. \A r \in before : r[1] < r[2]
  BY DEF before
<1> DEFINE order == InOrder(S, before)
<1>7. ASSUME NEW k \in DOMAIN order, NEW m \in DOMAIN order, k < m PROVE order[k] < order[m]
  <2> DEFINE r == <<order[k], order[m]>>
  <2>1. r \in before
    BY <1>5, <1>7
  <2>2. r[1] < r[2]
    <3> HIDE DEF r, order
    <3> QED BY <1>6, <2>1
  <2> QED
    BY <2>2
<1> QED
  BY <1>2, <1>5, <1>7

(* What a sequence is indexed by and where its elements are from.             *)
LEMMA SeqElements ==
    ASSUME NEW S, NEW s \in Seq(S)
    PROVE  DOMAIN s = 1..Len(s) /\ Len(s) \in Nat /\ \A k \in DOMAIN s : s[k] \in S /\ k \in Nat
BY ElementOfSeq, LenProperties

-----------------------------------------------------------------------------
(* What a build admits *)

(* What the i-th server of a document offers as e, should a primary list it.  *)
Offers(d, i, e) ==
    LET srv == d.servers[i] IN
    /\ e.server = srv.id /\ e.prefix = d.namespaces[srv.namespace]
    /\ e.toolset \in ToolsetsFor(d, srv.namespace, <<e.prefix, e.name>>)
    /\ e.priority = d.toolsets[e.toolset].priority

(* The reports a build can have collected.                                    *)
Reported == UNION {[asked -> Listings \cup {Failed}] : asked \in SUBSET Binding}

(* The build in progress is of a document that was valid when it was read.    *)
BuildTyped ==
    Idle \/ /\ build \in [version : 1..builds, allow : BOOLEAN, document : Documents,
                          tenants : SUBSET Tenants, reports : Reported]
            /\ Validate(build.document)
            /\ Asked \subseteq BindingsOf(build.document)

(* A tool is admitted as what its server and the toolsets make of it.         *)
LEMMA EntriesProperties ==
    ASSUME NEW d \in Documents, Validate(d), NEW i \in DOMAIN d.servers,
           NEW t \in Tenants, NEW n \in Names
    PROVE  /\ Entries(d, d.servers[i], t, n) \subseteq Tool
           /\ IsFiniteSet(Entries(d, d.servers[i], t, n))
           /\ \A e : e \in Entries(d, d.servers[i], t, n)
                      <=> e \in Tool /\ e.tenant = t /\ e.name = n /\ Offers(d, i, e)
<1> DEFINE srv == d.servers[i]
           prefix == d.namespaces[srv.namespace]
           for == ToolsetsFor(d, srv.namespace, <<prefix, n>>)
           entry(ts) == [tenant |-> t, server |-> srv.id, prefix |-> prefix, name |-> n,
                         toolset |-> ts, priority |-> d.toolsets[ts].priority]
           es == Entries(d, srv, t, n)
<1>1. srv \in ServerSpec /\ prefix \in Nat
  <2>1. d.servers \in Seq(ServerSpec)
    BY DocumentsAssumption DEF Parsed
  <2>2. srv.namespace \in DOMAIN d.namespaces
    BY DEF Validate, ValidServers
  <2>3. \A ns \in DOMAIN d.namespaces : d.namespaces[ns] \in Nat
    BY DocumentsAssumption DEF Parsed
  <2> QED
    BY <2>1, <2>2, <2>3
<1>2. for \subseteq DOMAIN d.toolsets
  BY DEF ToolsetsFor
<1>3. \A ts \in DOMAIN d.toolsets : ts \in STRING /\ d.toolsets[ts].priority \in Int
  BY DocumentsAssumption DEF Parsed, ToolsetSpec
<1>4. es = {entry(ts) : ts \in for}
  BY DEF Entries
<1>5. \A ts \in for : entry(ts) \in Tool
  <2> HIDE DEF for
  <2> QED BY <1>1, <1>2, <1>3 DEF Tool, ServerSpec
<1>6. IsFiniteSet(es)
  <2> DEFINE f == [ts \in for |-> entry(ts)]
  <2>1. IsFiniteSet(for)
    <3>1. IsFiniteSet(DOMAIN d.toolsets)
      BY DocumentsAssumption DEF Parsed
    <3> HIDE DEF for
    <3> QED BY <1>2, <3>1, FS_Subset
  <2>2. f \in Surjection(for, es)
    <3> HIDE DEF for, es, entry
    <3> QED BY <1>4 DEF Surjection
  <2> HIDE DEF f, for, es
  <2> QED BY <2>1, <2>2, FS_Surjection
<1>7. ASSUME NEW e, e \in es PROVE e \in Tool /\ e.tenant = t /\ e.name = n /\ Offers(d, i, e)
  <2>1. PICK ts \in for : e = entry(ts)
    BY <1>4, <1>7
  <2>2. e \in Tool
    BY <1>5, <2>1
  <2>3. e.tenant = t /\ e.name = n /\ e.server = srv.id /\ e.prefix = prefix /\ e.toolset = ts
        /\ e.priority = d.toolsets[ts].priority
    BY <2>1
  <2>4. e.toolset \in for
    BY <2>1, <2>3
  <2> QED
    BY <2>2, <2>3, <2>4, Zenon DEF Offers
<1>8. ASSUME NEW e \in Tool, e.tenant = t, e.name = n, Offers(d, i, e) PROVE e \in es
  <2>1. e.toolset \in for /\ e.server = srv.id /\ e.prefix = prefix
        /\ e.priority = d.toolsets[e.toolset].priority
    BY <1>8 DEF Offers
  <2>2. e = entry(e.toolset)
    BY <1>8, <2>1 DEF Tool
  <2> QED
    BY <1>4, <2>1, <2>2
<1> QED
  BY <1>6, <1>7, <1>8, Zenon

(* A binding contributes what its primary listed and its server offers, no more and no *)
(* less.                                                                      *)
LEMMA AdmitBindingProperties ==
    ASSUME NEW d \in Documents, Validate(d), NEW i \in DOMAIN d.servers,
           NEW t \in Tenants, NEW listed \in Listings
    PROVE  /\ AdmitBinding(d, d.servers[i], t, listed) \in Seq(Tool)
           /\ \A e : e \in ToSet(AdmitBinding(d, d.servers[i], t, listed))
                      <=> /\ e \in Tool /\ e.tenant = t /\ Offers(d, i, e)
                          /\ e.name \in listed \ d.servers[i].exclude
<1> DEFINE srv == d.servers[i]
           admitted == listed \ srv.exclude
           names == Ascending(admitted)
           seqs == [k \in DOMAIN names |-> SetToSeq(Entries(d, srv, t, names[k]))]
<1>1. admitted \in SUBSET Nat /\ admitted \subseteq Names /\ IsFiniteSet(admitted)
  BY ListingsAssumption, NamesAssumption, FS_Subset
<1>2. names \in Seq(admitted) /\ ToSet(names) = admitted
  <2> HIDE DEF admitted
  <2> QED BY <1>1, AscendingProperties
<1>3. DOMAIN names = 1..Len(names) /\ Len(names) \in Nat /\ \A k \in DOMAIN names : names[k] \in Names
  <2> HIDE DEF names, admitted
  <2>1. DOMAIN names = 1..Len(names) /\ Len(names) \in Nat
    BY <1>2
  <2>2. \A k \in 1..Len(names) : names[k] \in admitted
    BY <1>2, ElementOfSeq
  <2> QED BY <1>1, <2>1, <2>2
<1>4. ASSUME NEW k \in DOMAIN names
      PROVE  seqs[k] \in Seq(Tool) /\ ToSet(seqs[k]) = Entries(d, srv, t, names[k])
  <2>1. seqs[k] = SetToSeq(Entries(d, srv, t, names[k])) /\ names[k] \in Names
    BY <1>3
  <2>2. Entries(d, srv, t, names[k]) \in SUBSET Tool /\ IsFiniteSet(Entries(d, srv, t, names[k]))
    BY <2>1, EntriesProperties
  <2> QED
    BY <2>1, <2>2, SetToSeqProperties
<1>5. seqs \in Seq(Seq(Tool)) /\ DOMAIN seqs = DOMAIN names
  <2> HIDE DEF names
  <2>1. seqs \in [1..Len(names) -> Seq(Tool)]
    BY <1>3, <1>4
  <2> QED
    BY <1>3, <2>1
<1>6. AdmitBinding(d, srv, t, listed) = FlattenSeq(seqs)
  BY DEF AdmitBinding
<1>7. /\ FlattenSeq(seqs) \in Seq(Tool)
      /\ \A e : e \in ToSet(FlattenSeq(seqs)) <=> \E k \in DOMAIN seqs : e \in ToSet(seqs[k])
  <2> HIDE DEF seqs
  <2> QED BY <1>5, FlattenSeqProperties
<1>8. ASSUME NEW e, e \in ToSet(FlattenSeq(seqs))
      PROVE  e \in Tool /\ e.tenant = t /\ Offers(d, i, e) /\ e.name \in admitted
  <2>1. PICK k \in DOMAIN names : e \in ToSet(seqs[k])
    <3> HIDE DEF seqs, names
    <3> QED BY <1>5, <1>7, <1>8
  <2>2. e \in Entries(d, srv, t, names[k]) /\ names[k] \in Names
    <3> HIDE DEF seqs, names
    <3> QED BY <1>3, <1>4, <2>1
  <2>3. names[k] \in admitted
    <3> HIDE DEF names, admitted
    <3> QED BY <1>2
  <2> HIDE DEF names, admitted
  <2> QED
    BY <2>2, <2>3, EntriesProperties
<1>9. ASSUME NEW e \in Tool, e.tenant = t, Offers(d, i, e), e.name \in admitted
      PROVE  e \in ToSet(FlattenSeq(seqs))
  <2>1. PICK k \in DOMAIN names : names[k] = e.name
    <3> HIDE DEF names, admitted
    <3> QED BY <1>2, <1>9 DEF ToSet
  <2>2. e \in Entries(d, srv, t, names[k])
    <3>1. names[k] \in Names
      BY <1>3
    <3> HIDE DEF names
    <3> QED BY <1>9, <2>1, <3>1, EntriesProperties
  <2> HIDE DEF seqs, names
  <2> QED
    BY <1>4, <1>5, <1>7, <2>2
<1> QED
  BY <1>6, <1>7, <1>8, <1>9, Zenon

(* The i-th server's primary of e's tenant answered, and listed what it offers. *)
Served(d, reports, i, e) ==
    LET srv == d.servers[i] IN
    /\ e.tenant \in ToSet(srv.bindings) /\ Answered(reports, srv.id, e.tenant)
    /\ e.name \in reports[<<srv.id, e.tenant>>] \ srv.exclude
    /\ Offers(d, i, e)

(* What a build admits is what some server of its document serves.            *)
LEMMA AdmittedProperties ==
    ASSUME NEW d \in Documents, Validate(d),
           NEW reports \in [BindingsOf(d) -> Listings \cup {Failed}]
    PROVE  /\ Admitted(d, reports) \in Seq(Tool)
           /\ \A e : e \in ToSet(Admitted(d, reports))
                      <=> e \in Tool /\ \E i \in DOMAIN d.servers : Served(d, reports, i, e)
<1> DEFINE one(i, j) == IF Answered(reports, d.servers[i].id, d.servers[i].bindings[j])
                        THEN AdmitBinding(d, d.servers[i], d.servers[i].bindings[j],
                                          reports[<<d.servers[i].id, d.servers[i].bindings[j]>>])
                        ELSE <<>>
           ofServer(i) == [j \in DOMAIN d.servers[i].bindings |-> one(i, j)]
           all == [i \in DOMAIN d.servers |-> FlattenSeq(ofServer(i))]
<1>1. /\ DOMAIN d.servers = 1..Len(d.servers) /\ Len(d.servers) \in Nat
      /\ \A i \in DOMAIN d.servers : d.servers[i] \in ServerSpec
  <2>1. d.servers \in Seq(ServerSpec)
    BY DocumentsAssumption DEF Parsed
  <2> QED
    BY <2>1, ElementOfSeq, LenProperties
<1>2. ASSUME NEW i \in DOMAIN d.servers
      PROVE  /\ DOMAIN d.servers[i].bindings = 1..Len(d.servers[i].bindings)
             /\ Len(d.servers[i].bindings) \in Nat
             /\ \A j \in DOMAIN d.servers[i].bindings :
                  /\ d.servers[i].bindings[j] \in Tenants
                  /\ <<d.servers[i].id, d.servers[i].bindings[j]>> \in BindingsOf(d)
  <2>1. d.servers[i].bindings \in Seq(Tenants)
    BY <1>1 DEF ServerSpec
  <2>2. DOMAIN d.servers[i].bindings = 1..Len(d.servers[i].bindings) /\ Len(d.servers[i].bindings) \in Nat
    BY <2>1
  <2>3. \A j \in 1..Len(d.servers[i].bindings) : d.servers[i].bindings[j] \in Tenants
    BY <2>1, ElementOfSeq
  <2> QED
    BY <2>2, <2>3 DEF BindingsOf, ToSet
<1>3. ASSUME NEW i \in DOMAIN d.servers, NEW j \in DOMAIN d.servers[i].bindings
      PROVE  /\ one(i, j) \in Seq(Tool)
             /\ \A e : e \in ToSet(one(i, j))
                   <=> e \in Tool /\ e.tenant = d.servers[i].bindings[j] /\ Served(d, reports, i, e)
  <2> DEFINE srv == d.servers[i]
             t == d.servers[i].bindings[j]
  <2>1. t \in Tenants /\ <<srv.id, t>> \in BindingsOf(d) /\ t \in ToSet(srv.bindings)
    BY <1>2 DEF ToSet
  <2>2. CASE Answered(reports, srv.id, t)
    <3>1. reports[<<srv.id, t>>] \in Listings
      BY <2>1, <2>2 DEF Answered
    <3>2. one(i, j) = AdmitBinding(d, srv, t, reports[<<srv.id, t>>])
      BY <2>2
    <3>3. /\ one(i, j) \in Seq(Tool)
          /\ \A e : e \in ToSet(one(i, j))
                <=> e \in Tool /\ e.tenant = t /\ Offers(d, i, e) /\ e.name \in reports[<<srv.id, t>>] \ srv.exclude
      <4> HIDE DEF one
      <4> QED BY <2>1, <3>1, <3>2, AdmitBindingProperties
    <3> HIDE DEF one
    <3> QED
      BY <2>1, <2>2, <3>3 DEF Served
  <2>3. CASE ~Answered(reports, srv.id, t)
    <3>1. one(i, j) = <<>> /\ ToSet(<<>>) = {}
      BY <2>3 DEF ToSet
    <3> HIDE DEF one
    <3> QED
      BY <2>3, <3>1 DEF Served
  <2> QED
    BY <2>2, <2>3
<1>4. ASSUME NEW i \in DOMAIN d.servers
      PROVE  /\ FlattenSeq(ofServer(i)) \in Seq(Tool)
             /\ \A e : e \in ToSet(FlattenSeq(ofServer(i))) <=> e \in Tool /\ Served(d, reports, i, e)
  <2> DEFINE bindings == d.servers[i].bindings
             seqs == ofServer(i)
  <2>1. DOMAIN seqs = DOMAIN bindings /\ \A j \in DOMAIN bindings : seqs[j] = one(i, j)
    OBVIOUS
  <2>2. seqs \in Seq(Seq(Tool))
    <3>1. seqs \in [1..Len(bindings) -> Seq(Tool)]
      <4> HIDE DEF one
      <4> QED BY <1>2, <1>3
    <3> HIDE DEF seqs, bindings
    <3> QED BY <1>2, <3>1 DEF bindings
  <2>3. /\ FlattenSeq(seqs) \in Seq(Tool)
        /\ \A e : e \in ToSet(FlattenSeq(seqs)) <=> \E j \in DOMAIN seqs : e \in ToSet(seqs[j])
    <3> HIDE DEF seqs
    <3> QED BY <2>2, FlattenSeqProperties
  <2>4. ASSUME NEW e PROVE e \in ToSet(FlattenSeq(seqs)) <=> e \in Tool /\ Served(d, reports, i, e)
    <3>1. ASSUME Served(d, reports, i, e) PROVE \E j \in DOMAIN bindings : e.tenant = bindings[j]
      BY <3>1 DEF Served, ToSet
    <3> HIDE DEF seqs, one
    <3> QED
      BY <1>3, <2>1, <2>3, <3>1
  <2> QED
    BY <2>3, <2>4
<1>5. all \in Seq(Seq(Tool)) /\ DOMAIN all = DOMAIN d.servers
      /\ \A i \in DOMAIN d.servers : all[i] = FlattenSeq(ofServer(i))
  <2>1. all \in [1..Len(d.servers) -> Seq(Tool)]
    <3> HIDE DEF ofServer
    <3> QED BY <1>1, <1>4
  <2>2. \A i \in DOMAIN d.servers : all[i] = FlattenSeq(ofServer(i))
    OBVIOUS
  <2> HIDE DEF all
  <2> QED BY <1>1, <2>1, <2>2
<1>6. Admitted(d, reports) = FlattenSeq(all)
  BY DEF Admitted
<1>7. /\ FlattenSeq(all) \in Seq(Tool)
      /\ \A e : e \in ToSet(FlattenSeq(all)) <=> \E i \in DOMAIN all : e \in ToSet(all[i])
  <2> HIDE DEF all
  <2> QED BY <1>5, FlattenSeqProperties
<1> HIDE DEF all, ofServer
<1> QED
  BY <1>4, <1>5, <1>6, <1>7

-----------------------------------------------------------------------------
(* The invariant of the builds *)

(* The inductive part of the catalog's type invariant.                        *)
CatalogKept == CatalogTypeOK /\ BuildTyped

LEMMA CatalogInitKept == CatalogInit => CatalogKept
<1> SUFFICES ASSUME CatalogInit PROVE CatalogKept
  OBVIOUS
<1>1. document \in Documents /\ tenants \subseteq Tenants /\ published \in [Binding -> Listings]
  BY DEF CatalogInit
<1>2. /\ view.tools \in Seq(Tool) /\ DOMAIN view.tools = {}
      /\ view.version = 0 /\ builds = 0 /\ changes = 0 /\ Idle
  BY DEF CatalogInit, NoView, Idle
<1> QED
  BY <1>1, <1>2, BoundsAssumption DEF CatalogKept, CatalogTypeOK, BuildTyped

(* What a build admits is what its document offers and its reports list.      *)
LEMMA ServedIsAdmitted ==
    ASSUME CatalogKept, AllDiscovered
    PROVE  /\ build.document \in Documents /\ Validate(build.document)
           /\ build.reports \in [BindingsOf(build.document) -> Listings \cup {Failed}]
           /\ Admitted(build.document, build.reports) \in Seq(Tool)
           /\ \A e : e \in ToSet(Admitted(build.document, build.reports))
                      <=> /\ e \in Tool
                          /\ \E i \in DOMAIN build.document.servers :
                               Served(build.document, build.reports, i, e)
<1>1. /\ build.document \in Documents /\ Validate(build.document) /\ build.reports \in Reported
      /\ DOMAIN build.reports = BindingsOf(build.document)
  BY DEF CatalogKept, BuildTyped, AllDiscovered, Asked
<1>2. build.reports \in [BindingsOf(build.document) -> Listings \cup {Failed}]
  BY <1>1 DEF Reported
<1> QED
  BY <1>1, <1>2, AdmittedProperties

(* What Publish installs was asked of a binding and a tenant of its build.    *)
LEMMA PublishKept ==
    ASSUME CatalogKept, Publish
    PROVE  CatalogKept'
<1> DEFINE d == build.document
           reports == build.reports
           tools == Admitted(d, reports)
<1>1. /\ tools \in Seq(Tool)
      /\ \A e : e \in ToSet(tools) => /\ e \in Tool
                                      /\ \E i \in DOMAIN d.servers : Served(d, reports, i, e)
  BY ServedIsAdmitted DEF Publish
<1>2. /\ view'.tools = tools /\ view'.version = build.version /\ view'.document = d
      /\ view'.tenants = build.tenants /\ view'.reports = reports
  BY DEF Publish
<1>3. build.version \in 0..MaxBuilds
  BY BoundsAssumption DEF CatalogKept, CatalogTypeOK, Publish, AllDiscovered
<1>4. ASSUME NEW k \in DOMAIN tools
      PROVE  /\ tools[k].tenant \in build.tenants
             /\ <<tools[k].server, tools[k].tenant>> \in BindingsOf(d)
             /\ tools[k].name \in reports[<<tools[k].server, tools[k].tenant>>]
  <2> DEFINE e == tools[k]
  <2>1. e \in ToSet(tools)
    BY DEF ToSet
  <2>2. PICK i \in DOMAIN d.servers : Served(d, reports, i, e)
    <3> HIDE DEF d, reports, tools, e
    <3> QED BY <1>1, <2>1
  <2>3. /\ e.tenant \in ToSet(d.servers[i].bindings) /\ e.server = d.servers[i].id
        /\ e.name \in reports[<<d.servers[i].id, e.tenant>>]
    <3> HIDE DEF d, reports, tools, e
    <3> QED BY <2>2 DEF Served, Offers
  <2>4. <<e.server, e.tenant>> \in BindingsOf(d)
    <3> HIDE DEF d, reports, tools, e
    <3> QED BY <2>3 DEF BindingsOf
  <2>5. \A binding \in BindingsOf(d) : binding[2] \in build.tenants
    BY DEF Publish, AllDiscovered, Acceptable
  <2>6. e.tenant \in build.tenants
    <3> HIDE DEF d, reports, tools, e
    <3> QED BY <2>4, <2>5
  <2> QED
    BY <2>3, <2>4, <2>6
<1>5. Idle' /\ UNCHANGED <<document, tenants, published, builds, changes>>
  BY DEF Publish, Idle
<1> HIDE DEF d, reports, tools
<1>6. CatalogTypeOK'
  BY <1>1, <1>2, <1>3, <1>4, <1>5 DEF CatalogKept, CatalogTypeOK
<1> QED
  BY <1>5, <1>6 DEF CatalogKept, BuildTyped

LEMMA DiscoverKept ==
    ASSUME CatalogKept, NEW binding \in Binding, Discover(binding)
    PROVE  CatalogKept'
<1>1. PICK report \in Reports(binding) :
        build' = [build EXCEPT !.reports =
                    [b \in Asked \cup {binding} |-> IF b = binding THEN report ELSE build.reports[b]]]
  BY DEF Discover
<1>2. /\ build \in [version : 1..builds, allow : BOOLEAN, document : Documents,
                     tenants : SUBSET Tenants, reports : Reported]
      /\ Validate(build.document) /\ Asked \subseteq BindingsOf(build.document)
      /\ binding \in BindingsOf(build.document)
  BY DEF CatalogKept, BuildTyped, Discover
<1> DEFINE reports == [b \in Asked \cup {binding} |-> IF b = binding THEN report ELSE build.reports[b]]
<1>3. reports \in Reported
  <2>1. report \in Listings \cup {Failed}
    BY <1>1 DEF Reports, CatalogKept, CatalogTypeOK
  <2>2. PICK asked \in SUBSET Binding : build.reports \in [asked -> Listings \cup {Failed}]
    BY <1>2 DEF Reported
  <2>3. Asked = asked
    BY <2>2 DEF Asked
  <2>4. Asked \cup {binding} \in SUBSET Binding
    BY <2>3
  <2>5. reports \in [Asked \cup {binding} -> Listings \cup {Failed}]
    BY <2>1, <2>2, <2>3
  <2> HIDE DEF reports
  <2> QED
    BY <2>4, <2>5 DEF Reported
<1>4. /\ build'.version = build.version /\ build'.document = build.document
      /\ build'.reports = reports
      /\ build' \in [version : 1..builds, allow : BOOLEAN, document : Documents,
                     tenants : SUBSET Tenants, reports : Reported]
  <2> HIDE DEF reports
  <2> QED BY <1>1, <1>2, <1>3 DEF reports
<1>5. Asked' \subseteq BindingsOf(build'.document)
  BY <1>2, <1>4 DEF Asked
<1>6. UNCHANGED <<document, tenants, published, view, builds, changes>>
  BY DEF Discover
<1> HIDE DEF reports
<1> QED
  BY <1>2, <1>4, <1>5, <1>6 DEF CatalogKept, CatalogTypeOK, BuildTyped

LEMMA StartBuildKept ==
    ASSUME CatalogKept, NEW allow \in BOOLEAN, StartBuild(allow)
    PROVE  CatalogKept'
<1>1. builds' \in 1..MaxBuilds /\ UNCHANGED <<document, tenants, published, view, changes>>
  BY BoundsAssumption DEF StartBuild, CatalogKept, CatalogTypeOK
<1>2. <<>> \in Reported
  <2>1. <<>> \in [{} -> Listings \cup {Failed}]
    OBVIOUS
  <2> QED
    BY <2>1 DEF Reported
<1>3. build' \in [version : 1..builds', allow : BOOLEAN, document : Documents,
                  tenants : SUBSET Tenants, reports : Reported]
  BY <1>1, <1>2 DEF StartBuild, NewBuild, CatalogKept, CatalogTypeOK
<1>4. Validate(build'.document) /\ Asked' = {}
  BY DEF StartBuild, NewBuild, Asked
<1> QED
  BY <1>1, <1>3, <1>4 DEF CatalogKept, CatalogTypeOK, BuildTyped

LEMMA CatalogNextKept == CatalogKept /\ [CatalogNext]_catalogVars => CatalogKept'
<1> SUFFICES ASSUME CatalogKept, [CatalogNext]_catalogVars PROVE CatalogKept'
  OBVIOUS
<1>1. CASE \E allow \in BOOLEAN : StartBuild(allow)
  BY <1>1, StartBuildKept
<1>2. CASE \E binding \in Binding : Discover(binding)
  BY <1>2, DiscoverKept
<1>3. CASE Publish
  BY <1>3, PublishKept
<1>4. CASE Refuse
  BY <1>4 DEF Refuse, Idle, CatalogKept, CatalogTypeOK, BuildTyped
<1>5. ASSUME changes' \in 0..MaxChanges, UNCHANGED <<build, view, builds>>,
             document' \in Documents, tenants' \subseteq Tenants, published' \in [Binding -> Listings]
      PROVE  CatalogKept'
  BY <1>5 DEF CatalogKept, CatalogTypeOK, BuildTyped, Idle, Asked
<1>6. ASSUME Changes PROVE changes' \in 0..MaxChanges /\ UNCHANGED <<build, view, builds>>
  BY <1>6, BoundsAssumption DEF Changes, CatalogKept, CatalogTypeOK
<1>7. CASE EditDocument
  BY <1>5, <1>6, <1>7 DEF EditDocument, CatalogKept, CatalogTypeOK
<1>8. CASE ChangeTenants
  BY <1>5, <1>6, <1>8 DEF ChangeTenants, CatalogKept, CatalogTypeOK
<1>9. CASE \E binding \in Binding : Release(binding)
  BY <1>5, <1>6, <1>9 DEF Release, CatalogKept, CatalogTypeOK
<1>10. CASE UNCHANGED catalogVars
  BY <1>10 DEF catalogVars, CatalogKept, CatalogTypeOK, BuildTyped, Idle, Asked
<1> QED
  BY <1>1, <1>2, <1>3, <1>4, <1>7, <1>8, <1>9, <1>10 DEF CatalogNext

LEMMA AlwaysCatalogKept == CatalogSpec => []CatalogKept
BY CatalogInitKept, CatalogNextKept, PTL DEF CatalogSpec

(* What is served was asked of nobody but the tenants and the bindings its    *)
(* build read (view.go:199-205, snapshotter.go:198-207), whatever changes.    *)
THEOREM CatalogTypeCorrect == CatalogSpec => []CatalogTypeOK
<1>1. CatalogKept => CatalogTypeOK
  BY DEF CatalogKept
<1> QED
  BY <1>1, AlwaysCatalogKept, PTL

-----------------------------------------------------------------------------
(* No tool is lost without a cause *)

(* A tool that every primary still serves to its tenant is admitted again.    *)
LEMMA PublishLosesForACause ==
    ASSUME CatalogKept, Publish, NEW k \in DOMAIN view.tools, view.tools[k] \in Tool
    PROVE  LET e == view.tools[k] IN
           \/ Carries(view', e)
           \/ e.tenant \notin view'.tenants
           \/ \A i \in Offering(view'.document, e) :
                LET report == view'.reports[<<view'.document.servers[i].id, e.tenant>>]
                IN  IF report = Failed THEN view'.allow ELSE e.name \notin report
<1> DEFINE e == view.tools[k]
           d == build.document
           reports == build.reports
           tools == Admitted(d, reports)
<1>1. /\ d \in Documents /\ Validate(d) /\ tools \in Seq(Tool)
      /\ reports \in [BindingsOf(d) -> Listings \cup {Failed}]
      /\ \A x : x \in ToSet(tools) <=> x \in Tool /\ \E i \in DOMAIN d.servers : Served(d, reports, i, x)
  BY ServedIsAdmitted DEF Publish
<1>2. /\ view'.tools = tools /\ view'.document = d /\ view'.reports = reports /\ view'.allow = build.allow
  BY DEF Publish
<1>3. ASSUME NEW i \in Offering(d, e), reports[<<d.servers[i].id, e.tenant>>] = Failed
      PROVE  build.allow
  <2>1. <<d.servers[i].id, e.tenant>> \in BindingsOf(d)
    <3> HIDE DEF d, reports, tools, e
    <3> QED BY <1>3 DEF Offering, BindingsOf
  <2>2. build.allow \/ \A binding \in BindingsOf(d) : reports[binding] # Failed
    BY DEF Publish, AllDiscovered, Acceptable
  <2> QED
    BY <1>3, <2>1, <2>2
<1>4. ASSUME NEW i \in Offering(d, e), reports[<<d.servers[i].id, e.tenant>>] # Failed,
             e.name \in reports[<<d.servers[i].id, e.tenant>>]
      PROVE  Carries(view', e)
  <2> DEFINE srv == d.servers[i]
  <2>1. /\ i \in DOMAIN d.servers /\ e.tenant \in ToSet(srv.bindings)
        /\ d.namespaces[srv.namespace] = e.prefix /\ e.name \notin srv.exclude
        /\ ToolsetsFor(d, srv.namespace, <<e.prefix, e.name>>) # {}
    BY <1>4 DEF Offering
  <2>2. PICK ts \in ToolsetsFor(d, srv.namespace, <<e.prefix, e.name>>) : TRUE
    BY <2>1
  <2> DEFINE x == [tenant |-> e.tenant, server |-> srv.id, prefix |-> e.prefix, name |-> e.name,
                   toolset |-> ts, priority |-> d.toolsets[ts].priority]
  <2>3. ts \in DOMAIN d.toolsets
    BY <2>2 DEF ToolsetsFor
  <2>4. ts \in STRING /\ d.toolsets[ts].priority \in Int /\ srv.id \in Servers
    <3>1. /\ d.servers \in Seq(ServerSpec) /\ DOMAIN d.toolsets \subseteq STRING
          /\ d.toolsets[ts] \in ToolsetSpec
      <4> HIDE DEF d
      <4> QED BY <1>1, <2>3, DocumentsAssumption DEF Parsed
    <3>2. srv \in ServerSpec
      <4> HIDE DEF d
      <4> QED BY <2>1, <3>1, ElementOfSeq
    <3> HIDE DEF d, srv
    <3> QED BY <2>3, <3>1, <3>2 DEF ToolsetSpec, ServerSpec
  <2>5. x \in Tool
    BY <2>4 DEF Tool
  <2>6. Served(d, reports, i, x)
    <3>1. /\ x.tenant = e.tenant /\ x.server = srv.id /\ x.prefix = e.prefix /\ x.name = e.name
          /\ x.toolset = ts /\ x.priority = d.toolsets[ts].priority
      OBVIOUS
    <3> HIDE DEF x, e, d, reports
    <3> QED
      BY <1>4, <2>1, <2>2, <3>1 DEF Served, Offers, Answered
  <2>7. PICK m \in DOMAIN tools : tools[m] = x
    <3>1. x \in ToSet(tools)
      <4> HIDE DEF x, e, d, reports, tools
      <4> QED BY <1>1, <2>1, <2>5, <2>6
    <3> HIDE DEF x, tools
    <3> QED BY <3>1 DEF ToSet
  <2>8. x.tenant = e.tenant /\ x.prefix = e.prefix /\ x.name = e.name
    OBVIOUS
  <2> HIDE DEF x, e, d, reports, tools
  <2> QED
    BY <1>2, <2>7, <2>8 DEF Carries
<1> HIDE DEF d, reports, tools
<1> QED
  BY <1>2, <1>3, <1>4

(* A tool leaves the catalog only with its tenant, its place in the document  *)
(* or its primary's listing, or for a primary the build may do without        *)
(* (snapshotter.go:107-110, 237-239).                                         *)
THEOREM ToolsAreLostForACause == CatalogSpec => ToolsLeaveForACause
<1> DEFINE Lost(k) ==
      LET e == view.tools[k] IN
         \/ Carries(view', e)
         \/ e.tenant \notin view'.tenants
         \/ \A i \in Offering(view'.document, e) :
              LET report == view'.reports[<<view'.document.servers[i].id, e.tenant>>]
              IN  IF report = Failed THEN view'.allow ELSE e.name \notin report
<1>1. ASSUME CatalogKept, [CatalogNext]_catalogVars
      PROVE  [\A k \in DOMAIN view.tools : Lost(k)]_catalogVars
  <2> SUFFICES ASSUME NEW k \in DOMAIN view.tools PROVE Lost(k)
    OBVIOUS
  <2>1. CASE Publish
    <3>1. view.tools[k] \in Tool
      <4>1. view.tools \in Seq(Tool)
        BY <1>1 DEF CatalogKept, CatalogTypeOK
      <4> QED
        BY <4>1, ElementOfSeq, LenProperties
    <3> QED
      BY <1>1, <2>1, <3>1, PublishLosesForACause
  <2>2. CASE ~Publish
    <3>1. view' = view
      BY <1>1, <2>2 DEF CatalogNext, StartBuild, Discover, Refuse, EditDocument, ChangeTenants,
                        Release, Changes, catalogVars
    <3>2. Carries(view', view.tools[k])
      BY <3>1 DEF Carries
    <3> QED
      BY <3>2
  <2> QED
    BY <2>1, <2>2
<1> QED
  BY <1>1, AlwaysCatalogKept, PTL DEF CatalogSpec, ToolsLeaveForACause

-----------------------------------------------------------------------------
(* The order of a catalog *)

(* Precedes is the lexicographic order.                                       *)
LEMMA TriplesOrdered ==
    ASSUME NEW a \in Int, NEW b \in Int, NEW c \in Int, NEW x \in Int, NEW y \in Int, NEW z \in Int
    PROVE  Precedes(<<a, b, c>>, <<x, y, z>>)
             <=> a < x \/ (a = x /\ b < y) \/ (a = x /\ b = y /\ c < z)
<1> DEFINE r == <<a, b, c>>
           s == <<x, y, z>>
<1>1. DOMAIN r = {1, 2, 3} /\ r[1] = a /\ r[2] = b /\ r[3] = c /\ s[1] = x /\ s[2] = y /\ s[3] = z
  OBVIOUS
<1>2. 1..(1 - 1) = {} /\ 1..(2 - 1) = {1} /\ 1..(3 - 1) = {1, 2}
  OBVIOUS
<1> HIDE DEF r, s
<1>3. Precedes(r, s) <=> \/ r[1] < s[1]
                         \/ r[2] < s[2] /\ r[1] = s[1]
                         \/ r[3] < s[3] /\ r[1] = s[1] /\ r[2] = s[2]
  <2>1. Precedes(r, s) <=> \/ r[1] < s[1] /\ \A m \in {} : r[m] = s[m]
                           \/ r[2] < s[2] /\ \A m \in {1} : r[m] = s[m]
                           \/ r[3] < s[3] /\ \A m \in {1, 2} : r[m] = s[m]
    <3>1. ASSUME Precedes(r, s)
          PROVE  \/ r[1] < s[1] /\ \A m \in {} : r[m] = s[m]
                 \/ r[2] < s[2] /\ \A m \in {1} : r[m] = s[m]
                 \/ r[3] < s[3] /\ \A m \in {1, 2} : r[m] = s[m]
      <4>1. PICK k \in {1, 2, 3} : r[k] < s[k] /\ \A m \in 1..(k - 1) : r[m] = s[m]
        BY <1>1, <3>1 DEF Precedes
      <4> QED
        BY <1>2, <4>1
    <3>2. ASSUME \/ r[1] < s[1] /\ \A m \in {} : r[m] = s[m]
                 \/ r[2] < s[2] /\ \A m \in {1} : r[m] = s[m]
                 \/ r[3] < s[3] /\ \A m \in {1, 2} : r[m] = s[m]
          PROVE  Precedes(r, s)
      BY <1>1, <1>2, <3>2 DEF Precedes
    <3> QED
      BY <3>1, <3>2
  <2> QED
    BY <2>1
<1> QED
  BY <1>1, <1>3 DEF r, s

LEMMA ToolTyped ==
    ASSUME NEW e \in Tool
    PROVE  /\ e.priority \in Int /\ e.prefix \in Int /\ e.name \in Int /\ e.tenant \in Int
           /\ e.tenant \in Tenants /\ e.name \in Names
<1>1. e.priority \in Int /\ e.prefix \in Nat /\ e.name \in Names /\ e.tenant \in Tenants
  BY DEF Tool
<1>2. \A n \in Names : n \in Int
  BY NamesAssumption
<1>3. \A t \in Tenants : t \in Int
  BY TenantsAssumption
<1> QED
  BY <1>1, <1>2, <1>3

LEMMA RanksOrdered ==
    ASSUME NEW e \in Tool, NEW f \in Tool
    PROVE  Precedes(Rank(e), Rank(f))
             <=> \/ e.priority < f.priority
                 \/ e.priority = f.priority /\ e.prefix < f.prefix
                 \/ e.priority = f.priority /\ e.prefix = f.prefix /\ e.name < f.name
<1>1. /\ e.priority \in Int /\ e.prefix \in Int /\ e.name \in Int
      /\ f.priority \in Int /\ f.prefix \in Int /\ f.name \in Int
  BY ToolTyped
<1>2. Precedes(<<e.priority, e.prefix, e.name>>, <<f.priority, f.prefix, f.name>>)
        <=> \/ e.priority < f.priority
            \/ e.priority = f.priority /\ e.prefix < f.prefix
            \/ e.priority = f.priority /\ e.prefix = f.prefix /\ e.name < f.name
  <2> DEFINE a == e.priority
             b == e.prefix
             c == e.name
             x == f.priority
             y == f.prefix
             z == f.name
  <2>1. a \in Int /\ b \in Int /\ c \in Int /\ x \in Int /\ y \in Int /\ z \in Int
    BY <1>1
  <2> HIDE DEF a, b, c, x, y, z
  <2>2. Precedes(<<a, b, c>>, <<x, y, z>>) <=> a < x \/ (a = x /\ b < y) \/ (a = x /\ b = y /\ c < z)
    BY <2>1, TriplesOrdered
  <2> QED
    BY <2>2, Zenon DEF a, b, c, x, y, z
<1> QED
  BY <1>2 DEF Rank

(* Where a catalog puts a tool: its tenant, then its rank. *)
Ahead(e, f) == e.tenant < f.tenant \/ (e.tenant = f.tenant /\ Precedes(Rank(e), Rank(f)))

LEMMA AheadIsStrict ==
    ASSUME NEW e \in Tool, NEW f \in Tool, Ahead(e, f)
    PROVE  ~Ahead(f, e) /\ ~(e.tenant = f.tenant /\ Rank(e) = Rank(f))
<1>1. /\ e.priority \in Int /\ e.prefix \in Int /\ e.name \in Int /\ e.tenant \in Int
      /\ f.priority \in Int /\ f.prefix \in Int /\ f.name \in Int /\ f.tenant \in Int
  BY ToolTyped
<1>2. Rank(e) = Rank(f) => e.priority = f.priority /\ e.prefix = f.prefix /\ e.name = f.name
  BY DEF Rank
<1> QED
  BY <1>1, <1>2, RanksOrdered DEF Ahead

(* A tenant's tools are sorted by rank, which no two of them share.           *)
LEMMA ToolsForTenantProperties ==
    ASSUME NEW tools \in Seq(Tool), NoCollision(tools), NEW t
    PROVE  LET own == ToolsForTenant(tools, t) IN
           /\ own \in Seq(Tool)
           /\ \A k \in DOMAIN own : own[k] \in ToSet(tools) /\ own[k].tenant = t
           /\ \A k, m \in DOMAIN own : k < m => Precedes(Rank(own[k]), Rank(own[m]))
<1> DEFINE own == {i \in DOMAIN tools : tools[i].tenant = t}
           first(i, j) == Precedes(Rank(tools[i]), Rank(tools[j]))
           earlier(i, j) == first(i, j) \/ (~first(j, i) /\ i < j)
           before == {r \in own \X own : earlier(r[1], r[2])}
           order == InOrder(own, before)
           sorted == [k \in DOMAIN order |-> tools[order[k]]]
<1>1. /\ DOMAIN tools = 1..Len(tools) /\ Len(tools) \in Nat
      /\ \A i \in DOMAIN tools : tools[i] \in Tool /\ i \in Nat
  BY SeqElements
<1>2. own \in SUBSET (1..Len(tools)) /\ IsFiniteSet(own)
  <2>1. own \in SUBSET (1..Len(tools))
    BY <1>1
  <2>2. IsFiniteSet(1..Len(tools))
    BY <1>1, FS_Interval
  <2> HIDE DEF own
  <2> QED BY <2>1, <2>2, FS_Subset
<1>3. \A i \in own : i \in DOMAIN tools /\ i \in Nat /\ tools[i] \in Tool /\ tools[i].tenant = t
  BY <1>1
<1>4. \A i, j \in own : <<i, j>> \in before <=> earlier(i, j)
  <2> HIDE DEF own, earlier
  <2> QED OBVIOUS
<1> DEFINE prio(i) == tools[i].priority
           prefix(i) == tools[i].prefix
           name(i) == tools[i].name
<1>5. \A i \in own : prio(i) \in Int /\ prefix(i) \in Int /\ name(i) \in Int
  <2> HIDE DEF own
  <2> QED BY <1>3, ToolTyped
<1>6. \A i, j \in own :
        first(i, j) <=> \/ prio(i) < prio(j)
                        \/ prio(i) = prio(j) /\ prefix(i) < prefix(j)
                        \/ prio(i) = prio(j) /\ prefix(i) = prefix(j) /\ name(i) < name(j)
  <2> HIDE DEF own
  <2> QED BY <1>3, RanksOrdered
<1>7. \A i, j \in own : i # j => prefix(i) # prefix(j) \/ name(i) # name(j)
  <2> HIDE DEF own
  <2> QED BY <1>3 DEF NoCollision
<1>8. \A i, j \in own : i # j => first(i, j) \/ first(j, i)
  <2> HIDE DEF own, first, prio, prefix, name
  <2> QED BY <1>5, <1>6, <1>7
<1>9. \A i, j \in own : earlier(i, j) <=> first(i, j)
  <2>1. \A i, j \in own : ~first(j, i) /\ i < j => first(i, j)
    <3> HIDE DEF own, first
    <3> QED BY <1>3, <1>8
  <2> HIDE DEF own, first
  <2> QED BY <2>1
<1>10. /\ order \in Seq(own)
       /\ \A k, m \in DOMAIN order : k < m => <<order[k], order[m]>> \in before
  <2> DEFINE In(i, j) == <<i, j>> \in before
  <2>1. \A i, j \in own : In(i, j) <=> first(i, j)
    <3> HIDE DEF own, first, earlier, before
    <3> QED BY <1>4, <1>9
  <2>2. \A i \in own : ~In(i, i)
    <3> HIDE DEF own, first, In, prio, prefix, name
    <3> QED BY <1>5, <1>6, <2>1
  <2>3. \A i, j \in own : i # j => In(i, j) \/ In(j, i)
    <3> HIDE DEF own, first, In
    <3> QED BY <1>8, <2>1
  <2>4. \A i, j, m \in own : In(i, j) /\ In(j, m) => In(i, m)
    <3> HIDE DEF own, first, In, prio, prefix, name
    <3> QED BY <1>5, <1>6, <2>1
  <2> HIDE DEF own, before
  <2> QED
    BY <1>2, <2>2, <2>3, <2>4, InOrderProperties
<1>11. /\ DOMAIN order = 1..Len(order) /\ Len(order) \in Nat
       /\ \A k \in DOMAIN order : order[k] \in own
  <2> HIDE DEF order, own
  <2> QED BY <1>10, SeqElements
<1>12. sorted \in Seq(Tool) /\ DOMAIN sorted = DOMAIN order
  <2> HIDE DEF order, own
  <2> QED BY <1>3, <1>11
<1>13. ASSUME NEW k \in DOMAIN order
       PROVE  sorted[k] = tools[order[k]] /\ sorted[k] \in ToSet(tools) /\ sorted[k].tenant = t
  <2> HIDE DEF order, own
  <2> QED BY <1>3, <1>11 DEF ToSet
<1>14. ASSUME NEW k \in DOMAIN order, NEW m \in DOMAIN order, k < m
       PROVE  Precedes(Rank(sorted[k]), Rank(sorted[m]))
  <2>1. order[k] \in own /\ order[m] \in own /\ <<order[k], order[m]>> \in before
    <3> HIDE DEF order, own, before
    <3> QED BY <1>10, <1>11, <1>14
  <2>2. first(order[k], order[m])
    <3> HIDE DEF order, own, before, first, earlier
    <3> QED BY <1>4, <1>9, <2>1
  <2> HIDE DEF order, own, before, sorted
  <2> QED
    BY <1>13, <2>2
<1>15. ToolsForTenant(tools, t) = sorted
  BY DEF ToolsForTenant
<1> HIDE DEF sorted, order
<1> QED
  BY <1>12, <1>13, <1>14, <1>15

(* What can be said of the snapshot a gateway serves. *)
Serving(v) ==
    /\ v.document \in Documents /\ Validate(v.document)
    /\ v.tools \in Seq(Tool) /\ v.tenants \subseteq Tenants
    /\ NoCollision(v.tools) /\ PatchOrderSpecified(v.document)
    /\ \A k \in DOMAIN v.tools : v.tools[k].toolset \in DOMAIN v.document.toolsets

LEMMA TenantsForProperties ==
    ASSUME NEW v, Serving(v), NEW p
    PROVE  /\ TenantsFor(v, p) \in Seq(Tenants)
           /\ \A i, j \in DOMAIN TenantsFor(v, p) : i < j => TenantsFor(v, p)[i] < TenantsFor(v, p)[j]
<1> DEFINE reached == IF ~p.spans THEN {p.tenant}
                      ELSE {t \in Tenants : \E g \in p.grants : g.scope = Global \/ g.scope[1] = t}
           S == reached \cap v.tenants
<1>1. S \in SUBSET Tenants
  BY DEF Serving
<1>2. S \in SUBSET Nat /\ IsFiniteSet(S)
  <2> HIDE DEF S
  <2> QED BY <1>1, TenantsAssumption, FS_Subset
<1>3. TenantsFor(v, p) = Ascending(S)
  BY DEF TenantsFor
<1>4. Ascending(S) \in Seq(S)
      /\ \A k, m \in DOMAIN Ascending(S) : k < m => Ascending(S)[k] < Ascending(S)[m]
  <2> HIDE DEF S
  <2> QED BY <1>2, AscendingProperties
<1>5. Ascending(S) \in Seq(Tenants)
  <2> HIDE DEF S
  <2> QED BY <1>1, <1>4
<1> HIDE DEF S
<1> QED
  BY <1>3, <1>4, <1>5

(* A listing is sorted by tenant and rank, and says of each tool what grants  *)
(* allow.                                                                     *)
LEMMA ListedProperties ==
    ASSUME NEW v, Serving(v), NEW p
    PROVE  LET listed == Listed(v, p) IN
           /\ \A i \in DOMAIN listed :
                /\ i \in Nat
                /\ listed[i].tool \in Tool /\ listed[i].tool \in ToSet(v.tools)
                /\ listed[i].name = DisplayName(p, listed[i].tool)
                /\ listed[i].scope = Scope(v, listed[i].tool)
                /\ listed[i].callable <=> Allows(p.grants, RoleCatalog, "tool:call", listed[i].scope)
           /\ \A i, j \in DOMAIN listed : i < j => Ahead(listed[i].tool, listed[j].tool)
<1> DEFINE slugs == TenantsFor(v, p)
           seqs == [k \in DOMAIN slugs |-> ToolsForTenant(v.tools, slugs[k])]
           tools == FlattenSeq(seqs)
           may(permission, e) == Allows(p.grants, RoleCatalog, permission, Scope(v, e))
           seen == {i \in DOMAIN tools : may("tool:list", tools[i])}
           shown == Ascending(seen)
           entry(e) == [name |-> DisplayName(p, e), tool |-> e, scope |-> Scope(v, e),
                        callable |-> may("tool:call", e)]
           listed == [k \in DOMAIN shown |-> entry(tools[shown[k]])]
<1>1. /\ DOMAIN slugs = 1..Len(slugs) /\ Len(slugs) \in Nat
      /\ \A k \in DOMAIN slugs : k \in Nat /\ slugs[k] \in Tenants
      /\ \A i, j \in DOMAIN slugs : i < j => slugs[i] < slugs[j]
  <2> HIDE DEF slugs
  <2> QED BY TenantsForProperties, SeqElements DEF slugs
<1>2. DOMAIN seqs = DOMAIN slugs /\ \A k \in DOMAIN slugs : seqs[k] = ToolsForTenant(v.tools, slugs[k])
  <2> HIDE DEF slugs
  <2> QED OBVIOUS
<1>3. ASSUME NEW k \in DOMAIN slugs
      PROVE  /\ seqs[k] \in Seq(Tool)
             /\ \A a \in DOMAIN seqs[k] : seqs[k][a] \in Tool /\ seqs[k][a] \in ToSet(v.tools) /\ seqs[k][a].tenant = slugs[k]
             /\ \A a, b \in DOMAIN seqs[k] : a < b => Precedes(Rank(seqs[k][a]), Rank(seqs[k][b]))
  <2>1. v.tools \in Seq(Tool) /\ NoCollision(v.tools)
    BY DEF Serving
  <2> DEFINE t == slugs[k]
             own == ToolsForTenant(v.tools, t)
  <2>2. /\ own \in Seq(Tool)
        /\ \A a \in DOMAIN own : own[a] \in ToSet(v.tools) /\ own[a].tenant = t
        /\ \A a, b \in DOMAIN own : a < b => Precedes(Rank(own[a]), Rank(own[b]))
    <3> HIDE DEF t
    <3> QED BY <2>1, ToolsForTenantProperties
  <2>3. \A a \in DOMAIN own : own[a] \in Tool
    <3> HIDE DEF own
    <3> QED BY <2>2, SeqElements
  <2>4. seqs[k] = own
    <3> HIDE DEF seqs, slugs
    <3> QED BY <1>2
  <2> HIDE DEF own, seqs, slugs
  <2> QED
    BY <2>2, <2>3, <2>4 DEF t
<1>4. seqs \in Seq(Seq(Tool))
  <2>1. seqs \in [1..Len(slugs) -> Seq(Tool)]
    <3> HIDE DEF slugs
    <3> QED BY <1>1, <1>2, <1>3
  <2> HIDE DEF seqs, slugs
  <2> QED BY <1>1, <2>1
<1>5. /\ tools \in Seq(Tool)
      /\ \A e : e \in ToSet(tools) <=> \E i \in DOMAIN seqs : e \in ToSet(seqs[i])
      /\ \A x, y \in DOMAIN tools : x < y =>
           \E i, j \in DOMAIN seqs : \E a \in DOMAIN seqs[i], b \in DOMAIN seqs[j] :
              /\ tools[x] = seqs[i][a] /\ tools[y] = seqs[j][b]
              /\ i < j \/ (i = j /\ a < b)
  <2> HIDE DEF seqs
  <2> QED BY <1>4, FlattenSeqProperties
<1>6. ASSUME NEW x \in DOMAIN tools, NEW y \in DOMAIN tools, x < y PROVE Ahead(tools[x], tools[y])
  <2> HIDE DEF seqs, tools, slugs
  <2>1. PICK i \in DOMAIN seqs, j \in DOMAIN seqs : \E a \in DOMAIN seqs[i], b \in DOMAIN seqs[j] :
              /\ tools[x] = seqs[i][a] /\ tools[y] = seqs[j][b]
              /\ i < j \/ (i = j /\ a < b)
    BY <1>5, <1>6
  <2>2. PICK a \in DOMAIN seqs[i], b \in DOMAIN seqs[j] :
              /\ tools[x] = seqs[i][a] /\ tools[y] = seqs[j][b]
              /\ i < j \/ (i = j /\ a < b)
    BY <2>1
  <2>3. tools[x].tenant = slugs[i] /\ tools[y].tenant = slugs[j] /\ i \in DOMAIN slugs /\ j \in DOMAIN slugs
    BY <1>2, <1>3, <2>2
  <2>4. CASE i < j
    BY <1>1, <2>3, <2>4 DEF Ahead
  <2>5. CASE i = j /\ a < b
    BY <1>2, <1>3, <2>2, <2>3, <2>5 DEF Ahead
  <2> QED
    BY <2>2, <2>4, <2>5
<1>7. ASSUME NEW x \in DOMAIN tools PROVE tools[x] \in Tool /\ tools[x] \in ToSet(v.tools) /\ x \in Nat
  <2> HIDE DEF seqs, tools, slugs
  <2>1. tools[x] \in Tool /\ x \in Nat
    BY <1>5, SeqElements
  <2>2. PICK i \in DOMAIN seqs : tools[x] \in ToSet(seqs[i])
    BY <1>5 DEF ToSet
  <2> QED
    BY <1>2, <1>3, <2>1, <2>2 DEF ToSet
<1>8. seen \in SUBSET Nat /\ IsFiniteSet(seen)
  <2>1. DOMAIN tools = 1..Len(tools) /\ Len(tools) \in Nat
    <3> HIDE DEF tools
    <3> QED BY <1>5, SeqElements
  <2>2. seen \in SUBSET (1..Len(tools)) /\ IsFiniteSet(1..Len(tools))
    <3> HIDE DEF tools, may
    <3> QED BY <2>1, FS_Interval
  <2>3. \A i \in 1..Len(tools) : i \in Nat
    OBVIOUS
  <2> HIDE DEF seen, tools
  <2>4. IsFiniteSet(seen)
    BY <2>2, FS_Subset
  <2> QED BY <2>2, <2>3, <2>4
<1>9. /\ \A k \in DOMAIN shown : k \in Nat /\ shown[k] \in seen
      /\ \A k, m \in DOMAIN shown : k < m => shown[k] < shown[m]
  <2> HIDE DEF seen
  <2>1. shown \in Seq(seen) /\ \A k, m \in DOMAIN shown : k < m => shown[k] < shown[m]
    BY <1>8, AscendingProperties
  <2> HIDE DEF shown
  <2> QED BY <2>1, SeqElements
<1>10. \A k \in DOMAIN shown : shown[k] \in DOMAIN tools
  <2> HIDE DEF shown, tools, may
  <2> QED BY <1>9
<1>11. ASSUME NEW i \in DOMAIN shown
       PROVE  /\ i \in Nat
              /\ listed[i].tool = tools[shown[i]]
              /\ listed[i].tool \in Tool /\ listed[i].tool \in ToSet(v.tools)
              /\ listed[i].name = DisplayName(p, listed[i].tool)
              /\ listed[i].scope = Scope(v, listed[i].tool)
              /\ listed[i].callable <=> Allows(p.grants, RoleCatalog, "tool:call", listed[i].scope)
  <2> DEFINE e == tools[shown[i]]
  <2>1. e \in Tool /\ e \in ToSet(v.tools) /\ i \in Nat
    <3> HIDE DEF shown, tools
    <3> QED BY <1>7, <1>9, <1>10
  <2>2. listed[i] = entry(e)
    <3> HIDE DEF shown, tools, entry
    <3> QED OBVIOUS
  <2>3. /\ entry(e).tool = e /\ entry(e).name = DisplayName(p, e) /\ entry(e).scope = Scope(v, e)
        /\ entry(e).callable <=> Allows(p.grants, RoleCatalog, "tool:call", entry(e).scope)
    <3> HIDE DEF e
    <3> QED OBVIOUS
  <2> HIDE DEF listed, entry
  <2> QED
    BY <2>1, <2>2, <2>3
<1>12. ASSUME NEW i \in DOMAIN shown, NEW j \in DOMAIN shown, i < j
       PROVE  Ahead(listed[i].tool, listed[j].tool)
  <2> HIDE DEF listed, shown, tools
  <2> QED BY <1>6, <1>9, <1>10, <1>11, <1>12
<1>13. Listed(v, p) = listed /\ DOMAIN listed = DOMAIN shown
  BY DEF Listed
<1> HIDE DEF listed, shown
<1> QED
  BY <1>11, <1>12, <1>13

-----------------------------------------------------------------------------
(* What catalogs that follow one another share *)

(* Two listings put the tools they share in the same order.                   *)
LEMMA ListingsKeep ==
    ASSUME NEW v, Serving(v), NEW w, Serving(w), NEW p, NEW q, GrantedMore(p, q)
    PROVE  Keeps(Listed(v, p), Listed(w, q))
<1> DEFINE before == Listed(v, p)
           after == Listed(w, q)
           Same(i, k) == after[k].tool.tenant = before[i].tool.tenant
                         /\ Rank(after[k].tool) = Rank(before[i].tool)
<1>1. /\ \A i \in DOMAIN before :
           /\ i \in Nat
           /\ before[i].tool \in Tool
           /\ before[i].name = DisplayName(p, before[i].tool)
           /\ before[i].scope = Scope(v, before[i].tool)
           /\ before[i].callable <=> Allows(p.grants, RoleCatalog, "tool:call", before[i].scope)
      /\ \A i, j \in DOMAIN before : i < j => Ahead(before[i].tool, before[j].tool)
  BY ListedProperties
<1>2. /\ \A i \in DOMAIN after :
           /\ i \in Nat
           /\ after[i].tool \in Tool
           /\ after[i].name = DisplayName(q, after[i].tool)
           /\ after[i].scope = Scope(w, after[i].tool)
           /\ after[i].callable <=> Allows(q.grants, RoleCatalog, "tool:call", after[i].scope)
      /\ \A i, j \in DOMAIN after : i < j => Ahead(after[i].tool, after[j].tool)
  BY ListedProperties
<1> HIDE DEF before, after
<1>3. ASSUME NEW i \in DOMAIN before, NEW j \in DOMAIN before, i < j,
             NEW k \in DOMAIN after, NEW m \in DOMAIN after, Same(i, k), Same(j, m)
      PROVE  k < m
  <2>1. Ahead(before[i].tool, before[j].tool)
    BY <1>1, <1>3
  <2>2. Ahead(after[k].tool, after[m].tool)
    BY <1>3, <2>1 DEF Ahead
  <2>3. ~Ahead(after[m].tool, after[k].tool)
    BY <1>2, <2>2, AheadIsStrict
  <2>4. k # m
    BY <2>2, <2>3
  <2> QED
    BY <1>2, <2>3, <2>4
<1>4. ASSUME NEW i \in DOMAIN before, NEW k \in DOMAIN after, Same(i, k)
      PROVE  after[k].name = before[i].name
  <2>1. after[k].tool.prefix = before[i].tool.prefix /\ after[k].tool.name = before[i].tool.name
    BY <1>4 DEF Rank
  <2>2. p.spans = q.spans
    BY DEF GrantedMore
  <2> QED
    BY <1>1, <1>2, <1>4, <2>1, <2>2 DEF DisplayName
<1>5. ASSUME NEW i \in DOMAIN before, NEW k \in DOMAIN after, before[i].callable, after[k].scope = before[i].scope
      PROVE  after[k].callable
  <2>1. Allows(p.grants, RoleCatalog, "tool:call", before[i].scope)
    BY <1>1, <1>5
  <2>2. Allows(q.grants, RoleCatalog, "tool:call", before[i].scope)
    BY <2>1 DEF Allows, GrantedMore
  <2> QED
    BY <1>2, <1>5, <2>2
<1>6. Keeps(before, after)
  BY <1>3, <1>4, <1>5 DEF Keeps
<1> QED
  BY <1>6 DEF before, after

LEMMA LeastOfMore ==
    ASSUME NEW S \in SUBSET Nat, S # {}, NEW T \in SUBSET Nat, S \subseteq T
    PROVE  Min(T) <= Min(S)
<1>1. ASSUME NEW U \in SUBSET Nat, U # {} PROVE Min(U) \in U /\ \A x \in U : Min(U) <= x
  <2>1. \E m \in U : \A x \in U : m <= x
    BY <1>1, Least
  <2> QED
    BY <2>1 DEF Min
<1>2. Min(S) \in S /\ \A x \in T : Min(T) <= x
  BY <1>1
<1> QED
  BY <1>2

(* The more toolsets contribute, the shorter a catalog may be cached.         *)
LEMMA ToolsetsShortenTTLs ==
    ASSUME NEW d \in Documents, NEW C \in SUBSET DOMAIN d.toolsets, NEW D \in SUBSET DOMAIN d.toolsets,
           C \subseteq D
    PROVE  TTL(d, D) <= TTL(d, C)
<1> DEFINE rules == UNION {ToSet(d.policies[policy]) : policy \in DOMAIN d.policies}
           ttls(E) == {d.ttl} \cup (({d.toolsets[ts].ttl : ts \in E} \cup {rule.maxTtl : rule \in rules}) \ {0})
<1>1. d.ttl \in Nat /\ \A ts \in DOMAIN d.toolsets : d.toolsets[ts].ttl \in Nat
  BY DocumentsAssumption DEF Parsed, ToolsetSpec
<1>2. \A rule \in rules : rule.maxTtl \in Nat
  <2>1. ASSUME NEW policy \in DOMAIN d.policies, NEW k \in DOMAIN d.policies[policy]
        PROVE  d.policies[policy][k].maxTtl \in Nat
    <3>1. d.policies[policy] \in Seq(PolicyRuleSpec)
      BY DocumentsAssumption DEF Parsed
    <3>2. d.policies[policy][k] \in PolicyRuleSpec
      BY <3>1, SeqElements
    <3> QED
      BY <3>2 DEF PolicyRuleSpec
  <2> QED
    BY <2>1 DEF ToSet
<1>3. ttls(C) \in SUBSET Nat /\ ttls(D) \in SUBSET Nat /\ ttls(C) # {} /\ ttls(C) \subseteq ttls(D)
  <2> HIDE DEF rules
  <2> QED BY <1>1, <1>2
<1>4. TTL(d, C) = Min(ttls(C)) /\ TTL(d, D) = Min(ttls(D))
  BY DEF TTL
<1> HIDE DEF ttls
<1> QED
  BY <1>3, <1>4, LeastOfMore

(* No two plugins patch at one hook with one priority.                        *)
LEMMA OnePatchPerSlot ==
    ASSUME NEW d, PatchOrderSpecified(d),
           NEW i \in DOMAIN d.plugins, NEW j \in DOMAIN d.plugins,
           d.plugins[i].writes, d.plugins[j].writes, d.plugins[i].priority = d.plugins[j].priority,
           NEW a \in DOMAIN d.plugins[i].hooks, NEW b \in DOMAIN d.plugins[j].hooks,
           d.plugins[i].hooks[a] = d.plugins[j].hooks[b]
    PROVE  i = j /\ a = b
<1> DEFINE patching == {x \in DOMAIN d.plugins : d.plugins[x].writes}
           slots == UNION {{x} \X DOMAIN d.plugins[x].hooks : x \in patching}
           at(slot) == <<d.plugins[slot[1]].hooks[slot[2]], d.plugins[slot[1]].priority>>
<1>1. <<i, a>> \in slots /\ <<j, b>> \in slots
  <2>1. i \in patching /\ j \in patching
    OBVIOUS
  <2>2. <<i, a>> \in {i} \X DOMAIN d.plugins[i].hooks /\ <<j, b>> \in {j} \X DOMAIN d.plugins[j].hooks
    OBVIOUS
  <2> HIDE DEF patching
  <2> QED
    BY <2>1, <2>2
<1>2. at(<<i, a>>) = at(<<j, b>>)
  OBVIOUS
<1>3. \A slot, other \in slots : at(slot) = at(other) => slot = other
  BY DEF PatchOrderSpecified
<1>4. <<i, a>> = <<j, b>>
  <2> HIDE DEF slots, at
  <2> QED BY <1>1, <1>2, <1>3
<1> QED
  BY <1>4

(* The plugins of a hook are sorted by priority, and no two that patch        *)
(* share one.                                                                 *)
LEMMA PluginsForProperties ==
    ASSUME NEW d \in Documents, NEW C, NEW hook
    PROVE  LET r == PluginsFor(d, C, hook) IN
           /\ \A k \in DOMAIN r : k \in Nat /\ r[k].priority \in Int
           /\ \A k, m \in DOMAIN r : k < m => r[k].priority <= r[m].priority
           /\ PatchOrderSpecified(d) =>
                \A k, m \in DOMAIN r :
                   k < m /\ r[k].writes /\ r[m].writes => r[k].priority # r[m].priority
<1> DEFINE naming(g) == IF PluginAppliesTo(g, C) THEN {n \in DOMAIN g.hooks : g.hooks[n] = hook} ELSE {}
           at == [i \in DOMAIN d.plugins |-> Ascending(naming(d.plugins[i]))]
           seqs == [i \in DOMAIN d.plugins |->
                      [n \in DOMAIN Ascending(naming(d.plugins[i])) |-> Manifest(d.plugins[i])]]
           M == {Manifest(g) : g \in PluginSpec}
           all == FlattenSeq(seqs)
           earlier(i, j) == \/ all[i].priority < all[j].priority
                            \/ all[i].priority = all[j].priority /\ i < j
           before == {r \in (DOMAIN all) \X (DOMAIN all) : earlier(r[1], r[2])}
           order == InOrder(DOMAIN all, before)
           r == [k \in DOMAIN order |-> all[order[k]]]
<1>1. /\ DOMAIN d.plugins = 1..Len(d.plugins) /\ Len(d.plugins) \in Nat
      /\ \A i \in DOMAIN d.plugins : i \in Nat /\ d.plugins[i] \in PluginSpec
  <2>1. d.plugins \in Seq(PluginSpec)
    BY DocumentsAssumption DEF Parsed
  <2> QED
    BY <2>1, SeqElements
<1>2. \A e \in M : e.priority \in Int
  BY DEF Manifest, PluginSpec
<1>3. ASSUME NEW i \in DOMAIN d.plugins
      PROVE  /\ at[i] \in Seq(naming(d.plugins[i]))
             /\ \A a, b \in DOMAIN at[i] : a < b => at[i][a] < at[i][b]
             /\ \A a \in DOMAIN at[i] : at[i][a] \in DOMAIN d.plugins[i].hooks
                                        /\ d.plugins[i].hooks[at[i][a]] = hook
             /\ seqs[i] \in Seq(M)
             /\ DOMAIN seqs[i] = DOMAIN at[i]
             /\ \A a \in DOMAIN at[i] : a \in Nat /\ at[i][a] \in Nat /\ seqs[i][a] = Manifest(d.plugins[i])
  <2> DEFINE g == d.plugins[i]
             S == naming(g)
             s == Ascending(S)
  <2>1. g \in PluginSpec
    BY <1>1
  <2>2. /\ DOMAIN g.hooks = 1..Len(g.hooks) /\ Len(g.hooks) \in Nat
        /\ \A n \in DOMAIN g.hooks : n \in Nat
    <3>1. g.hooks \in Seq(STRING)
      BY <2>1 DEF PluginSpec
    <3> HIDE DEF g
    <3> QED BY <3>1, SeqElements
  <2>3. \A n \in S : n \in DOMAIN g.hooks /\ g.hooks[n] = hook
    <3> HIDE DEF g
    <3> QED OBVIOUS
  <2>4. S \in SUBSET Nat /\ IsFiniteSet(S)
    <3> HIDE DEF g, S
    <3>1. S \in SUBSET (1..Len(g.hooks)) /\ IsFiniteSet(1..Len(g.hooks))
      BY <2>2, <2>3, FS_Interval
    <3>2. IsFiniteSet(S)
      BY <3>1, FS_Subset
    <3> QED BY <2>2, <2>3, <3>2
  <2>5. s \in Seq(S) /\ \A a, b \in DOMAIN s : a < b => s[a] < s[b]
    <3> HIDE DEF S
    <3> QED BY <2>4, AscendingProperties
  <2>6. DOMAIN s = 1..Len(s) /\ Len(s) \in Nat /\ \A a \in DOMAIN s : a \in Nat /\ s[a] \in S
    <3> HIDE DEF S, s
    <3> QED BY <2>5, SeqElements
  <2>7. [n \in DOMAIN s |-> Manifest(g)] \in Seq(M)
    <3>1. Manifest(g) \in M
      BY <2>1
    <3> HIDE DEF s, S, g, M
    <3> QED BY <2>6, <3>1
  <2>8. at[i] = s /\ seqs[i] = [n \in DOMAIN s |-> Manifest(g)]
    <3> HIDE DEF naming
    <3> QED OBVIOUS
  <2> HIDE DEF s, S, M, at, seqs
  <2>9. \A a \in DOMAIN s : s[a] \in Nat /\ s[a] \in DOMAIN g.hooks /\ g.hooks[s[a]] = hook
    BY <2>3, <2>4, <2>6
  <2>10. s \in Seq(naming(g))
    BY <2>5 DEF S
  <2> HIDE DEF naming, g
  <2> QED
    BY <2>5, <2>6, <2>7, <2>8, <2>9, <2>10 DEF g
<1>4. seqs \in Seq(Seq(M)) /\ DOMAIN seqs = DOMAIN d.plugins
  <2>1. DOMAIN seqs = DOMAIN d.plugins
    OBVIOUS
  <2>2. seqs \in [1..Len(d.plugins) -> Seq(M)]
    <3> DEFINE one(i) == [n \in DOMAIN Ascending(naming(d.plugins[i])) |-> Manifest(d.plugins[i])]
    <3>1. \A i \in DOMAIN d.plugins : one(i) \in Seq(M)
      <4>1. \A i \in DOMAIN d.plugins : seqs[i] = one(i)
        <5> HIDE DEF naming
        <5> QED OBVIOUS
      <4> HIDE DEF at, seqs, M, one
      <4> QED BY <1>3, <4>1
    <3>2. seqs = [i \in DOMAIN d.plugins |-> one(i)]
      <4> HIDE DEF naming
      <4> QED OBVIOUS
    <3> HIDE DEF at, seqs, M, one
    <3> QED BY <1>1, <3>1, <3>2
  <2> HIDE DEF seqs, M
  <2> QED BY <1>1, <2>1, <2>2
<1>5. /\ all \in Seq(M)
      /\ \A x, y \in DOMAIN all : x < y =>
           \E i, j \in DOMAIN seqs : \E a \in DOMAIN seqs[i], b \in DOMAIN seqs[j] :
              /\ all[x] = seqs[i][a] /\ all[y] = seqs[j][b]
              /\ i < j \/ (i = j /\ a < b)
  <2> HIDE DEF seqs, M
  <2> QED BY <1>4, FlattenSeqProperties
<1>6. /\ DOMAIN all = 1..Len(all) /\ Len(all) \in Nat /\ IsFiniteSet(DOMAIN all)
      /\ \A x \in DOMAIN all : x \in Nat /\ all[x].priority \in Int
  <2> HIDE DEF seqs, M, all
  <2>1. /\ DOMAIN all = 1..Len(all) /\ Len(all) \in Nat
        /\ \A x \in DOMAIN all : x \in Nat /\ all[x] \in M
    BY <1>5, SeqElements
  <2>2. IsFiniteSet(1..Len(all))
    BY <2>1, FS_Interval
  <2> QED BY <1>2, <2>1, <2>2
<1>7. ASSUME PatchOrderSpecified(d), NEW x \in DOMAIN all, NEW y \in DOMAIN all, x < y,
             all[x].writes, all[y].writes, all[x].priority = all[y].priority
      PROVE  FALSE
  <2> HIDE DEF all, seqs, at, naming
  <2>1. PICK i \in DOMAIN seqs, j \in DOMAIN seqs : \E a \in DOMAIN seqs[i], b \in DOMAIN seqs[j] :
              /\ all[x] = seqs[i][a] /\ all[y] = seqs[j][b]
              /\ i < j \/ (i = j /\ a < b)
    BY <1>5, <1>7
  <2>2. PICK a \in DOMAIN seqs[i], b \in DOMAIN seqs[j] :
              /\ all[x] = seqs[i][a] /\ all[y] = seqs[j][b]
              /\ i < j \/ (i = j /\ a < b)
    BY <2>1
  <2>3. /\ i \in DOMAIN d.plugins /\ j \in DOMAIN d.plugins
        /\ a \in DOMAIN at[i] /\ b \in DOMAIN at[j]
    BY <1>3, <1>4
  <2>4. all[x] = Manifest(d.plugins[i]) /\ all[y] = Manifest(d.plugins[j])
    BY <1>3, <2>2, <2>3
  <2>5. d.plugins[i].writes /\ d.plugins[j].writes /\ d.plugins[i].priority = d.plugins[j].priority
    BY <1>7, <2>4 DEF Manifest
  <2> DEFINE u == at[i][a]
             v == at[j][b]
  <2>6. /\ u \in DOMAIN d.plugins[i].hooks /\ v \in DOMAIN d.plugins[j].hooks
        /\ d.plugins[i].hooks[u] = hook /\ d.plugins[j].hooks[v] = hook
    BY <1>3, <2>3
  <2>7. i = j /\ u = v
    <3> HIDE DEF u, v
    <3> QED BY <1>7, <2>3, <2>5, <2>6, OnePatchPerSlot
  <2>8. i \in Nat /\ j \in Nat /\ u \in Nat /\ v \in Nat
    BY <1>1, <1>3, <2>3
  <2>9. i = j /\ a < b
    BY <2>2, <2>7, <2>8
  <2>10. u < v
    BY <1>3, <2>3, <2>9
  <2> QED
    BY <2>7, <2>8, <2>10
<1>8. \A x, y \in DOMAIN all : <<x, y>> \in before <=> earlier(x, y)
  <2> HIDE DEF all, earlier
  <2> QED OBVIOUS
<1>9. /\ order \in Seq(DOMAIN all)
      /\ \A k, m \in DOMAIN order : k < m => <<order[k], order[m]>> \in before
  <2> DEFINE prio(x) == all[x].priority
             In(x, y) == <<x, y>> \in before
  <2>1. \A x, y \in DOMAIN all : In(x, y) <=> prio(x) < prio(y) \/ (prio(x) = prio(y) /\ x < y)
    <3> HIDE DEF all, before
    <3> QED BY <1>8
  <2>2. \A x \in DOMAIN all : prio(x) \in Int /\ x \in Nat
    <3> HIDE DEF all
    <3> QED BY <1>6
  <2>3. /\ \A x \in DOMAIN all : ~In(x, x)
        /\ \A x, y \in DOMAIN all : x # y => In(x, y) \/ In(y, x)
    <3> HIDE DEF all, prio, In
    <3> QED BY <2>1, <2>2
  <2>4. \A x, y, z \in DOMAIN all : In(x, y) /\ In(y, z) => In(x, z)
    <3> HIDE DEF all, prio, In
    <3> QED BY <2>1, <2>2
  <2> HIDE DEF all, before
  <2> QED BY <1>6, <2>3, <2>4, InOrderProperties
<1>10. \A k \in DOMAIN order : k \in Nat /\ order[k] \in DOMAIN all
  <2> HIDE DEF all, order
  <2> QED BY <1>9, SeqElements
<1>11. DOMAIN r = DOMAIN order /\ \A k \in DOMAIN order : r[k] = all[order[k]]
  <2> HIDE DEF all, order
  <2> QED OBVIOUS
<1>12. ASSUME NEW k \in DOMAIN order, NEW m \in DOMAIN order, k < m
       PROVE  earlier(order[k], order[m])
  <2> HIDE DEF all, order, before, earlier
  <2> QED BY <1>8, <1>9, <1>10, <1>12
<1>13. ASSUME NEW k \in DOMAIN order, NEW m \in DOMAIN order, k < m
       PROVE  /\ r[k].priority <= r[m].priority
              /\ r[k].priority = r[m].priority => order[k] < order[m]
  <2> HIDE DEF all, order, r
  <2> QED BY <1>6, <1>10, <1>11, <1>12, <1>13
<1>14. ASSUME PatchOrderSpecified(d), NEW k \in DOMAIN order, NEW m \in DOMAIN order, k < m,
              r[k].writes, r[m].writes, r[k].priority = r[m].priority
       PROVE  FALSE
  <2> HIDE DEF all, order, r
  <2> QED BY <1>7, <1>10, <1>11, <1>13, <1>14
<1>15. PluginsFor(d, C, hook) = r
  BY DEF PluginsFor
<1>16. \A k \in DOMAIN order : r[k].priority \in Int
  <2> HIDE DEF all, order, r
  <2> QED BY <1>6, <1>10, <1>11
<1> HIDE DEF all, order, r
<1> QED
  BY <1>10, <1>11, <1>13, <1>14, <1>15, <1>16

(* Two sortings put the plugins that patch in the same order.                 *)
LEMMA PluginsPatchInOrder ==
    ASSUME NEW d \in Documents, PatchOrderSpecified(d), NEW C, NEW e \in Documents, NEW D, NEW hook
    PROVE  PatchInOrder(PluginsFor(d, C, hook), PluginsFor(e, D, hook))
<1> DEFINE before == PluginsFor(d, C, hook)
           after == PluginsFor(e, D, hook)
<1>1. /\ \A k \in DOMAIN before : k \in Nat /\ before[k].priority \in Int
      /\ \A k, m \in DOMAIN before : k < m => before[k].priority <= before[m].priority
      /\ \A k, m \in DOMAIN before :
            k < m /\ before[k].writes /\ before[m].writes => before[k].priority # before[m].priority
  BY PluginsForProperties
<1>2. /\ \A k \in DOMAIN after : k \in Nat /\ after[k].priority \in Int
      /\ \A k, m \in DOMAIN after : k < m => after[k].priority <= after[m].priority
  BY PluginsForProperties
<1> HIDE DEF before, after
<1>3. ASSUME NEW i \in DOMAIN before, NEW j \in DOMAIN before, i < j, before[i].writes, before[j].writes,
             NEW k \in DOMAIN after, NEW m \in DOMAIN after,
             after[k].priority = before[i].priority, after[m].priority = before[j].priority
      PROVE  k < m
  <2>1. before[i].priority < before[j].priority
    BY <1>1, <1>3
  <2>2. k # m /\ ~(m < k)
    BY <1>2, <1>3, <2>1
  <2> QED
    BY <1>2, <2>2
<1>4. PatchInOrder(before, after)
  BY <1>3 DEF PatchInOrder
<1> QED
  BY <1>4 DEF before, after

-----------------------------------------------------------------------------
(* Every snapshot served is some build's *)

(* What a gateway serves is what some build accepted. *)
AlwaysServing == view = NoView \/ Serving(view)

CatalogServing == CatalogKept /\ AlwaysServing

(* A build that is accepted has one tool per name and one order of patches.   *)
LEMMA PublishServes ==
    ASSUME CatalogKept, Publish
    PROVE  Serving(view')
<1> DEFINE d == build.document
           reports == build.reports
           tools == Admitted(d, reports)
<1>1. /\ d \in Documents /\ Validate(d) /\ tools \in Seq(Tool)
      /\ \A e : e \in ToSet(tools) => /\ e \in Tool
                                      /\ \E i \in DOMAIN d.servers : Served(d, reports, i, e)
  BY ServedIsAdmitted DEF Publish
<1>2. view'.document = d /\ view'.tools = tools /\ view'.tenants = build.tenants
  BY DEF Publish
<1>3. PatchOrderSpecified(d) /\ NoCollision(tools)
  BY DEF Publish, Acceptable, Servable
<1>4. build.tenants \subseteq Tenants
  BY DEF CatalogKept, BuildTyped, Publish, AllDiscovered
<1>5. \A k \in DOMAIN tools : tools[k].toolset \in DOMAIN d.toolsets
  <2> SUFFICES ASSUME NEW k \in DOMAIN tools PROVE tools[k].toolset \in DOMAIN d.toolsets
    OBVIOUS
  <2> DEFINE e == tools[k]
  <2>1. e \in ToSet(tools)
    BY DEF ToSet
  <2>2. PICK i \in DOMAIN d.servers : Served(d, reports, i, e)
    BY <1>1, <2>1
  <2>3. e.toolset \in ToolsetsFor(d, d.servers[i].namespace, <<e.prefix, e.name>>)
    BY <2>2 DEF Served, Offers
  <2> HIDE DEF e, tools, d
  <2>4. \A q, ns : ToolsetsFor(d, ns, q) \subseteq DOMAIN d.toolsets
    BY DEF ToolsetsFor
  <2>5. e.toolset \in DOMAIN d.toolsets
    BY <2>3, <2>4
  <2> QED
    BY <2>5 DEF e
<1> HIDE DEF tools, d
<1> QED
  BY <1>1, <1>2, <1>3, <1>4, <1>5 DEF Serving

LEMMA OnlyPublishingServes ==
    ASSUME CatalogNext, view' # view
    PROVE  Publish
BY DEF CatalogNext, StartBuild, Discover, Refuse, EditDocument, ChangeTenants, Release, Changes

LEMMA CatalogServingKept == CatalogServing /\ [CatalogNext]_catalogVars => CatalogServing'
<1> SUFFICES ASSUME CatalogServing, [CatalogNext]_catalogVars PROVE CatalogServing'
  OBVIOUS
<1>1. CatalogKept'
  BY CatalogNextKept DEF CatalogServing
<1>2. CASE view' = view
  BY <1>1, <1>2 DEF CatalogServing, AlwaysServing, Serving, NoView
<1>3. CASE view' # view
  <2>1. Publish
    BY <1>3, OnlyPublishingServes DEF catalogVars
  <2>2. Serving(view')
    BY <2>1, PublishServes DEF CatalogServing
  <2> QED
    BY <1>1, <2>2 DEF CatalogServing, AlwaysServing
<1> QED
  BY <1>2, <1>3

LEMMA AlwaysCatalogServing == CatalogSpec => []CatalogServing
<1>1. CatalogInit => CatalogServing
  BY CatalogInitKept DEF CatalogInit, CatalogServing, AlwaysServing
<1> QED
  BY <1>1, CatalogServingKept, PTL DEF CatalogSpec

(* Two snapshots, each some build's, compose catalogs that agree on what      *)
(* they share.                                                                *)
LEMMA CatalogsKeepOrder ==
    ASSUME NEW v, Serving(v), NEW w, Serving(w), NEW p, NEW q, GrantedMore(p, q)
    PROVE  /\ Keeps(Compose(v, p).tools, Compose(w, q).tools)
           /\ (/\ v.document = w.document
               /\ Toolsets(Compose(v, p).tools) \subseteq Toolsets(Compose(w, q).tools))
                => Compose(w, q).ttl <= Compose(v, p).ttl
           /\ \A x \in Compose(v, p).plugins, y \in Compose(w, q).plugins :
                x[1] = y[1] => PatchInOrder(x[2], y[2])
<1> DEFINE C == Toolsets(Listed(v, p))
           D == Toolsets(Listed(w, q))
<1>1. ASSUME NEW u, Serving(u), NEW o PROVE Toolsets(Listed(u, o)) \subseteq DOMAIN u.document.toolsets
  <2> SUFFICES ASSUME NEW i \in DOMAIN Listed(u, o)
               PROVE  Listed(u, o)[i].tool.toolset \in DOMAIN u.document.toolsets
    BY DEF Toolsets
  <2>1. Listed(u, o)[i].tool \in ToSet(u.tools)
    BY <1>1, ListedProperties
  <2>2. PICK k \in DOMAIN u.tools : u.tools[k] = Listed(u, o)[i].tool
    BY <2>1 DEF ToSet
  <2> QED
    BY <1>1, <2>2 DEF Serving
<1>2. /\ Compose(v, p).tools = Listed(v, p) /\ Compose(w, q).tools = Listed(w, q)
      /\ Compose(v, p).ttl = TTL(v.document, C) /\ Compose(w, q).ttl = TTL(w.document, D)
      /\ Compose(v, p).plugins = {<<hook, PluginsFor(v.document, C, hook)>> : hook \in Hooks}
      /\ Compose(w, q).plugins = {<<hook, PluginsFor(w.document, D, hook)>> : hook \in Hooks}
  BY DEF Compose
<1>3. C \in SUBSET DOMAIN v.document.toolsets /\ D \in SUBSET DOMAIN w.document.toolsets
  BY <1>1
<1>4. /\ v.document \in Documents /\ PatchOrderSpecified(v.document) /\ w.document \in Documents
  BY DEF Serving
<1>5. Keeps(Listed(v, p), Listed(w, q))
  BY ListingsKeep
<1> HIDE DEF C, D
<1>6. v.document = w.document /\ C \subseteq D => TTL(w.document, D) <= TTL(v.document, C)
  BY <1>3, <1>4, ToolsetsShortenTTLs
<1>7. ASSUME NEW x \in Compose(v, p).plugins, NEW y \in Compose(w, q).plugins, x[1] = y[1]
      PROVE  PatchInOrder(x[2], y[2])
  <2>1. PICK hook \in Hooks : x = <<hook, PluginsFor(v.document, C, hook)>>
    BY <1>2
  <2>2. PICK other \in Hooks : y = <<other, PluginsFor(w.document, D, other)>>
    BY <1>2
  <2>3. hook = other
    BY <1>7, <2>1, <2>2
  <2>4. PatchInOrder(PluginsFor(v.document, C, hook), PluginsFor(w.document, D, hook))
    BY <1>4, PluginsPatchInOrder
  <2> QED
    BY <2>1, <2>2, <2>3, <2>4
<1> QED
  BY <1>2, <1>5, <1>6, <1>7 DEF C, D

(* ADR 0010 and 0027: whatever is published, removed or granted in addition,  *)
(* the tools a principal keeps keep their names and their order, no call in a *)
(* scope it had is taken from it, and plugins patch in one order.             *)
THEOREM CatalogsStayInOrder == CatalogSpec => CatalogsKeepTheirOrder
<1> DEFINE Ordered ==
      view # NoView =>
         \A was \in {[p \in Principals |-> Compose(view, p)]},
            now \in {[p \in Principals |-> Compose(view', p)]} :
             \A p, q \in Principals :
                 GrantedMore(p, q) =>
                     /\ Keeps(was[p].tools, now[q].tools)
                     /\ (/\ view.document = view'.document
                         /\ Toolsets(was[p].tools) \subseteq Toolsets(now[q].tools))
                          => now[q].ttl <= was[p].ttl
                     /\ \A x \in was[p].plugins, y \in now[q].plugins :
                          x[1] = y[1] => PatchInOrder(x[2], y[2])
<1>1. ASSUME CatalogServing, [CatalogNext]_catalogVars PROVE [Ordered]_view
  <2> SUFFICES ASSUME view' # view, view # NoView,
                      NEW was \in {[p \in Principals |-> Compose(view, p)]},
                      NEW now \in {[p \in Principals |-> Compose(view', p)]},
                      NEW p \in Principals, NEW q \in Principals, GrantedMore(p, q)
               PROVE  /\ Keeps(was[p].tools, now[q].tools)
                      /\ (/\ view.document = view'.document
                          /\ Toolsets(was[p].tools) \subseteq Toolsets(now[q].tools))
                           => now[q].ttl <= was[p].ttl
                      /\ \A x \in was[p].plugins, y \in now[q].plugins :
                           x[1] = y[1] => PatchInOrder(x[2], y[2])
    OBVIOUS
  <2>1. Publish
    BY <1>1, OnlyPublishingServes DEF catalogVars
  <2>2. Serving(view) /\ Serving(view')
    BY <1>1, <2>1, PublishServes DEF CatalogServing, AlwaysServing
  <2>3. was[p] = Compose(view, p) /\ now[q] = Compose(view', q)
    OBVIOUS
  <2> HIDE DEF Ordered
  <2> QED
    BY <2>2, <2>3, CatalogsKeepOrder
<1>2. CatalogServing /\ [CatalogNext]_catalogVars => [Ordered]_view
  BY <1>1
<1> QED
  BY <1>2, AlwaysCatalogServing, PTL DEF CatalogSpec, CatalogsKeepTheirOrder

=============================================================================
