------------------------------ MODULE Schedule ------------------------------
(***************************************************************************)
(* Timed work as rows (ADR 0026): control-plane replicas register the jobs *)
(* they know, and on every tick read each row's cadence, claim the row if  *)
(* it is due, run the job and record how it went. Operators retune, switch *)
(* off and bring forward what they like meanwhile.                         *)
(*                                                                         *)
(* Time is counted in ticks of five seconds, and next_run_at in the ticks  *)
(* that are left until then.                                               *)
(***************************************************************************)
EXTENDS Naturals, Sequences, FiniteSets

CONSTANTS
    Replicas,   \* control planes on one database
    Jobs,       \* the jobs of the binary, in their order
    Seed,       \* the cadence each job is registered with
    Specs,      \* the cadences operators ask for
    Keep,       \* what leaves a column alone
    MaxErrors   \* bound: statements the database refuses

MinInterval == 1
Job == DOMAIN Jobs
Cadence == {0} \cup Specs \cup {Seed[j] : j \in Job}

ASSUME JobsAssumption == Jobs \in Seq(STRING) /\ Len(Jobs) > 0
ASSUME CadenceAssumption == Seed \in [Job -> Nat] /\ Specs \subseteq Nat
ASSUME MaxErrorsAssumption == MaxErrors \in Nat

VARIABLES
    row,     \* schedules: [present, enabled, spec, error]
    due,     \* next_run_at
    stage,   \* what each replica does next
    job,     \* the job it does it for
    every,   \* the cadence it has read
    ticked,  \* a tick waits in its ticker's channel
    result,  \* the error its run ended with
    errors,
    wanted,  \* history: what operators decided about a row, or its seed
    turn     \* history: ticks left of the turn the last claim took

replica == <<stage, job, every, ticked, result>>
vars == <<row, due, replica, errors, wanted, turn>>

NoRow == [present |-> FALSE, enabled |-> FALSE, spec |-> 0, error |-> "none"]

Init ==
    /\ row = [j \in Job |-> NoRow]
    /\ due = [j \in Job |-> 0]
    /\ stage = [r \in Replicas |-> "down"]
    /\ job = [r \in Replicas |-> 1]
    /\ every = [r \in Replicas |-> 0]
    /\ ticked = [r \in Replicas |-> FALSE]
    /\ result = [r \in Replicas |-> "none"]
    /\ errors = 0
    /\ wanted = [j \in Job |-> [enabled |-> TRUE, spec |-> Seed[j]]]
    /\ turn = [j \in Job |-> 0]

-----------------------------------------------------------------------------
(* A replica: Scheduler.Run, dispatch, runOne.                                *)

Goes(r, to) == stage' = [stage EXCEPT ![r] = to]

(* The loop over the jobs, registering or dispatching. *)
NextJob(r, loop) ==
    /\ job' = [job EXCEPT ![r] = IF job[r] = Len(Jobs) THEN 1 ELSE job[r] + 1]
    /\ Goes(r, IF job[r] = Len(Jobs) THEN "wait" ELSE loop)
    /\ every' = [every EXCEPT ![r] = 0]
    /\ result' = [result EXCEPT ![r] = "none"]

Refused ==
    /\ errors < MaxErrors
    /\ errors' = errors + 1

Boot(r) ==
    /\ stage[r] = "down"
    /\ Goes(r, "register")
    /\ UNCHANGED <<row, due, job, every, ticked, result, errors, wanted, turn>>

Registered_Anew(j) == [present |-> TRUE, enabled |-> TRUE, spec |-> Seed[j], error |-> "none"]

(* ON CONFLICT touches the name alone. *)
Registered(j) ==
    IF row[j].present THEN row[j]
    ELSE [present |-> TRUE, enabled |-> TRUE, spec |-> Seed[j], error |-> "none"]

Register(r) ==
    LET j == job[r] IN
    /\ stage[r] = "register"
    /\ \/ /\ row' = [row EXCEPT ![j] = Registered(j)]
          /\ due' = IF row[j].present THEN due ELSE [due EXCEPT ![j] = 0]
          /\ UNCHANGED errors
       \/ Refused /\ UNCHANGED <<row, due>>
    /\ NextJob(r, "register")
    /\ UNCHANGED <<ticked, wanted, turn>>

Dispatch(r) ==
    /\ stage[r] = "wait" /\ ticked[r]
    /\ ticked' = [ticked EXCEPT ![r] = FALSE]
    /\ Goes(r, "read")
    /\ UNCHANGED <<row, due, job, every, result, errors, wanted, turn>>

(* ParseCadence refuses what is below the floor; a seed is not checked before. *)
Parses(spec) == spec >= MinInterval

RowCadence_Default(j) == Seed[j]

RowCadence(j) == row[j].spec

ReadCadence_Unparsed(r) ==
    LET j == job[r] IN
    /\ stage[r] = "read"
    /\ IF row[j].present /\ row[j].enabled
       THEN /\ every' = [every EXCEPT ![r] = RowCadence(j)]
            /\ Goes(r, "claim")
            /\ UNCHANGED <<job, result>>
       ELSE NextJob(r, "read")
    /\ UNCHANGED <<row, due, ticked, errors, wanted, turn>>

ReadCadence_GivesUp(r) ==
    LET j == job[r] IN
    /\ stage[r] = "read"
    /\ IF row[j].present /\ row[j].enabled /\ Parses(RowCadence(j))
       THEN /\ every' = [every EXCEPT ![r] = RowCadence(j)]
            /\ Goes(r, "claim")
            /\ UNCHANGED <<job, result>>
       ELSE /\ Goes(r, "wait")
            /\ job' = [job EXCEPT ![r] = 1]
            /\ UNCHANGED <<every, result>>
    /\ UNCHANGED <<row, due, ticked, errors, wanted, turn>>

(* Store.Cadence. No row, a row that is off, one that does not parse and a     *)
(* failed read all leave the job for the next tick.                            *)
ReadCadence(r) ==
    LET j == job[r] IN
    /\ stage[r] = "read"
    /\ \/ /\ row[j].present /\ row[j].enabled /\ Parses(RowCadence(j))
          /\ every' = [every EXCEPT ![r] = RowCadence(j)]
          /\ Goes(r, "claim")
          /\ UNCHANGED <<job, result, errors>>
       \/ /\ ~(row[j].present /\ row[j].enabled /\ Parses(RowCadence(j)))
          /\ NextJob(r, "read") /\ UNCHANGED errors
       \/ Refused /\ NextJob(r, "read")
    /\ UNCHANGED <<row, due, ticked, wanted, turn>>

Claimable_AsRead(j) == row[j].present /\ due[j] = 0

(* The WHERE clause of the claim's UPDATE. *)
Claimable(j) == row[j].present /\ row[j].enabled /\ due[j] = 0

ClaimDue_KeepsTheTurn(r) ==
    /\ stage[r] = "claim"
    /\ Claimable(job[r])
    /\ Goes(r, "run")
    /\ UNCHANGED <<row, due, job, every, ticked, result, errors, wanted, turn>>

ClaimDue(r) ==
    LET j == job[r] IN
    /\ stage[r] = "claim"
    /\ Claimable(j)
    /\ due' = [due EXCEPT ![j] = every[r]]
    /\ turn' = [turn EXCEPT ![j] = every[r]]
    /\ Goes(r, "run")
    /\ UNCHANGED <<row, job, every, ticked, result, errors, wanted>>

(* Not due, off, or the statement was refused; a due row that another         *)
(* statement holds (SKIP LOCKED) is left for the next tick as a refused one.   *)
NotClaimed(r) ==
    /\ stage[r] = "claim"
    /\ \/ ~Claimable(job[r]) /\ UNCHANGED errors
       \/ Refused
    /\ NextJob(r, "read")
    /\ UNCHANGED <<row, due, ticked, wanted, turn>>

Run(r) ==
    /\ stage[r] = "run"
    /\ result' \in {[result EXCEPT ![r] = how] : how \in {"none", "failed"}}
    /\ Goes(r, "record")
    /\ UNCHANGED <<row, due, job, every, ticked, errors, wanted, turn>>

(* The last to record is shown, whichever began last. *)
RecordOutcome(r) ==
    /\ stage[r] = "record"
    /\ row' = [row EXCEPT ![job[r]].error = result[r]]
    /\ NextJob(r, "read")
    /\ UNCHANGED <<due, ticked, errors, wanted, turn>>

RecordFails(r) ==
    /\ stage[r] = "record"
    /\ Refused
    /\ NextJob(r, "read")
    /\ UNCHANGED <<row, due, ticked, wanted, turn>>

(* A replica stops anywhere, with a claim it has taken or a run half done. *)
Stop(r) ==
    /\ stage[r] # "down"
    /\ Goes(r, "down")
    /\ job' = [job EXCEPT ![r] = 1]
    /\ every' = [every EXCEPT ![r] = 0]
    /\ ticked' = [ticked EXCEPT ![r] = FALSE]
    /\ result' = [result EXCEPT ![r] = "none"]
    /\ UNCHANGED <<row, due, errors, wanted, turn>>

-----------------------------------------------------------------------------
(* Operators, through whichever replica they reach.                           *)

(* COALESCE: what is not asked for stays as the row has it when it is written. *)
Or(asked, is) == IF asked = Keep THEN is ELSE asked

(* A cadence below the floor is refused. A row is re-armed by any change.      *)
UpdateSchedule(j, spec, enabled) ==
    /\ row[j].present
    /\ spec # Keep \/ enabled # Keep
    /\ spec # Keep => Parses(spec)
    /\ row' = [row EXCEPT ![j].spec = Or(spec, @), ![j].enabled = Or(enabled, @)]
    /\ wanted' = [wanted EXCEPT ![j].spec = Or(spec, @), ![j].enabled = Or(enabled, @)]
    /\ due' = [due EXCEPT ![j] = 0]
    /\ turn' = [turn EXCEPT ![j] = 0]
    /\ UNCHANGED <<replica, errors>>

RunScheduleNow(j) ==
    /\ row[j].present
    /\ due[j] # 0
    /\ due' = [due EXCEPT ![j] = 0]
    /\ turn' = [turn EXCEPT ![j] = 0]
    /\ UNCHANGED <<row, replica, errors, wanted>>

Less(n) == IF n = 0 THEN 0 ELSE n - 1

(* A ticker drops what its reader was too slow for. *)
Tick ==
    /\ due' = [j \in Job |-> Less(due[j])]
    /\ turn' = [j \in Job |-> Less(turn[j])]
    /\ ticked' = [r \in Replicas |-> stage[r] \notin {"down", "register"}]
    /\ <<due, turn, ticked>>' # <<due, turn, ticked>>
    /\ UNCHANGED <<row, stage, job, every, result, errors, wanted>>

Step(r) ==
    \/ Register(r) \/ Dispatch(r) \/ ReadCadence(r) \/ ClaimDue(r) \/ NotClaimed(r)
    \/ Run(r) \/ RecordOutcome(r) \/ RecordFails(r)

Operate ==
    \E j \in Job :
        \/ \E spec \in Specs \cup {Keep}, enabled \in BOOLEAN \cup {Keep} :
             UpdateSchedule(j, spec, enabled)
        \/ RunScheduleNow(j)

Next ==
    \/ \E r \in Replicas : Boot(r) \/ Step(r) \/ Stop(r)
    \/ Operate
    \/ Tick

Spec == Init /\ [][Next]_vars

(* Time passes, statements and jobs return. Neither operators nor replicas    *)
(* have to be there.                                                          *)
Fairness == WF_vars(Tick) /\ \A r \in Replicas : WF_vars(Step(r))

FairSpec == Spec /\ Fairness

-----------------------------------------------------------------------------
(* Properties *)

(* The types; nobody claims with a cadence below the floor, and only a seed    *)
(* can be below it in a row.                                                   *)
TypeOK ==
    /\ row \in [Job -> [present : BOOLEAN, enabled : BOOLEAN, spec : Cadence,
                        error : {"none", "failed"}]]
    /\ due \in [Job -> Nat] /\ turn \in [Job -> Nat]
    /\ stage \in [Replicas -> {"down", "register", "wait", "read", "claim", "run", "record"}]
    /\ job \in [Replicas -> Job] /\ every \in [Replicas -> Cadence]
    /\ ticked \in [Replicas -> BOOLEAN]
    /\ result \in [Replicas -> {"none", "failed"}]
    /\ errors \in 0..MaxErrors
    /\ wanted \in [Job -> [enabled : BOOLEAN, spec : Cadence]]
    /\ \A r \in Replicas : stage[r] \in {"claim", "run", "record"} => Parses(every[r])
    /\ \A j \in Job : row[j].present => Parses(row[j].spec) \/ row[j].spec = Seed[j]

(* However replicas that read the same row race each other and the operators,  *)
(* a run only starts when its turn has come - a cadence after the one before,  *)
(* or at once where an operator asked - and never once the job is switched     *)
(* off: the claim decides, not what was read before it (ADR 0026, "Claiming is *)
(* atomic").                                                                   *)
TurnsAreKept ==
    [][\A r \in Replicas :
         stage[r] # "run" /\ stage'[r] = "run"
            => wanted[job[r]].enabled /\ turn[job[r]] = 0]_vars

(* However many replicas read cadences, race for rows and die with a claim or  *)
(* in a run, the rows make one scheduler of them: a replica that starts a run  *)
(* has taken the due turn of an enabled job and put the next one off in the    *)
(* same step, and nothing else moves next_run_at but time, a job's seeding and *)
(* its operators (Turns; ADR 0026).                                            *)
On == [j \in Job |-> row[j].present /\ row[j].enabled]

Busy == {r \in Replicas : stage[r] \in {"run", "record"}}

Running == {<<r, job[r]>> : r \in Busy}

One == INSTANCE Turns WITH on <- On, left <- due, running <- Running

ReplicasTakeTurns == One!Spec

(* "A cadence somebody retuned, or a schedule they switched off, survives a    *)
(* restart" (ADR 0026), and one change does not undo another.                  *)
TheRowWins ==
    \A j \in Job :
        row[j].present => row[j].spec = wanted[j].spec /\ row[j].enabled = wanted[j].enabled

(* A job that stays switched on at a cadence the scheduler accepts is run and  *)
(* told about for ever, if the replicas that are up in the end stay up,        *)
(* whatever died with a claim before and whatever other row does not parse.    *)
Settles(r) == <>[](stage[r] = "down") \/ <>[](stage[r] # "down")

EnabledJobsRun ==
    \A j \in Job :
        /\ \A r \in Replicas : Settles(r)
        /\ \E r \in Replicas : <>[](stage[r] # "down")
        /\ <>[](row[j].present /\ row[j].enabled /\ Parses(row[j].spec))
        => []<><<\E r \in Replicas : job[r] = j /\ RecordOutcome(r)>>_vars

(* A retuned cadence is in effect without a restart: a claim made with the one *)
(* read before is the last of its kind.                                        *)
CadenceTakesEffect ==
    \A j \in Job, spec \in Specs :
        <>[](row[j].present /\ row[j].spec = spec) => <>[](due[j] <= spec)
=============================================================================
