-------------------------------- MODULE Turns --------------------------------
(***************************************************************************)
(* What the scheduler promises of timed work (internal/controlplane/       *)
(* scheduler, ADR 0026), whatever number of replicas share it: a run takes *)
(* the turn of a job in one step and the next turn is some time off, only  *)
(* a job's seeding and its operators make a turn due before its time, and  *)
(* nobody takes the turn of a job that is switched off.                    *)
(***************************************************************************)
EXTENDS Naturals

CONSTANTS Replicas, Job

VARIABLES
    on,        \* the job is there and switched on
    left,      \* ticks until its turn
    running    \* set of <<replica, job>>

turns == <<on, left, running>>

Init ==
    /\ on = [j \in Job |-> FALSE] /\ left = [j \in Job |-> 0]
    /\ running = {}

(* The job is seeded, or an operator changes it or hurries it. *)
Arm(j) ==
    /\ on'[j] \in BOOLEAN /\ on' = [on EXCEPT ![j] = on'[j]]
    /\ left' = [left EXCEPT ![j] = 0]
    /\ UNCHANGED running

Busy(r) == \E j \in Job : <<r, j>> \in running

Take(r, j) ==
    /\ on[j] /\ left[j] = 0 /\ ~Busy(r)
    /\ left'[j] \in Nat \ {0} /\ left' = [left EXCEPT ![j] = left'[j]]
    /\ running' = running \cup {<<r, j>>}
    /\ UNCHANGED on

(* The run ends, or the replica dies in it. *)
Finish(r, j) ==
    /\ running' = running \ {<<r, j>>}
    /\ UNCHANGED <<on, left>>

Pass ==
    /\ left' = [j \in Job |-> IF left[j] = 0 THEN 0 ELSE left[j] - 1]
    /\ UNCHANGED <<on, running>>

Next ==
    \/ Pass
    \/ \E j \in Job : Arm(j) \/ \E r \in Replicas : Take(r, j) \/ Finish(r, j)

Spec == Init /\ [][Next]_turns
=============================================================================
