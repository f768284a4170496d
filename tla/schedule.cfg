\* Two replicas and two jobs, retuned and switched on and off without end.
SPECIFICATION FairSpec
CONSTANTS
    Replicas = {r1, r2}
    Jobs <- MCJobs
    Seed <- MCSeed
    Specs = {1}
    Keep = keep
    MaxErrors = 1
INVARIANTS
    TypeOK
    TheRowWins
PROPERTIES
    TurnsAreKept
    ReplicasTakeTurns
    EnabledJobsRun
    CadenceTakesEffect
