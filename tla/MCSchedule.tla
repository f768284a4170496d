----------------------------- MODULE MCSchedule -----------------------------
EXTENDS Schedule

\* The first job's configured cadence is below the floor.
MCJobs == <<"catalog.rebuild", "revocations.publish">>
MCSeed == <<0, 2>>
=============================================================================
