-------------------------------- MODULE MCDagster --------------------------------
EXTENDS DagsterMode, TLC

CONSTANTS s1, d1, j1, j2, j3

OneSource == [d \in {d1} |-> s1]
\* Bound: after a crash and an override a document is followed only while it
\* is running or in the sensor's hands.
FewFaults == crashes + overrides <= 1 \/ status[d1] = "running" \/ sensor.id = d1
\* What was asked for is not needed by the properties of this run.
NoHistory == <<rows, s3, chunks, redis, loop, job, counters, overridden, dagster>>
RunSymmetry == Permutations(Jobs)
=============================================================================
