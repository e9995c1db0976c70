------------------------ MODULE MCReplicationFaults ------------------------
(* One job, everything that can happen around its runs.                    *)
EXTENDS Replication

CONSTANTS j1, s1

MCJobs == {j1}
MCSources == {s1}
MCSourceOf == [j \in MCJobs |-> s1]
=============================================================================
