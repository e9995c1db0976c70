--------------------------- MODULE MCReplication ---------------------------
(* Two jobs that replicate the same source to two destinations.            *)
EXTENDS Replication, TLC

CONSTANTS j1, j2, s1, w1, w2

MCJobs == {j1, j2}
MCSources == {s1}
MCWorkers == {w1, w2}
MCSourceOf == [j \in MCJobs |-> s1]
Symmetry == Permutations(MCJobs) \cup Permutations(MCWorkers)
=============================================================================
