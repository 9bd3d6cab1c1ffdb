---------------------------- MODULE MC_WorkerPool ----------------------------
(* Instances of WorkerPool for TLC: the latency policy in steady traffic.    *)
EXTENDS WorkerPool

Equal == [w \in Worker |-> 1]
=============================================================================
