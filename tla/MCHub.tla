------------------------------- MODULE MCHub -------------------------------
(* Hub on small instances: two connections that may serve the same agents,  *)
(* so that takeovers happen, and queues short enough to be full.           *)
EXTENDS Hub, TLC

\* Connections, jobs and agents are interchangeable; used where only safety is
\* checked.
Symmetry == Permutations(Conns) \cup Permutations(Jobs) \cup Permutations(Agents)
=============================================================================
