------------------------------ MODULE MCDaemon ------------------------------
(* Daemon with two agents, one of which may not be known; two jobs are for  *)
(* the same agent, so that its lane of depth one can be full.               *)
EXTENDS Daemon, TLC

CONSTANTS a1, a2, j1, j2, j3

TwoLanes == j1 :> a1 @@ j2 :> a1 @@ j3 :> a2
=============================================================================
