------------------------------ MODULE MCRunner ------------------------------
(* Runner with an agent's jobs one after another; the processes of one may   *)
(* be alive during the next.                                               *)
EXTENDS Runner
=============================================================================
