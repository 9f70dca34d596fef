----------------------------- MODULE JobLedger -----------------------------
(***************************************************************************)
(* What the server promises about one dispatched mention, whatever         *)
(* connections come and go.  The mention is taken up once.  A client's     *)
(* answer is posted at most once and never besides a notice.  A notice,    *)
(* that the client disconnected or that the job could not be handed over,  *)
(* is posted at most once each, and both only for a job whose client was   *)
(* lost while the job was being handed to it: first the one, then the      *)
(* other.  Nothing follows an answer, a refusal or the second notice.      *)
(***************************************************************************)
CONSTANT Jobs

VARIABLE fate   \* fate[j]: what the room has been told of mention j

Init == fate = [j \in Jobs |-> "unasked"]

\* The mention is picked up and a job is opened for it.
Open(j) ==
  /\ fate[j] = "unasked"
  /\ fate' = [fate EXCEPT ![j] = "open"]

\* The client that was given the job answers it.
Answer(j) ==
  /\ fate[j] = "open"
  /\ fate' = [fate EXCEPT ![j] = "answered"]

\* No client is there to take the job, or it is gone before the job reaches it.
Refuse(j) ==
  /\ fate[j] \in {"unasked", "open"}
  /\ fate' = [fate EXCEPT ![j] = "refused"]

\* The open jobs of one lost connection are abandoned together.
AbandonAll(J) ==
  /\ \A j \in J : fate[j] = "open"
  /\ fate' = [j \in Jobs |-> IF j \in J THEN "abandoned" ELSE fate[j]]

\* The hand-over of an abandoned job fails, and the room is told again.
RefuseLost(j) ==
  /\ fate[j] = "abandoned"
  /\ fate' = [fate EXCEPT ![j] = "both"]

Next ==
  \/ \E j \in Jobs : Open(j) \/ Answer(j) \/ Refuse(j) \/ RefuseLost(j)
  \/ \E J \in SUBSET Jobs : AbandonAll(J)

Spec == Init /\ [][Next]_fate
=============================================================================
