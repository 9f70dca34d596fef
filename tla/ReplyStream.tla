----------------------------- MODULE ReplyStream -----------------------------
(***************************************************************************)
(* What a room sees of an answer: more and more of its text, from the      *)
(* beginning and without gaps, until all of it has been shown or the       *)
(* server has given up; then no more.                                      *)
(***************************************************************************)
EXTENDS Naturals, Sequences

CONSTANTS Jobs

VARIABLES
  text,   \* the whole answer to each job
  shown,  \* what the room has seen of it
  over    \* "no", "complete" or "gave up"

Init == shown = [j \in Jobs |-> <<>>] /\ over = [j \in Jobs |-> "no"]

\* Another part of the text is shown; the server may not hear of it.
Show(j) ==
  /\ over[j] = "no"
  /\ \E n \in Len(shown[j]) + 1 .. Len(text[j]) :
       shown' = [shown EXCEPT ![j] = SubSeq(text[j], 1, n)]
  /\ over' \in {over, [over EXCEPT ![j] = "gave up"]}

\* The server has shown everything, or gives up.
End(j) ==
  /\ over[j] = "no"
  /\ \/ shown[j] = text[j] /\ over' = [over EXCEPT ![j] = "complete"]
     \/ over' = [over EXCEPT ![j] = "gave up"]
  /\ UNCHANGED shown

Next == UNCHANGED text /\ \E j \in Jobs : Show(j) \/ End(j)
Spec == Init /\ [][Next]_<<text, shown, over>>
=============================================================================
