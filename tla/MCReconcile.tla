---------------------------- MODULE MCReconcile ----------------------------
(* Reconcile with two spaces, one of them within the other, a channel and  *)
(* a direct message, so that the list of rooms has several pages.          *)
EXTENDS Reconcile

CONSTANTS s1, s2, channel, chat
MCSpaces   == {s1, s2}
MCOthers   == {channel, chat}
MCChildren == [r \in MCSpaces \cup MCOthers |-> IF r = s1 THEN {channel, s2} ELSE {}]
=============================================================================
