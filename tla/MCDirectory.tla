----------------------------- MODULE MCDirectory -----------------------------
(* Directory with a name that changes hands.                               *)
EXTENDS Directory
=============================================================================
