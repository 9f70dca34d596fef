---------------------------- MODULE MCAppservice ----------------------------
(* Appservice with one more transaction than the cache holds, so that ids   *)
(* are forgotten, and two mentions in the first transaction.                *)
EXTENDS Appservice

MCSize == <<2, 1, 1, 1>>
=============================================================================
