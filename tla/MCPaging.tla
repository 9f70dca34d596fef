------------------------------ MODULE MCPaging ------------------------------
(* Paging over a few events, one of which has been redacted.                *)
EXTENDS Paging, TLC

Redacted == {2}
\* Calls are interchangeable.
Symmetry == Permutations(Calls)
=============================================================================
