---------------------------- MODULE MCRegistry ----------------------------
(* Registry with two machines after the same names and two requests in      *)
(* flight, and few enough claims to keep the number of reservations small.  *)
EXTENDS Registry, TLC

\* Machines, names, claims and call slots are interchangeable.
Symmetry ==
  Permutations(Machines) \cup Permutations(Names) \cup Permutations(Claims)
    \cup Permutations(Calls)
=============================================================================
