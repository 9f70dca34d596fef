----------------------------- MODULE MCPosting -----------------------------
(* Posting with every body up to MaxLen for one result and two for another, *)
(* and a size that shrinks when a line becomes a definition.               *)
EXTENDS Posting, FiniteSets

CONSTANTS a, d, w, nl, r1, r2, MaxLen

\* No newline comes first or last: space around an answer is trimmed.
Trimmed(s)  == s = <<>> \/ nl \notin {s[1], s[Len(s)]}
MCBodies(r) ==
  IF r = r1 THEN {s \in UNION {[1 .. n -> Char] : n \in 0 .. MaxLen} : Trimmed(s)}
  ELSE {<<>>, <<a, nl, a>>}
MCNotice == <<a>>

\* A character counts once in the body and twice in the HTML, a wide one more;
\* a line of two d and nothing else is a definition, which renders to nothing.
Bounds(s)  == {0, Len(s) + 1} \cup {i \in DOMAIN s : s[i] = nl}
Defines(s) == {i \in DOMAIN s : {i - 1, i + 2} \subseteq Bounds(s) /\ s[i] = d /\ s[i + 1] = d}
Hidden(s)  == DOMAIN s \cap UNION {i .. i + 2 : i \in Defines(s)}
MCSize(s)  ==
  Len(s) + 2 * Cardinality(DOMAIN s \ Hidden(s)) + (IF \E i \in DOMAIN s : s[i] = w THEN 9 ELSE 0)
=============================================================================
