-------------------------------- MODULE Chunk --------------------------------
(***************************************************************************)
(* How an answer is split into events that fit.  A body is a sequence of   *)
(* characters.  The size of an event is that of the body and of the HTML   *)
(* that it renders to; it need not grow with the body, since text may      *)
(* become markup, or a definition that is not shown.  The operators are    *)
(* the steps of Chunk's loops, on a record of its local variables.         *)
(***************************************************************************)
EXTENDS Naturals, Sequences

CONSTANTS
  Char,     \* characters
  Newline,
  Size(_),  \* contentSize: the size of an event with this body
  Budget    \* the size that an event may have (57344 in the code)

Text    == Seq(Char)
Fits(s) == Size(s) <= Budget

\* An event without text is far from the limit.
ASSUME ChunkAssumption == Newline \in Char /\ Fits(<<>>)

\* The local variables of Chunk and of longestFitting, called for its segment.
Locals == [rest    : Text,       \* the lines that are still to be taken
           segment : Text,       \* what is left of the current line
           current : Text,       \* what has been gathered for the next chunk
           chunks  : Seq(Text),
           low : Nat, high : Nat, best : Nat]

Called(body) ==
  [rest |-> body, segment |-> <<>>, current |-> <<>>, chunks |-> <<>>, low |-> 0, high |-> 0, best |-> 0]

NotEmpty(s) == IF s = <<>> THEN <<>> ELSE <<s>>

\* The first line of s, with its newline, has n characters.
FirstLine(s, n) ==
  /\ n \in DOMAIN s /\ (s[n] = Newline \/ n = Len(s))
  /\ \A i \in 1 .. n - 1 : s[i] # Newline

takeLine(c, n) ==
  [c EXCEPT !.segment = SubSeq(c.rest, 1, n), !.rest = SubSeq(c.rest, n + 1, Len(c.rest))]

\* Slip: the result is nothing when no prefix fits.
search_Nothing(c) == [c EXCEPT !.low = 1, !.high = Len(c.segment), !.best = 0]

\* longestFitting looks for a prefix that fits, by bisection: the first character
\* if no other does.
search(c) == [c EXCEPT !.low = 1, !.high = Len(c.segment), !.best = 1]

\* Slip: the search ends at the last prefix it has looked at.
probe_Last(c) ==
  LET mid == (c.low + c.high) \div 2
  IN IF Fits(SubSeq(c.segment, 1, mid)) THEN [c EXCEPT !.best = mid, !.low = mid + 1]
     ELSE [c EXCEPT !.best = mid, !.high = mid - 1]

probe(c) ==
  LET mid == (c.low + c.high) \div 2
  IN IF Fits(SubSeq(c.segment, 1, mid)) THEN [c EXCEPT !.best = mid, !.low = mid + 1]
     ELSE [c EXCEPT !.high = mid - 1]

\* The prefix becomes a chunk; what has been gathered goes first.
cut(c) ==
  [c EXCEPT !.chunks  = Append(@ \o NotEmpty(c.current), SubSeq(c.segment, 1, c.best)),
            !.current = <<>>,
            !.segment = SubSeq(@, c.best + 1, Len(@))]

\* The segment is added to what has been gathered, if that fits; it may be empty.
gather(c) ==
  IF c.current # <<>> /\ ~Fits(c.current \o c.segment)
  THEN [c EXCEPT !.chunks = Append(@, c.current), !.current = c.segment, !.segment = <<>>]
  ELSE [c EXCEPT !.current = @ \o c.segment, !.segment = <<>>]

chunksOf(c) == c.chunks \o NotEmpty(c.current)
=============================================================================
