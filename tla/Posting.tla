------------------------------- MODULE Posting -------------------------------
(***************************************************************************)
(* onResult splits an answer and posts it to the room, chunk by chunk, in  *)
(* a goroutine of its own for every result, so that the events of two      *)
(* answers may alternate.  When an event cannot be sent, or in time, the   *)
(* rest is left out; the homeserver may have taken the event all the same. *)
(* The definitions carry the prefix P so that the module can be extended   *)
(* beside the one of the execution that the answer comes from.             *)
(***************************************************************************)
EXTENDS Chunk

CONSTANTS
  Results,    \* the results that are posted to one room
  Bodies(_),  \* what a result may say, without surrounding space
  Notice      \* the text that stands for an empty answer

ASSUME PostingAssumption ==
  /\ \A r \in Results : Bodies(r) \subseteq Text
  /\ Notice \in Text \ {<<>>} /\ Fits(Notice)

VARIABLES
  body,    \* the answers
  call,    \* the local variables of Chunk, for each answer
  chunks,  \* what is left to post of an answer
  at,      \* how far onResult has come
  room,    \* the room's events
  shown    \* the text that the room has seen of each answer (history)

pvars == <<body, call, chunks, at, room, shown>>

Event     == [of : Results, text : Text \ {<<>>}]
Splitting == {"lines", "segment", "search"}

PTypeOK ==
  /\ body \in [Results -> Text]
  /\ call \in [Results -> Locals]
  /\ chunks \in [Results -> Seq(Text \ {<<>>})]
  /\ at \in [Results -> Splitting \cup {"new", "posting", "complete", "gave up"}]
  /\ room \in Seq(Event)
  /\ shown \in [Results -> Text]

PInit ==
  /\ \E b \in [Results -> UNION {Bodies(r) : r \in Results}] :
       body = b /\ \A r \in Results : b[r] \in Bodies(r)
  /\ call = [r \in Results |-> Called(<<>>)] /\ chunks = [r \in Results |-> <<>>]
  /\ at = [r \in Results |-> "new"]
  /\ room = <<>> /\ shown = [r \in Results |-> <<>>]

Goto(r, label) == at' = [at EXCEPT ![r] = label]
Become(r, c)   == call' = [call EXCEPT ![r] = c]

\* Chunk has returned; an answer without text is replaced by a notice.
Post(r, cs) ==
  /\ chunks' = [chunks EXCEPT ![r] = IF cs = <<>> THEN <<Notice>> ELSE cs]
  /\ Goto(r, "posting")
  /\ UNCHANGED <<body, room, shown>>
-----------------------------------------------------------------------------
(* Chunk.                                                                  *)

\* Nothing has to be split.
Short(r) ==
  /\ at[r] = "new" /\ Fits(body[r])
  /\ Post(r, NotEmpty(body[r]))
  /\ UNCHANGED call

Long(r) ==
  /\ at[r] = "new" /\ ~Fits(body[r])
  /\ Become(r, Called(body[r])) /\ Goto(r, "lines")
  /\ UNCHANGED <<body, chunks, room, shown>>

NextLine(r) ==
  /\ at[r] = "lines"
  /\ \E n \in 1 .. Len(call[r].rest) :
       FirstLine(call[r].rest, n) /\ Become(r, takeLine(call[r], n))
  /\ Goto(r, "segment")
  /\ UNCHANGED <<body, chunks, room, shown>>

Search(r) ==
  /\ at[r] = "segment" /\ ~Fits(call[r].segment)
  /\ Become(r, search(call[r])) /\ Goto(r, "search")
  /\ UNCHANGED <<body, chunks, room, shown>>

Probe(r) ==
  /\ at[r] = "search" /\ call[r].low <= call[r].high
  /\ Become(r, probe(call[r]))
  /\ UNCHANGED <<body, chunks, at, room, shown>>

Cut(r) ==
  /\ at[r] = "search" /\ call[r].low > call[r].high
  /\ Become(r, cut(call[r])) /\ Goto(r, "segment")
  /\ UNCHANGED <<body, chunks, room, shown>>

Gather(r) ==
  /\ at[r] = "segment" /\ Fits(call[r].segment)
  /\ Become(r, gather(call[r])) /\ Goto(r, "lines")
  /\ UNCHANGED <<body, chunks, room, shown>>

Finish(r) ==
  /\ at[r] = "lines" /\ call[r].rest = <<>>
  /\ Post(r, chunksOf(call[r])) /\ Become(r, Called(<<>>))
-----------------------------------------------------------------------------
(* Posting.                                                                *)

\* The homeserver adds an event to the room.
Take(r, text) ==
  /\ room'  = Append(room, [of |-> r, text |-> text])
  /\ shown' = [shown EXCEPT ![r] = @ \o text]

\* Slip: a chunk that cannot be sent is left out, and the next one is sent.
Send_Skips(r) ==
  /\ at[r] = "posting" /\ chunks[r] # <<>>
  /\ Take(r, Head(chunks[r])) \/ UNCHANGED <<room, shown>>
  /\ chunks' = [chunks EXCEPT ![r] = Tail(@)]
  /\ UNCHANGED <<body, call, at>>

\* The next chunk is sent.
Send(r) ==
  /\ at[r] = "posting" /\ chunks[r] # <<>>
  /\ Take(r, Head(chunks[r])) /\ chunks' = [chunks EXCEPT ![r] = Tail(@)]
  /\ UNCHANGED <<body, call, at>>

\* Sending fails, or seems to, and nothing more is sent.
GiveUp(r) ==
  /\ at[r] = "posting" /\ chunks[r] # <<>>
  /\ Take(r, Head(chunks[r])) \/ UNCHANGED <<room, shown>>
  /\ Goto(r, "gave up")
  /\ UNCHANGED <<body, call, chunks>>

\* All chunks have been sent.
Replied(r) ==
  /\ at[r] = "posting" /\ chunks[r] = <<>>
  /\ Goto(r, "complete")
  /\ UNCHANGED <<body, call, chunks, room, shown>>

Chunking(r) ==
  \/ Short(r) \/ Long(r)
  \/ NextLine(r) \/ Search(r) \/ Probe(r) \/ Cut(r) \/ Gather(r) \/ Finish(r)
onResult(r) == Chunking(r) \/ Send(r) \/ GiveUp(r) \/ Replied(r)

PNext == \E r \in Results : onResult(r)
PSpec == PInit /\ [][PNext]_pvars

-----------------------------------------------------------------------------
(* Properties.                                                             *)

\* No event is too large for the homeserver, unless it is a single character,
\* although a longer prefix of a line may be the smaller event; and none is empty.
EventsFit ==
  \A i \in DOMAIN room : room[i].text # <<>> /\ (Fits(room[i].text) \/ Len(room[i].text) = 1)

\* The events of each answer, taken together, are its text from the beginning,
\* without a gap or a change of order, and all of it when the server says so,
\* however the sizes of the parts compare and whatever is posted in between.
Answer(r) == IF body[r] = <<>> THEN Notice ELSE body[r]
Stream == INSTANCE ReplyStream WITH
  Jobs  <- Results,
  text  <- [r \in Results |-> Answer(r)],
  shown <- shown,
  over  <- [r \in Results |-> IF at[r] \in {"complete", "gave up"} THEN at[r] ELSE "no"]
StreamSpec == Stream!Spec

\* The loops of Chunk and longestFitting end: every step takes a line, cuts one,
\* or narrows a search, also when not even one character fits.
Smaller(r) ==
  LET c   == call[r]
      new == call'[r]
  IN \/ Len(new.rest) < Len(c.rest)
     \/ new.rest = c.rest /\ Len(new.segment) < Len(c.segment)
     \/ new.rest = c.rest /\ new.segment = c.segment /\ at[r] = "segment" /\ at'[r] # "segment"
     \/ /\ new.rest = c.rest /\ new.segment = c.segment
        /\ at[r] = "search" /\ at'[r] = "search"
        /\ new.low <= new.high + 1 /\ new.high + c.low < c.high + new.low
     \/ at'[r] = "posting"
LoopsEnd == [][\A r \in Results : at[r] \in Splitting /\ ~UNCHANGED <<at[r], call[r]>> => Smaller(r)]_pvars
=============================================================================
