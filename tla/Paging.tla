------------------------------- MODULE Paging -------------------------------
(***************************************************************************)
(* How a running agent reads the conversation before the mention.  Each    *)
(* call of its to the loopback asks for the batch before the last one: the *)
(* daemon keeps the cursor of the job, sends a context request over the    *)
(* websocket, and waits for the answer or for the time limit.  Answers are *)
(* matched to the call that waits for this job, not to the request, and    *)
(* one may come after its call has timed out.  The server's goroutines may *)
(* answer two requests in either order.                                    *)
(*                                                                         *)
(* One job and its room: the daemon keys cursors by the job's token and    *)
(* waiters by the job's id, so jobs do not meet.  The events before the    *)
(* mention are numbered backwards from it, and a token of the homeserver   *)
(* is the number of the last event it has gone past; 0 is no token.        *)
(***************************************************************************)
EXTENDS Naturals, Sequences, FiniteSets

CONSTANTS
  Events,    \* how many events there are before the mention
  Blank,     \* events that have no text, such as redacted ones
  Limit,     \* the server's backfill_limit
  Calls,     \* the context calls of the agent: the bound on their number
  AtOnce,    \* how many calls the agent makes at the same time
  None       \* no call, no frame

ASSUME PagingAssumption ==
  /\ Events \in Nat /\ Limit \in Nat \ {0} /\ AtOnce \in Nat
  /\ Blank \subseteq 1 .. Events
  /\ IsFiniteSet(Calls)

VARIABLES
  known,     \* loopback.jobs has the job's token
  next,      \* localJob.next
  exhausted, \* localJob.exhausted
  waiter,    \* daemon.waiters of the job: the call whose channel is registered
  stage,     \* where each call is
  from,      \* the token each call has read from the cursor
  box,       \* what is in the channel each call waits on
  wire,      \* each call's request, or the answer to it, on its way
  heard,     \* the answers that the agent has read (history)
  hurried,   \* a call was made before the last one ended, or timed out (history)
  hollow     \* a batch without text was read although there were events before it (history)

cursor  == <<known, next, exhausted>>
history == <<heard, hurried, hollow>>
vars    == <<cursor, waiter, stage, from, box, wire, history>>

\* A batch of events: those after number from, up to number upto.
Batch(f, u) == f + 1 .. u
HasText(f, u) == Batch(f, u) \ Blank # {}

Pages  == [from : 0 .. Events, upto : 0 .. Events, next : 0 .. Events]
Error  == [from |-> Events + 1, upto |-> 0, next |-> 0]
Answer == Pages \cup {Error}
Asking == [ask : 0 .. Events]

ASSUME NoneAssumption == None \notin Calls \cup Asking \cup Answer

TypeOK ==
  /\ known \in BOOLEAN
  /\ next \in 0 .. Events
  /\ exhausted \in BOOLEAN
  /\ waiter \in Calls \cup {None}
  /\ stage \in [Calls -> {"new", "asking", "waiting", "answered", "done"}]
  /\ from \in [Calls -> 0 .. Events]
  /\ box \in [Calls -> Answer \cup {None}]
  /\ wire \in [Calls -> Asking \cup Answer \cup {None}]
  /\ heard \in Seq([from : 0 .. Events, upto : 0 .. Events, last : BOOLEAN])
  /\ Len(heard) <= Cardinality({i \in Calls : stage[i] = "done"})
  /\ hurried \in BOOLEAN
  /\ hollow \in BOOLEAN

Init ==
  /\ known = TRUE
  /\ next = 0
  /\ exhausted = FALSE
  /\ waiter = None
  /\ stage = [i \in Calls |-> "new"]
  /\ from = [i \in Calls |-> 0]
  /\ box = [i \in Calls |-> None]
  /\ wire = [i \in Calls |-> None]
  /\ heard = <<>>
  /\ hurried = FALSE
  /\ hollow = FALSE

Go(i, step) == stage' = [stage EXCEPT ![i] = step]
Busy == {i \in Calls : stage[i] \notin {"new", "done"}}

\* The agent reads a batch.  One without text reads as no earlier messages; it
\* is hollow when there are events before it.
Read(page) ==
  LET text == HasText(page.from, page.upto)
  IN /\ heard' = Append(heard, [from |-> page.from, upto |-> page.upto, last |-> ~text])
     /\ hollow' = (hollow \/ (~text /\ page.upto # Events))
-----------------------------------------------------------------------------
(* handleContext and requestContext.                                       *)

\* The cursor is read, and the call will ask from there.
ReadCursor(i) ==
  /\ stage[i] = "new"
  /\ Cardinality(Busy) < AtOnce
  /\ known /\ ~exhausted
  /\ from' = [from EXCEPT ![i] = next]
  /\ Go(i, "asking")
  /\ hurried' = (hurried \/ Busy # {})
  /\ UNCHANGED <<cursor, waiter, box, wire, heard, hollow>>

\* The walk is over: no earlier messages.
AtTheEnd(i) ==
  /\ stage[i] = "new"
  /\ known /\ exhausted
  /\ heard' = Append(heard, [from |-> 0, upto |-> 0, last |-> TRUE])
  /\ Go(i, "done")
  /\ UNCHANGED <<cursor, waiter, from, box, wire, hurried, hollow>>

\* The token is no longer known: unauthorized.
Unauthorized(i) ==
  /\ stage[i] = "new"
  /\ ~known
  /\ Go(i, "done")
  /\ UNCHANGED <<cursor, waiter, from, box, wire, history>>

\* The channel is registered, in place of any other, and the request is sent.
Ask(i) ==
  /\ stage[i] = "asking"
  /\ waiter' = i
  /\ wire' = [wire EXCEPT ![i] = [ask |-> from[i]]]
  /\ Go(i, "waiting")
  /\ UNCHANGED <<cursor, from, box, history>>

\* An answer is read.  The deferred delete removes the job's waiter, whoever
\* it is by now.  The answer may be an error.
Receive(i) ==
  /\ stage[i] = "waiting"
  /\ box[i] # None
  /\ waiter' = None
  /\ Go(i, IF box[i] = Error THEN "done" ELSE "answered")
  /\ UNCHANGED <<cursor, from, box, wire, history>>

\* contextTimeout has passed; the same delete.
TimeOut(i) ==
  /\ stage[i] = "waiting"
  /\ waiter' = None
  /\ Go(i, "done")
  /\ hurried' = TRUE
  /\ UNCHANGED <<cursor, from, box, wire, heard, hollow>>

\* Slip: a batch shorter than the limit is taken for the last one.
Advance_ShortIsLast(i) ==
  LET page == box[i]
  IN /\ stage[i] = "answered"
     /\ Go(i, "done")
     /\ next' = page.next
     /\ exhausted' = (page.upto - page.from < Limit)
     /\ Read(page)
     /\ UNCHANGED <<known, waiter, from, box, wire, hurried>>

\* Slip: the answer is sent and the cursor stays where it was.
Advance_Stays(i) ==
  LET page == box[i]
  IN /\ stage[i] = "answered"
     /\ Go(i, "done")
     /\ Read(page)
     /\ UNCHANGED <<cursor, waiter, from, box, wire, hurried>>

\* Slip: the call is not over with its answer.
Advance_Again(i) ==
  LET page == box[i]
  IN /\ stage[i] = "answered"
     /\ Read(page)
     /\ UNCHANGED <<cursor, stage, waiter, from, box, wire, hurried>>

\* The cursor moves on, unless the job is over by now, and the agent reads the
\* batch.
Advance(i) ==
  LET page == box[i]
  IN /\ stage[i] = "answered"
     /\ Go(i, "done")
     /\ IF known THEN next' = page.next /\ exhausted' = (page.next = 0)
                 ELSE UNCHANGED <<next, exhausted>>
     /\ Read(page)
     /\ UNCHANGED <<known, waiter, from, box, wire, hurried>>

\* The run is over, and its token is released.
Release ==
  /\ known
  /\ known' = FALSE
  /\ UNCHANGED <<next, exhausted, waiter, stage, from, box, wire, history>>
-----------------------------------------------------------------------------
(* The websocket and the server.                                           *)

\* The batch that the homeserver returns (external): it may be shorter than
\* the limit, or empty, and at the room's beginning there may be no token for
\* another.
BatchEnds(f) == {u \in f .. Events : u <= f + Limit}
Tokens(u) == IF u = Events THEN {u, 0} ELSE {u}

\* onContextRequest: the batch is read and answered, or it cannot be read.  A
\* batch without text ends the walk.
ServerAnswers(i) ==
  /\ wire[i] \in Asking
  /\ LET f == wire[i].ask
     IN \/ \E u \in BatchEnds(f) : \E token \in Tokens(u) :
             wire' = [wire EXCEPT ![i] =
                        [from |-> f, upto |-> u,
                         next |-> IF HasText(f, u) THEN token ELSE 0]]
        \/ wire' = [wire EXCEPT ![i] = Error]
  /\ UNCHANGED <<cursor, waiter, stage, from, box, history>>

\* Slip: the cursor moves on as soon as an answer arrives.
deliver_Advances(i) ==
  /\ wire[i] \in Answer
  /\ wire' = [wire EXCEPT ![i] = None]
  /\ IF waiter # None THEN box' = [box EXCEPT ![waiter] = wire[i]] ELSE UNCHANGED box
  /\ IF wire[i] # Error THEN next' = wire[i].next ELSE UNCHANGED next
  /\ UNCHANGED <<known, exhausted, waiter, stage, from, history>>

\* deliver: the answer goes to the call that waits now, if its channel is empty.
deliver(i) ==
  /\ wire[i] \in Answer
  /\ wire' = [wire EXCEPT ![i] = None]
  /\ IF waiter # None /\ box[waiter] = None
     THEN box' = [box EXCEPT ![waiter] = wire[i]] ELSE UNCHANGED box
  /\ UNCHANGED <<cursor, waiter, stage, from, history>>

\* The frame is dropped by a full queue, lost with the connection, or ignored
\* by a server that has closed the job.
Lose(i) ==
  /\ wire[i] # None
  /\ wire' = [wire EXCEPT ![i] = None]
  /\ UNCHANGED <<cursor, waiter, stage, from, box, history>>
-----------------------------------------------------------------------------
CallNext(i) ==
  \/ ReadCursor(i)
  \/ AtTheEnd(i)
  \/ Unauthorized(i)
  \/ Ask(i)
  \/ Receive(i)
  \/ TimeOut(i)
  \/ Advance(i)
  \/ ServerAnswers(i)
  \/ deliver(i)
  \/ Lose(i)

Next ==
  \/ \E i \in Calls : CallNext(i)
  \/ Release

Spec == Init /\ [][Next]_vars
-----------------------------------------------------------------------------
(* Safety.                                                                 *)

\* Event p is in one of the first k answers.
Told(p, k) == \E m \in 1 .. k : p \in Batch(heard[m].from, heard[m].upto)

\* An answer that comes late, or belongs to another call, may be a repetition,
\* but no batch is ever left out: everything between the mention and the batch
\* the agent reads is in the answers it has read before.
NothingSkipped ==
  \A k \in DOMAIN heard : \A p \in 1 .. heard[k].from : Told(p, k - 1)

\* A page never goes into a channel that nobody reads any more, so that a call
\* that has timed out takes no answer away from the next one.
WaiterWaits == waiter # None => stage[waiter] = "waiting"

\* As long as calls are made one after the other and none times out, each one
\* returns the batch right before the last one: lost and failed requests repeat
\* nothing and skip nothing.
InOrder ==
  \A k \in DOMAIN heard :
    ~heard[k].last => heard[k].from = IF k = 1 THEN 0 ELSE heard[k - 1].upto
WalkInOrder == hurried \/ InOrder

\* When the agent is told that there are no earlier messages, it has read every
\* message before the mention.
EndIsTheStart ==
  \A k \in DOMAIN heard :
    heard[k].last => \A p \in (1 .. Events) \ Blank : Told(p, k)

\* So it is unless a batch without text has ended the walk: a batch that is
\* short, fails, comes late or comes twice does not end it.
EndIsHonest == hollow \/ EndIsTheStart
=============================================================================
