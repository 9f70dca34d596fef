----------------------------- MODULE Appservice -----------------------------
(***************************************************************************)
(* The homeserver pushes transactions, and the server dispatches the       *)
(* mentions in them.  The homeserver (external) sends transactions one     *)
(* after the other and sends one again until it is acknowledged.  The      *)
(* server remembers the ids of the last transactions it was sent, takes    *)
(* one it remembers for a duplicate, and acknowledges it at once.  An      *)
(* attempt the homeserver has given up goes on being handled, or arrives   *)
(* late.  What is remembered is lost when the server restarts.             *)
(***************************************************************************)
EXTENDS Integers, Sequences, FiniteSets

CONSTANTS
  Size,         \* Size[t]: the number of mentions in transaction t
  Requests,     \* slots for HTTP requests: the bound on attempts under way
  NoRequest,
  Limit,        \* txnCacheLimit (1024 in the code)
  Lag,          \* how many transactions a late attempt can be behind (assumed)
  MaxRestarts,  \* bound on server restarts
  MaxTroubles   \* bound on attempts given up by the homeserver or cut off

Txns     == DOMAIN Size
Mentions == {x \in Txns \X (1 .. 2) : x[2] <= Size[x[1]]}

\* Half the cache outlasts the lateness of any attempt.
ASSUME AppserviceAssumption ==
  /\ Size \in Seq(1 .. 2)
  /\ NoRequest \notin Requests
  /\ Limit \in Nat \ {0} /\ Lag \in Nat /\ 2 * Lag < Limit
  /\ MaxRestarts \in Nat /\ MaxTroubles \in Nat

VARIABLES
  next,      \* the homeserver's first unacknowledged transaction
  waiting,   \* the request whose response the homeserver is waiting for
  at,        \* where each request is
  txn,       \* the transaction that a request carries
  todo,      \* the next mention its handler will dispatch
  seen,      \* txnCache.seen
  order,     \* txnCache.order
  handed,    \* how often a mention was dispatched since the last start (history)
  before,    \* mentions that were dispatched before the last start (history)
  spoiled,   \* transactions that a cut off body or a restart has spoiled (history)
  restarts, troubles

synapse == <<next, waiting>>
cache   == <<seen, order>>
history == <<handed, before, spoiled>>
vars    == <<synapse, at, txn, todo, cache, history, restarts, troubles>>

Steps   == {"free", "sent", "decode", "handle", "ack", "nack"}
Handled == {"decode", "handle", "ack", "nack"}   \* the steps inside the server

TypeOK ==
  /\ next \in 1 .. Len(Size) + 1
  /\ waiting \in Requests \cup {NoRequest}
  /\ at \in [Requests -> Steps]
  /\ txn \in [Requests -> Txns \cup {0}]
  /\ todo \in [Requests -> 1 .. 3]
  /\ seen \in SUBSET Txns
  /\ order \in Seq(Txns) /\ Len(order) <= Limit
  /\ handed \in [Mentions -> Nat]
  /\ before \in SUBSET Mentions
  /\ spoiled \in SUBSET Txns
  /\ restarts \in 0 .. MaxRestarts
  /\ troubles \in 0 .. MaxTroubles

Init ==
  /\ next = 1
  /\ waiting = NoRequest
  /\ at = [r \in Requests |-> "free"]
  /\ txn = [r \in Requests |-> 0]
  /\ todo = [r \in Requests |-> 1]
  /\ seen = {}
  /\ order = <<>>
  /\ handed = [x \in Mentions |-> 0]
  /\ before = {}
  /\ spoiled = {}
  /\ restarts = 0
  /\ troubles = 0

\* A handler that is not through with its transaction
Working(r) == at[r] \in {"decode", "handle"}

\* The requests of R are over, and their slots can be used again.
Free(R) ==
  /\ at' = [r \in Requests |-> IF r \in R THEN "free" ELSE at[r]]
  /\ txn' = [r \in Requests |-> IF r \in R THEN 0 ELSE txn[r]]
  /\ todo' = [r \in Requests |-> IF r \in R THEN 1 ELSE todo[r]]

Trouble == troubles < MaxTroubles /\ troubles' = troubles + 1
-----------------------------------------------------------------------------
(* The homeserver.                                                         *)

\* An attempt at the first unacknowledged transaction
SendTxn(r) ==
  /\ waiting = NoRequest
  /\ next \in Txns
  /\ at[r] = "free"
  /\ at' = [at EXCEPT ![r] = "sent"]
  /\ txn' = [txn EXCEPT ![r] = next]
  /\ waiting' = r
  /\ UNCHANGED <<next, todo, cache, history, restarts, troubles>>

\* The response does not come in time, or the connection breaks.  The handler
\* goes on: its context is not cancelled with the request's.
GiveUp ==
  /\ waiting # NoRequest
  /\ waiting' = NoRequest
  /\ Trouble
  /\ UNCHANGED <<next, at, txn, todo, cache, history, restarts>>

\* An attempt that was given up never arrives.
Lose(r) ==
  /\ at[r] = "sent"
  /\ waiting # r
  /\ Free({r})
  /\ UNCHANGED <<synapse, cache, history, restarts, troubles>>

\* A response goes to whoever still waits for it.
Respond(r) ==
  /\ at[r] \in {"ack", "nack"}
  /\ Free({r})
  /\ waiting' = IF waiting = r THEN NoRequest ELSE waiting
  /\ next' = IF waiting = r /\ at[r] = "ack" THEN next + 1 ELSE next
  /\ UNCHANGED <<cache, history, restarts, troubles>>
-----------------------------------------------------------------------------
(* The server.                                                             *)

\* Slip: a full cache is emptied.
add_Empties(t) ==
  /\ t \notin seen
  /\ IF Len(order) >= Limit
     THEN order' = <<t>> /\ seen' = {t}
     ELSE order' = Append(order, t) /\ seen' = seen \cup {t}

\* Slip: the order in which ids came is not shortened with the set.
add_KeepsOrder(t) ==
  /\ t \notin seen
  /\ order' = Append(order, t)
  /\ seen' = IF Len(order) >= Limit THEN (seen \cup {t}) \ {Head(order)} ELSE seen \cup {t}

\* txnCache.add, of an id that is not remembered
add(t) ==
  /\ t \notin seen
  /\ IF Len(order) >= Limit
     THEN order' = Append(Tail(order), t) /\ seen' = (seen \cup {t}) \ {Head(order)}
     ELSE order' = Append(order, t) /\ seen' = seen \cup {t}

\* A request reaches the server, at most Lag transactions late.
Arrives(r) == at[r] = "sent" /\ next - txn[r] <= Lag

\* handleTransaction takes up a transaction: it is remembered from now on.
TakeUp(r) ==
  /\ Arrives(r)
  /\ add(txn[r])
  /\ at' = [at EXCEPT ![r] = "decode"]
  /\ UNCHANGED <<synapse, txn, todo, history, restarts, troubles>>

\* Slip: a duplicate is answered with an error.
Duplicate_Refused(r) ==
  /\ Arrives(r)
  /\ txn[r] \in seen
  /\ at' = [at EXCEPT ![r] = "nack"]
  /\ UNCHANGED <<synapse, txn, todo, cache, history, restarts, troubles>>

\* A duplicate is acknowledged, also while the first attempt is being handled.
Duplicate(r) ==
  /\ Arrives(r)
  /\ txn[r] \in seen
  /\ at' = [at EXCEPT ![r] = "ack"]
  /\ UNCHANGED <<synapse, txn, todo, cache, history, restarts, troubles>>

Decode(r) ==
  /\ at[r] = "decode"
  /\ at' = [at EXCEPT ![r] = "handle"]
  /\ UNCHANGED <<synapse, txn, todo, cache, history, restarts, troubles>>

\* The body is cut off.  Its id stays remembered.
DecodeFails(r) ==
  /\ at[r] = "decode"
  /\ at' = [at EXCEPT ![r] = "nack"]
  /\ spoiled' = spoiled \cup {txn[r]}
  /\ Trouble
  /\ UNCHANGED <<synapse, txn, todo, cache, handed, before, restarts>>

\* handleEvent, dispatch: the next mention becomes a job.
Handle(r) ==
  LET x == <<txn[r], todo[r]>>
  IN /\ at[r] = "handle"
     /\ x \in Mentions
     /\ todo' = [todo EXCEPT ![r] = @ + 1]
     /\ handed' = [handed EXCEPT ![x] = @ + 1]
     /\ UNCHANGED <<synapse, at, txn, cache, before, spoiled, restarts, troubles>>

\* Slip: the transaction is acknowledged before it is handled.
Finish_Early(r) ==
  /\ at[r] = "handle"
  /\ at' = [at EXCEPT ![r] = "ack"]
  /\ UNCHANGED <<synapse, txn, todo, cache, history, restarts, troubles>>

\* After the last mention the transaction is acknowledged.
Finish(r) ==
  /\ at[r] = "handle"
  /\ <<txn[r], todo[r]>> \notin Mentions
  /\ at' = [at EXCEPT ![r] = "ack"]
  /\ UNCHANGED <<synapse, txn, todo, cache, history, restarts, troubles>>

\* The server is restarted: handlers and the cache are gone.  A transaction is
\* spoiled by it if a duplicate had been acknowledged while it was handled.
Restart ==
  LET inside == {r \in Requests : at[r] \in Handled}
  IN /\ restarts < MaxRestarts
     /\ restarts' = restarts + 1
     /\ Free(inside)
     /\ waiting' = IF waiting \in inside THEN NoRequest ELSE waiting
     /\ seen' = {} /\ order' = <<>>
     /\ before' = before \cup {x \in Mentions : handed[x] > 0}
     /\ handed' = [x \in Mentions |-> 0]
     /\ spoiled' = spoiled \cup {txn[r] : r \in {q \in Requests : Working(q) /\ txn[q] < next}}
     /\ UNCHANGED <<next, troubles>>
-----------------------------------------------------------------------------
RequestNext(r) ==
  \/ SendTxn(r)
  \/ Lose(r)
  \/ Respond(r)
  \/ TakeUp(r)
  \/ Duplicate(r)
  \/ Decode(r)
  \/ DecodeFails(r)
  \/ Handle(r)
  \/ Finish(r)

Next ==
  \/ \E r \in Requests : RequestNext(r)
  \/ GiveUp
  \/ Restart

Spec == Init /\ [][Next]_vars

\* The homeserver keeps retrying, and a handler that runs gets on: that a
\* dispatch is never blocked for ever is Hub's PushReturns.  Given up attempts
\* are lost eventually.
Fairness ==
  /\ WF_vars(\E r \in Requests : SendTxn(r))
  /\ \A r \in Requests :
       /\ WF_vars(Lose(r))
       /\ WF_vars(Respond(r))
       /\ WF_vars(TakeUp(r) \/ Duplicate(r))
       /\ WF_vars(Decode(r))
       /\ WF_vars(Handle(r))
       /\ WF_vars(Finish(r))

FairSpec == Spec /\ Fairness
-----------------------------------------------------------------------------
(* Properties.                                                             *)

\* The two halves of the cache hold the same ids, each once: an id that leaves
\* the order leaves the set, so the cache neither grows nor forgets too much.
CacheAgrees ==
  /\ seen = {order[i] : i \in DOMAIN order}
  /\ Cardinality(seen) = Len(order)

\* Between two restarts a mention is dispatched once, whatever retries, late
\* attempts and evictions there are: no agent is run twice for one message.
OncePerLifetime == \A x \in Mentions : handed[x] <= 1

\* A mention was dispatched, or it will be: a handler has it still to come.
InHand(x) ==
  \/ handed[x] > 0 \/ x \in before
  \/ \E r \in Requests : Working(r) /\ txn[r] = x[1] /\ todo[r] <= x[2]

\* No mention of an acknowledged transaction is lost, however many attempts were
\* given up, came late, or were acknowledged as duplicates while another was
\* being handled, and whenever the server restarted: only a body that was cut
\* off, or a restart after such a duplicate, can spoil a transaction.
AcknowledgedIsHandled ==
  \A x \in Mentions : x[1] < next => InHand(x) \/ x[1] \in spoiled

\* The homeserver's queue drains: retries, duplicates, cut off bodies and
\* restarts never leave it stuck on one transaction.
QueueDrains == <>(next = Len(Size) + 1)
=============================================================================
