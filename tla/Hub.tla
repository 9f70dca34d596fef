-------------------------------- MODULE Hub --------------------------------
(***************************************************************************)
(* The server's hub: which connection serves which agent, which jobs are   *)
(* open and whose they are, and the goroutines that race over it.  Every   *)
(* websocket connection has a read pump and a write pump; every mention is *)
(* dispatched by a goroutine of its own, which reads the route, enters the *)
(* job and pushes it to the connection in three separate steps.            *)
(*                                                                         *)
(* A critical section of hub.mu is one action.  What an agent's claims are *)
(* worth is decided in Registry; here a hello is accepted for any set of   *)
(* agents.  Websocket traffic is abstracted to frames that are written     *)
(* (WriteFrame) or lost with the connection.                               *)
(***************************************************************************)
EXTENDS Naturals, Sequences, FiniteSets

CONSTANTS
  Agents,    \* agent names
  Conns,     \* websocket connections; one that has ended is never reused
  Jobs,      \* mentions to dispatch, each with its fresh job id
  NoConn,    \* no connection: a missing key of hub.agents or hub.jobs
  NoJob,     \* the job of a frame that has none
  SendCap    \* capacity of conn.send (16 in the code)

ASSUME HubAssumption ==
  /\ NoConn \notin Conns
  /\ NoJob \notin Jobs
  /\ SendCap \in Nat \ {0}

VARIABLES
  route,     \* hub.agents: the connection an agent's jobs go to
  served,    \* conn.agents: the agents of the connection's last hello
  table,     \* hub.jobs: the owner of every open job
  send,      \* conn.send: the frames queued for a connection
  closed,    \* conn.closed has been closed by conn.shutdown
  reader,    \* where each connection's read pump is
  writer,    \* where each connection's write pump is
  pc,        \* where each mention's dispatch is
  owner,     \* job.owner: the connection the dispatch found
  paging,    \* jobs with an onContextRequest goroutine in flight
  received,  \* jobs whose frame was written to some client
  answered, abandoned, refused,
             \* how many replies of each kind were launched for a job (history)
  answerer   \* the connection whose result was taken as the answer (history)

connVars == <<served, send, closed, reader, writer>>
jobVars  == <<table, pc, owner, paging, received>>
history  == <<answered, abandoned, refused, answerer>>
vars     == <<route, connVars, jobVars, history>>

Frame == [type : {"job", "page"}, job : Jobs] \cup [type : {"refusal"}, job : {NoJob}]

JobFrame(j)  == [type |-> "job", job |-> j]
PageFrame(j) == [type |-> "page", job |-> j]
RefusalFrame == [type |-> "refusal", job |-> NoJob]

\* The read pump still handles frames, so its deferred drop is yet to come.
Reading(c) == reader[c] \in {"reading", "refusing"}

TypeOK ==
  /\ route \in [Agents -> Conns \cup {NoConn}]
  /\ served \in [Conns -> SUBSET Agents]
  /\ table \in [Jobs -> Conns \cup {NoConn}]
  /\ send \in [Conns -> Seq(Frame)]
  /\ \A c \in Conns : Len(send[c]) <= SendCap
  /\ closed \in [Conns -> BOOLEAN]
  /\ reader \in [Conns -> {"none", "reading", "refusing", "dropped", "gone"}]
  /\ writer \in [Conns -> {"none", "writing", "gone"}]
  /\ pc \in [Jobs -> {"new", "found", "added", "rejected", "done"}]
  /\ owner \in [Jobs -> Conns \cup {NoConn}]
  /\ paging \in SUBSET Jobs
  /\ received \in SUBSET Jobs
  /\ answered \in [Jobs -> Nat]
  /\ abandoned \in [Jobs -> Nat]
  /\ refused \in [Jobs -> Nat]
  /\ answerer \in [Jobs -> Conns \cup {NoConn}]

Init ==
  /\ route = [a \in Agents |-> NoConn]
  /\ served = [c \in Conns |-> {}]
  /\ table = [j \in Jobs |-> NoConn]
  /\ send = [c \in Conns |-> <<>>]
  /\ closed = [c \in Conns |-> FALSE]
  /\ reader = [c \in Conns |-> "none"]
  /\ writer = [c \in Conns |-> "none"]
  /\ pc = [j \in Jobs |-> "new"]
  /\ owner = [j \in Jobs |-> NoConn]
  /\ paging = {}
  /\ received = {}
  /\ answered = [j \in Jobs |-> 0]
  /\ abandoned = [j \in Jobs |-> 0]
  /\ refused = [j \in Jobs |-> 0]
  /\ answerer = [j \in Jobs |-> NoConn]
-----------------------------------------------------------------------------
(* conn: the send queue and the shutdown.                                  *)

\* Slip: a queue without a capacity.
Queued_Unbounded(c, frame) == send' = [send EXCEPT ![c] = Append(@, frame)]

\* push has queued the frame.
Queued(c, frame) ==
  /\ Len(send[c]) < SendCap
  /\ send' = [send EXCEPT ![c] = Append(@, frame)]

\* Slip: push does not look at conn.closed.
Rejected_Never(c) == FALSE

\* push has seen the connection closed.  While there is room in the queue of a
\* closed connection the select may take either branch; with no room on an open
\* one it blocks.
Rejected(c) == closed[c] /\ UNCHANGED send

shutdown(c) == closed' = [closed EXCEPT ![c] = TRUE]

\* hub.job: the job is open and this connection's.
job(c, j) == table[j] = c

\* hub.takeJob, of a job that is its owner's if it is open at all
takeJob(j) == table' = [table EXCEPT ![j] = NoConn]

-----------------------------------------------------------------------------
(* The connection's own goroutines.                                        *)

\* handleWebSocket: the upgrade succeeded and both pumps are started.
Accept(c) ==
  /\ reader[c] = "none"
  /\ reader' = [reader EXCEPT ![c] = "reading"]
  /\ writer' = [writer EXCEPT ![c] = "writing"]
  /\ UNCHANGED <<route, served, send, closed, jobVars, history>>

\* Slip: a newer hello of the same connection withdraws nothing.
serve_KeepsOld(c, accepted) ==
  /\ served' = [served EXCEPT ![c] = accepted]
  /\ route' = [a \in Agents |-> IF a \in accepted THEN c ELSE route[a]]

\* hub.serve: what the connection served before is withdrawn, unless another
\* connection has taken it over, and the accepted agents are routed to it.
serve(c, accepted) ==
  /\ served' = [served EXCEPT ![c] = accepted]
  /\ route' = [a \in Agents |->
                 IF a \in accepted THEN c
                 ELSE IF a \in served[c] /\ route[a] = c THEN NoConn
                 ELSE route[a]]

\* onHello: some claims are accepted, and when some are refused the read pump
\* goes on to push an error frame before it reads again.
Hello(c, accepted, someRefused) ==
  /\ reader[c] = "reading"
  /\ serve(c, accepted)
  /\ reader' = [reader EXCEPT ![c] = IF someRefused THEN "refusing" ELSE "reading"]
  /\ UNCHANGED <<send, closed, writer, jobVars, history>>

PushRefusal(c) ==
  /\ reader[c] = "refusing"
  /\ Queued(c, RefusalFrame) \/ Rejected(c)
  /\ reader' = [reader EXCEPT ![c] = "reading"]
  /\ UNCHANGED <<route, served, closed, writer, jobVars, history>>

\* Slip: takeJob looks the job up by its id alone.
Result_AnyConn(c, j) ==
  /\ reader[c] = "reading"
  /\ j \in received
  /\ table[j] # NoConn
  /\ table' = [table EXCEPT ![j] = NoConn]
  /\ answered' = [answered EXCEPT ![j] = @ + 1]
  /\ answerer' = [answerer EXCEPT ![j] = c]
  /\ UNCHANGED <<route, connVars, pc, owner, paging, received, abandoned, refused>>

\* Slip: the job is looked up but not taken out of the table.
Result_Keeps(c, j) ==
  /\ reader[c] = "reading"
  /\ j \in received
  /\ table[j] = c
  /\ answered[j] < 2
  /\ answered' = [answered EXCEPT ![j] = @ + 1]
  /\ answerer' = [answerer EXCEPT ![j] = c]
  /\ UNCHANGED <<route, connVars, jobVars, abandoned, refused>>

\* A result frame: takeJob, then go onResult.  A client only names jobs it was
\* sent, on this connection or on an earlier one.  A result for a job that is
\* not open, or not this connection's, is logged and changes nothing.
Result(c, j) ==
  /\ reader[c] = "reading"
  /\ j \in received
  /\ job(c, j)
  /\ takeJob(j)
  /\ answered' = [answered EXCEPT ![j] = @ + 1]
  /\ answerer' = [answerer EXCEPT ![j] = c]
  /\ UNCHANGED <<route, connVars, pc, owner, paging, received, abandoned, refused>>

\* A context request: the job must be open and this connection's.  One paging
\* goroutine per job is in flight at a time (a bound of the model).
ContextRequest(c, j) ==
  /\ reader[c] = "reading"
  /\ j \in received
  /\ job(c, j)
  /\ j \notin paging
  /\ paging' = paging \cup {j}
  /\ UNCHANGED <<route, connVars, table, pc, owner, received, history>>

\* onContextRequest has paged, or failed to, and pushes to the job's owner,
\* whether or not the job is still open.
PushPage(j) ==
  /\ j \in paging
  /\ paging' = paging \ {j}
  /\ Queued(owner[j], PageFrame(j)) \/ Rejected(owner[j])
  /\ UNCHANGED <<route, served, closed, reader, writer, table, pc, owner, received, history>>

\* Slip: drop leaves the connection's jobs where they are.
Drop_KeepsJobs(c) ==
  /\ reader[c] = "reading"
  /\ reader' = [reader EXCEPT ![c] = "dropped"]
  /\ route' = [a \in Agents |-> IF a \in served[c] /\ route[a] = c THEN NoConn ELSE route[a]]
  /\ UNCHANGED <<served, send, closed, writer, jobVars, history>>

\* The read pump ends (peer gone, read deadline, socket closed by shutdown):
\* hub.drop withdraws the connection's agents and takes all its jobs, and an
\* onOrphan notice is owed for each.
Drop(c) ==
  /\ reader[c] = "reading"
  /\ reader' = [reader EXCEPT ![c] = "dropped"]
  /\ route' = [a \in Agents |-> IF a \in served[c] /\ route[a] = c THEN NoConn ELSE route[a]]
  /\ table' = [j \in Jobs |-> IF table[j] = c THEN NoConn ELSE table[j]]
  /\ abandoned' = [j \in Jobs |-> IF table[j] = c THEN abandoned[j] + 1 ELSE abandoned[j]]
  /\ UNCHANGED <<served, send, closed, writer, pc, owner, paging, received,
                 answered, refused, answerer>>

ReaderShutdown(c) ==
  /\ reader[c] = "dropped"
  /\ reader' = [reader EXCEPT ![c] = "gone"]
  /\ shutdown(c)
  /\ UNCHANGED <<route, served, send, writer, jobVars, history>>

\* The write pump takes the oldest frame and sends it, or logs that it cannot be
\* encoded and goes on without it.
WriteFrame(c) ==
  /\ writer[c] = "writing"
  /\ ~closed[c]
  /\ send[c] # <<>>
  /\ send' = [send EXCEPT ![c] = Tail(@)]
  /\ received' \in {received, received \cup {j \in Jobs : Head(send[c]) = JobFrame(j)}}
  /\ UNCHANGED <<route, served, closed, reader, writer, table, pc, owner, paging, history>>

\* Writing a frame, or a ping, fails: the frame is lost and the connection is
\* shut down.  The same step when the select sees the connection closed, with
\* or without having taken a frame that can no longer be written.
WriterEnd(c) ==
  /\ writer[c] = "writing"
  /\ \/ UNCHANGED send
     \/ send[c] # <<>> /\ send' = [send EXCEPT ![c] = Tail(@)]
  /\ writer' = [writer EXCEPT ![c] = "gone"]
  /\ shutdown(c)
  /\ UNCHANGED <<route, served, reader, jobVars, history>>
-----------------------------------------------------------------------------
(* dispatch: one goroutine per mention.                                    *)

\* connFor finds nobody: the notice "not connected right now" is the reply.
NotConnected(j, a) ==
  /\ pc[j] = "new"
  /\ route[a] = NoConn
  /\ pc' = [pc EXCEPT ![j] = "done"]
  /\ refused' = [refused EXCEPT ![j] = @ + 1]
  /\ UNCHANGED <<route, connVars, table, owner, paging, received, answered, abandoned, answerer>>

\* connFor finds a connection, which is remembered as the job's owner.
FindConn(j, a) ==
  /\ pc[j] = "new"
  /\ route[a] # NoConn
  /\ pc' = [pc EXCEPT ![j] = "found"]
  /\ owner' = [owner EXCEPT ![j] = route[a]]
  /\ UNCHANGED <<route, connVars, table, paging, received, history>>

\* hub.addJob
AddJob(j) ==
  /\ pc[j] = "found"
  /\ pc' = [pc EXCEPT ![j] = "added"]
  /\ table' = [table EXCEPT ![j] = owner[j]]
  /\ UNCHANGED <<route, connVars, owner, paging, received, history>>

\* owner.push(frame), which blocks on a full queue
PushJob(j) ==
  /\ pc[j] = "added"
  /\ \/ Queued(owner[j], JobFrame(j)) /\ pc' = [pc EXCEPT ![j] = "done"]
     \/ Rejected(owner[j]) /\ pc' = [pc EXCEPT ![j] = "rejected"]
  /\ UNCHANGED <<route, served, closed, reader, writer, table, owner, paging, received, history>>

\* Slip: the job is not taken back.
TakeBack_Leaves(j) ==
  /\ pc[j] = "rejected"
  /\ pc' = [pc EXCEPT ![j] = "done"]
  /\ refused' = [refused EXCEPT ![j] = @ + 1]
  /\ UNCHANGED <<route, connVars, table, owner, paging, received, answered, abandoned, answerer>>

\* push failed: the job is taken back, if drop has not taken it already, and
\* the notice "went offline before the job started" is the reply either way.
TakeBack(j) ==
  /\ pc[j] = "rejected"
  /\ pc' = [pc EXCEPT ![j] = "done"]
  /\ takeJob(j)
  /\ refused' = [refused EXCEPT ![j] = @ + 1]
  /\ UNCHANGED <<route, connVars, owner, paging, received, answered, abandoned, answerer>>
-----------------------------------------------------------------------------
ConnNext(c) ==
  \/ Accept(c)
  \/ \E accepted \in SUBSET Agents, someRefused \in BOOLEAN : Hello(c, accepted, someRefused)
  \/ PushRefusal(c)
  \/ \E j \in Jobs : Result(c, j)
  \/ \E j \in Jobs : ContextRequest(c, j)
  \/ Drop(c)
  \/ ReaderShutdown(c)
  \/ WriteFrame(c)
  \/ WriterEnd(c)

JobNext(j) ==
  \/ \E a \in Agents : NotConnected(j, a)
  \/ \E a \in Agents : FindConn(j, a)
  \/ AddJob(j)
  \/ PushJob(j)
  \/ TakeBack(j)
  \/ PushPage(j)

Next ==
  \/ \E c \in Conns : ConnNext(c)
  \/ \E j \in Jobs : JobNext(j)

Spec == Init /\ [][Next]_vars

\* A write pump with something to do: a frame to send, or a closed connection
\* to notice.  A ping may fail too, but nothing makes it.
WriterWork(c) ==
  /\ closed[c] \/ send[c] # <<>>
  /\ WriteFrame(c) \/ WriterEnd(c)

\* Goroutines run.  A sender blocked on a full channel is served in FIFO order
\* by the Go runtime, so a push that is possible again and again happens: the
\* pushes are strongly fair.  So is the end of the read pump of a closed socket
\* (a refusal that is pushed now and then does not put it off for ever).  A
\* result is not: a client may drop it and stay connected (Daemon.spilled).
Fairness ==
  /\ \A c \in Conns :
       /\ SF_vars(PushRefusal(c))
       /\ SF_vars(closed[c] /\ Drop(c))
       /\ WF_vars(ReaderShutdown(c))
       /\ WF_vars(WriterWork(c))
  /\ \A j \in Jobs :
       /\ WF_vars(AddJob(j))
       /\ SF_vars(PushJob(j))
       /\ WF_vars(TakeBack(j))
       /\ SF_vars(PushPage(j))

FairSpec == Spec /\ Fairness
-----------------------------------------------------------------------------
(* Safety.                                                                 *)

\* The hub never routes an agent to a connection that has been dropped, nor to
\* one whose last hello no longer names the agent, whatever hellos, takeovers
\* and disconnections came in between.
RouteIsLive ==
  \A a \in Agents : route[a] # NoConn => a \in served[route[a]] /\ Reading(route[a])

\* Results and disconnections race for a job: a client's answer and the notice
\* that the client disconnected exclude each other, and neither is ever posted
\* twice for the same job.
OneAnswerOrAbandonment == \A j \in Jobs : answered[j] + abandoned[j] <= 1

\* Once the room has been told that a job could not be handed over, no answer
\* to that job can follow, even though the frame may sit in a dead queue.
RefusedIsNeverAnswered == \A j \in Jobs : refused[j] > 0 => answered[j] = 0

\* After a reconnection, or a takeover of the agent by another machine, a result
\* sent on any other connection than the one the job was pushed to is ignored.
AnswerFromOwner == \A j \in Jobs : answerer[j] # NoConn => answerer[j] = owner[j]

\* A job frame or a page of a room's history is queued on the connection that
\* owns the job and on no other, also when the route has moved in between.
FramesFollowOwner ==
  \A c \in Conns : \A i \in DOMAIN send[c] :
    send[c][i].job # NoJob => owner[send[c][i].job] = c

\* When a connection ends, agents that another connection has taken over stay
\* routed to that connection.
DropSparesOthers ==
  [][\A c \in Conns, a \in Agents :
       Reading(c) /\ ~Reading(c)' /\ route[a] # c => route'[a] = route[a]]_vars

\* docs/04-element-agent.md: "A job that is dispatched while no client is
\* connected posts a notice into the room rather than failing silently."  So a
\* job that dispatch has let go of and that is still open belongs to a
\* connection whose end will yet be noticed.
NoSilentJob ==
  \A j \in Jobs : pc[j] = "done" /\ table[j] # NoConn => Reading(table[j])

\* What the room has been told of a mention moves along JobLedger and no other
\* way: an answer stands alone, and two notices are posted only when the
\* connection was lost while its job was being handed over, in that order.  No
\* step of JobLedger leads to "muddled".
posted(j, answers, losses, refusals) ==
  answered[j] = answers /\ abandoned[j] = losses /\ refused[j] = refusals

fate ==
  [j \in Jobs |->
     IF posted(j, 0, 0, 0) THEN IF pc[j] = "new" THEN "unasked" ELSE "open"
     ELSE IF posted(j, 1, 0, 0) THEN "answered"
     ELSE IF posted(j, 0, 1, 0) THEN "abandoned"
     ELSE IF posted(j, 0, 0, 1) THEN "refused"
     ELSE IF posted(j, 0, 1, 1) THEN "both"
     ELSE "muddled"]

Ledger == INSTANCE JobLedger WITH Jobs <- Jobs, fate <- fate

LedgerSpec == Ledger!Spec
-----------------------------------------------------------------------------
(* Liveness, under FairSpec.                                               *)

\* A dispatch, and with it the homeserver's transaction, is never blocked for
\* ever on a connection's full queue: either there is room again or the
\* connection is shut down.
PushReturns == \A j \in Jobs : pc[j] = "added" ~> pc[j] = "done"

\* Once a connection has been shut down, by its write pump and whatever its read
\* pump is waiting for, every job that is then its own is settled: by an answer
\* that came in before, by the disconnection notice or by the hand-over notice.
\* A job of a connection that stays up may stay open for ever.
LostJobSettles ==
  \A j \in Jobs :
    (table[j] # NoConn /\ Reading(table[j]) /\ closed[table[j]])
      ~> answered[j] + abandoned[j] + refused[j] > 0
=============================================================================
