------------------------------- MODULE Daemon -------------------------------
(***************************************************************************)
(* The daemon on a client machine: one websocket session at a time, with a *)
(* read pump and a write pump; a lane for every agent, that is a bounded   *)
(* queue and one worker; and a bounded queue of outgoing frames that all   *)
(* of them share and that outlives a session.  A sender never waits: a     *)
(* frame that finds the queue full is dropped.  How a job runs is the      *)
(* subject of Runner; here it ends, some time, with a result.              *)
(***************************************************************************)
EXTENDS Naturals, Sequences, FiniteSets

CONSTANTS
  Agents,      \* the agents whose directories are, or may be, on the machine
  Jobs,        \* the jobs that the server may send
  AgentOf,     \* AgentOf[j]: the agent that job j is for
  Other,       \* any frame that is not a result: a context request, a hello
  QueueDepth,  \* capacity of a lane's queue (8 in the code)
  OutCap,      \* capacity of Daemon.out (32 in the code)
  MaxSessions  \* bound on the number of connections

ASSUME DaemonAssumption ==
  /\ AgentOf \in [Jobs -> Agents]
  /\ Other \notin Jobs
  /\ QueueDepth \in Nat \ {0} /\ OutCap \in Nat \ {0} /\ MaxSessions \in Nat

VARIABLES
  life,      \* the process: its context is done when it is stopping
  link,      \* the session's websocket; a failing one has lost its write pump
  pump,      \* the session's write pump runs
  session,   \* how many sessions there were
  agents,    \* Daemon.agents: the agents that are known
  lanes,     \* Daemon.queues: the agents that have a lane
  queue,     \* the queue of every lane
  workers,   \* how many workers each lane has
  running,   \* the jobs that an agent's workers are executing
  out,       \* Daemon.out
  arrived,   \* the session in which a job has arrived, or 0 (history)
  taken,     \* the jobs that a lane has taken in, in order (history)
  ran,       \* the jobs that a lane has begun, in order (history)
  written,   \* jobs whose result has been written (history)
  lost,      \* jobs whose result was taken from out and not written (history)
  spilled    \* jobs whose result found out full (history)

linkVars == <<life, link, pump, session>>
laneVars == <<agents, lanes, queue, workers, running>>
history  == <<arrived, taken, ran, written, lost, spilled>>
vars     == <<linkVars, laneVars, out, history>>

\* The jobs in a sequence of jobs and other frames
JobsIn(s) == {s[i] : i \in DOMAIN s} \cap Jobs

TypeOK ==
  /\ life \in {"running", "stopping", "stopped"}
  /\ link \in {"down", "up", "failing"}
  /\ pump \in BOOLEAN
  /\ session \in 0 .. MaxSessions
  /\ agents \in SUBSET Agents
  /\ lanes \in SUBSET Agents
  /\ queue \in [Agents -> Seq(Jobs)]
  /\ \A a \in Agents : Len(queue[a]) <= QueueDepth
  /\ workers \in [Agents -> Nat]
  /\ running \in [Agents -> SUBSET Jobs]
  /\ out \in Seq(Jobs \cup {Other}) /\ Len(out) <= OutCap
  /\ taken \in [Agents -> Seq(Jobs)]
  /\ ran \in [Agents -> Seq(Jobs)]
  /\ arrived \in [Jobs -> 0 .. MaxSessions]
  /\ {written, lost, spilled} \subseteq SUBSET Jobs

Init ==
  /\ life = "running"
  /\ link = "down"
  /\ pump = FALSE
  /\ session = 0
  /\ agents \in SUBSET Agents \ {{}}
  /\ lanes = {}
  /\ queue = [a \in Agents |-> <<>>]
  /\ workers = [a \in Agents |-> 0]
  /\ running = [a \in Agents |-> {}]
  /\ out = <<>>
  /\ arrived = [j \in Jobs |-> 0]
  /\ written = {} /\ lost = {} /\ spilled = {}
  /\ taken = [a \in Agents |-> <<>>]
  /\ ran = [a \in Agents |-> <<>>]

\* Slip: a sender waits for room in the queue.
send_Waits(frame) ==
  /\ Len(out) < OutCap
  /\ out' = Append(out, frame)
  /\ UNCHANGED spilled

\* send: a frame that finds the queue full is dropped.
send(frame) ==
  IF Len(out) < OutCap
  THEN out' = Append(out, frame) /\ UNCHANGED spilled
  ELSE spilled' = spilled \cup ({frame} \cap Jobs) /\ UNCHANGED out
-----------------------------------------------------------------------------
(* The session: connectLoop, session and the write pump.                   *)

\* The dial succeeds, and hello, which is written before the pumps start, does
\* too.  The backoff of a second or more gives the old write pump time to end:
\* it notices the end of its session before it waits again.
Connect ==
  /\ life = "running"
  /\ link = "down" /\ ~pump
  /\ session < MaxSessions
  /\ session' = session + 1
  /\ link' = "up"
  /\ pump' = TRUE
  /\ UNCHANGED <<life, laneVars, out, history>>

\* The read pump meets an error: the peer has gone, or is silent too long, or
\* the daemon is stopping and has closed the socket.
LinkBreaks ==
  /\ link # "down"
  /\ link' = "down"
  /\ UNCHANGED <<life, pump, session, laneVars, out, history>>

\* The oldest frame is written.
Write ==
  /\ pump /\ link = "up"
  /\ out # <<>>
  /\ out' = Tail(out)
  /\ written' = written \cup ({Head(out)} \cap Jobs)
  /\ UNCHANGED <<linkVars, laneVars, arrived, taken, ran, lost, spilled>>

\* Slip: a connection that cannot be written to is not noticed.
WriteFails_Unnoticed ==
  /\ pump
  /\ \/ UNCHANGED <<out, lost>>
     \/ out # <<>> /\ out' = Tail(out) /\ lost' = lost \cup ({Head(out)} \cap Jobs)
  /\ pump' = FALSE
  /\ UNCHANGED <<life, link, session, laneVars, arrived, taken, ran, written, spilled>>

\* The oldest frame cannot be encoded or written, or a ping cannot be written:
\* the frame is gone and so is the write pump.  The session goes on without it
\* until its read deadline passes, for only the answers to pings put that off.
WriteFails ==
  /\ pump
  /\ \/ UNCHANGED <<out, lost>>
     \/ out # <<>> /\ out' = Tail(out) /\ lost' = lost \cup ({Head(out)} \cap Jobs)
  /\ pump' = FALSE
  /\ link' = IF link = "up" THEN "failing" ELSE link
  /\ UNCHANGED <<life, session, laneVars, arrived, taken, ran, written, spilled>>

\* The write pump sees that its session is over.
PumpEnds ==
  /\ pump /\ link = "down"
  /\ pump' = FALSE
  /\ UNCHANGED <<life, link, session, laneVars, out, history>>
-----------------------------------------------------------------------------
(* The lanes.                                                              *)

\* Slip: every job starts a worker.
laneFor_Always(a) ==
  /\ lanes' = lanes \cup {a}
  /\ workers' = [workers EXCEPT ![a] = @ + 1]

\* laneFor: an agent's first job makes its queue and starts its worker.
laneFor(a) ==
  /\ lanes' = lanes \cup {a}
  /\ workers' = [workers EXCEPT ![a] = IF a \in lanes THEN @ ELSE @ + 1]

\* Slip: a job for an agent that is not known is ignored.
Refuse_Silently(j) ==
  /\ AgentOf[j] \notin agents
  /\ UNCHANGED <<lanes, queue, workers, taken, out, spilled>>

\* Slip: only the workers limit a lane.
Enqueue_Unbounded(j) ==
  LET a == AgentOf[j]
  IN /\ a \in agents
     /\ laneFor(a)
     /\ queue' = [queue EXCEPT ![a] = Append(@, j)]
     /\ taken' = [taken EXCEPT ![a] = Append(@, j)]
     /\ UNCHANGED <<out, spilled>>

\* Slip: a full lane makes room by forgetting its oldest job.
Enqueue_Forgets(j) ==
  LET a == AgentOf[j]
  IN /\ a \in agents
     /\ laneFor(a)
     /\ queue' = [queue EXCEPT ![a] = IF Len(@) < QueueDepth THEN Append(@, j)
                                      ELSE Append(Tail(@), j)]
     /\ taken' = [taken EXCEPT ![a] = Append(@, j)]
     /\ UNCHANGED <<out, spilled>>

\* The three branches of enqueue: the lane takes the job in, ...
Enqueue(j) ==
  LET a == AgentOf[j]
  IN /\ a \in agents
     /\ laneFor(a)
     /\ Len(queue[a]) < QueueDepth
     /\ queue' = [queue EXCEPT ![a] = Append(@, j)]
     /\ taken' = [taken EXCEPT ![a] = Append(@, j)]
     /\ UNCHANGED <<out, spilled>>

\* ... or has too many already, ...
TooMany(j) ==
  LET a == AgentOf[j]
  IN /\ a \in agents
     /\ laneFor(a)
     /\ Len(queue[a]) >= QueueDepth
     /\ send(j)
     /\ UNCHANGED <<queue, taken>>

\* ... or the machine does not serve the agent.
Refuse(j) ==
  /\ AgentOf[j] \notin agents
  /\ send(j)
  /\ UNCHANGED <<lanes, queue, workers, taken>>

\* The read pump reads a job, also when the daemon is stopping and its socket is
\* not closed yet.
Arrive(j) ==
  /\ link # "down"
  /\ arrived[j] = 0
  /\ arrived' = [arrived EXCEPT ![j] = session]
  /\ Enqueue(j) \/ TooMany(j) \/ Refuse(j)
  /\ UNCHANGED <<linkVars, agents, running, ran, written, lost>>

\* A worker without a job takes the next one.
Take(a) ==
  /\ life # "stopped"
  /\ Cardinality(running[a]) < workers[a]
  /\ queue[a] # <<>>
  /\ queue' = [queue EXCEPT ![a] = Tail(@)]
  /\ running' = [running EXCEPT ![a] = @ \cup {Head(queue[a])}]
  /\ ran' = [ran EXCEPT ![a] = Append(@, Head(queue[a]))]
  /\ UNCHANGED <<linkVars, agents, lanes, workers, out, arrived, taken, written, lost, spilled>>

\* The job is over, and its result is sent.
Finish(a, j) ==
  /\ j \in running[a]
  /\ running' = [running EXCEPT ![a] = @ \ {j}]
  /\ send(j)
  /\ UNCHANGED <<linkVars, agents, lanes, queue, workers, arrived, taken, ran, written, lost>>

\* A worker without a job sees that the daemon is stopping.
WorkerEnds(a) ==
  /\ life = "stopping"
  /\ Cardinality(running[a]) < workers[a]
  /\ workers' = [workers EXCEPT ![a] = @ - 1]
  /\ UNCHANGED <<linkVars, agents, lanes, queue, running, out, history>>

\* A command of the loopback: a context request of a running job, or a reload,
\* which adds agents to those known and sends another hello.
reload(more) ==
  /\ life = "running"
  /\ agents' = agents \cup more
  /\ send(Other)
  /\ UNCHANGED <<linkVars, lanes, queue, workers, running, arrived, taken, ran, written, lost>>
-----------------------------------------------------------------------------
(* The process.                                                            *)

\* SIGTERM
Stop ==
  /\ life = "running"
  /\ life' = "stopping"
  /\ UNCHANGED <<link, pump, session, laneVars, out, history>>

\* connectLoop has returned and every worker is done.
Exit ==
  /\ life = "stopping" /\ link = "down"
  /\ \A a \in Agents : workers[a] = 0
  /\ life' = "stopped"
  /\ UNCHANGED <<link, pump, session, laneVars, out, history>>

Next ==
  \/ Connect
  \/ LinkBreaks
  \/ Write
  \/ WriteFails
  \/ PumpEnds
  \/ \E j \in Jobs : Arrive(j)
  \/ \E a \in Agents : Take(a)
  \/ \E a \in Agents, j \in Jobs : Finish(a, j)
  \/ \E a \in Agents : WorkerEnds(a)
  \/ \E more \in SUBSET Agents : reload(more)
  \/ Stop
  \/ Exit

Spec == Init /\ [][Next]_vars

\* Goroutines run; a job has a time limit; a frame that can be written is, or
\* writing it fails.  The read deadline of a session without a write pump passes,
\* and the read pump notices that the stopping daemon has closed the socket.
Fairness ==
  /\ WF_vars(link = "up" /\ (Write \/ WriteFails))
  /\ WF_vars((link = "failing" \/ life = "stopping") /\ LinkBreaks)
  /\ WF_vars(Exit)
  /\ \A a \in Agents : WF_vars(Take(a)) /\ SF_vars(WorkerEnds(a))
  /\ \A a \in Agents, j \in Jobs : WF_vars(Finish(a, j))

FairSpec == Spec /\ Fairness
-----------------------------------------------------------------------------
(* Properties.                                                             *)

\* Two jobs of one agent never run at once, so that they never share its
\* directory and its .result.
OneAtATime == \A a \in Agents : Cardinality(running[a]) <= 1

\* The jobs that a lane takes in are run in the order in which they came, and
\* none is skipped, through reconnections and with jobs of older connections.
InTurn == \A a \in Agents : taken[a] = ran[a] \o queue[a]

\* A job that has arrived is in exactly one place: with its lane, in the queue
\* of frames, or gone from it one way; so it has one result and never two.
Places(j) ==
  {p \in {<<"queue", a>> : a \in Agents} : j \in JobsIn(queue[p[2]])}
    \cup {p \in {<<"running", a>> : a \in Agents} : j \in running[p[2]]}
    \cup {p \in {<<"out", i>> : i \in DOMAIN out} : out[p[2]] = j}
    \cup {p \in {<<"written", 0>>} : j \in written}
    \cup {p \in {<<"lost", 0>>} : j \in lost}
    \cup {p \in {<<"spilled", 0>>} : j \in spilled}
Accounted == \A j \in Jobs : Cardinality(Places(j)) = IF arrived[j] = 0 THEN 0 ELSE 1

\* The job has arrived on the connection there is now.
Current(j) == arrived[j] # 0 /\ arrived[j] = session /\ link # "down"

\* Its result is written, or its connection has ended, which the server tells
\* the room; or out was full, or the daemon is stopped.
Settled(j) == j \in written \cup spilled \/ link = "down" \/ life # "running"

\* A job that arrives is answered or its connection ends, also when the write
\* pump has ended and taken a result with it.
PostsWhatItCan == \A j \in Jobs : Current(j) ~> Settled(j)

\* A daemon that is told to stop ends, however full its queues are.
Stops == life = "stopping" ~> life = "stopped"
=============================================================================
