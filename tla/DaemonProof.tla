---------------------------- MODULE DaemonProof -----------------------------
(***************************************************************************)
(* Daemon's safety, proved for any number of agents and jobs, any depth of *)
(* the queues and any number of sessions.                                  *)
(***************************************************************************)
EXTENDS Daemon, FiniteSetTheorems, SequenceTheorems, TLAPS

Frames == Jobs \cup {Other}

\* A lane has one worker or none, a job runs only where there is one, and no
\* worker is without a lane.
WorkerInv ==
  \A a \in Agents :
    /\ \/ workers[a] = 0 /\ running[a] = {}
       \/ workers[a] = 1 /\ (running[a] = {} \/ \E j \in Jobs : running[a] = {j})
    /\ a \notin lanes => workers[a] = 0

\* A connection that is not down is the connection of some session.
LinkInv == link # "down" => session # 0

\* No job is twice in the sequence s.
NoTwins(s) == \A i, k \in DOMAIN s : s[i] = s[k] /\ s[i] \in Jobs => i = k
TwinInv == NoTwins(out) /\ \A a \in Agents : NoTwins(queue[a])

\* A lane has only jobs of its own agent.
LaneInv == \A a \in Agents : \A j \in JobsIn(queue[a]) \cup running[a] : AgentOf[j] = a

\* Where a job can be, apart from its lane: no two of these at once.
Gone(j) == j \in written \cup lost \cup spilled
PlaceInv ==
  \A j \in Jobs :
    LET a == AgentOf[j]
    IN /\ arrived[j] # 0 <=> \/ j \in JobsIn(queue[a]) \/ j \in running[a]
                             \/ j \in JobsIn(out) \/ Gone(j)
       /\ j \in JobsIn(queue[a]) => j \notin running[a] /\ j \notin JobsIn(out) /\ ~Gone(j)
       /\ j \in running[a] => j \notin JobsIn(out) /\ ~Gone(j)
       /\ j \in JobsIn(out) => ~Gone(j)
       /\ ~(j \in written /\ j \in lost) /\ ~(j \in written /\ j \in spilled)
       /\ ~(j \in lost /\ j \in spilled)

LanesInv == TypeOK /\ WorkerInv /\ InTurn
IInv == LanesInv /\ LinkInv /\ TwinInv /\ LaneInv /\ PlaceInv
-----------------------------------------------------------------------------
(* Queues.                                                                 *)

\* A frame at the end of a queue
LEMMA AppendJobs ==
  ASSUME NEW s \in Seq(Frames), NEW f \in Frames
  PROVE  /\ Append(s, f) \in Seq(Frames) /\ Len(Append(s, f)) = Len(s) + 1
         /\ JobsIn(Append(s, f)) = JobsIn(s) \cup ({f} \cap Jobs)
         /\ NoTwins(s) /\ f \notin JobsIn(s) => NoTwins(Append(s, f))
PROOF
<1>1. /\ Append(s, f) \in Seq(Frames) /\ Len(s) \in Nat /\ Len(Append(s, f)) = Len(s) + 1
      /\ DOMAIN s = 1 .. Len(s) /\ DOMAIN Append(s, f) = 1 .. Len(s) + 1
      /\ Append(s, f)[Len(s) + 1] = f
      /\ \A i \in 1 .. Len(s) : Append(s, f)[i] = s[i]
  OBVIOUS
<1>2. JobsIn(Append(s, f)) = JobsIn(s) \cup ({f} \cap Jobs)
  <2>1. \A x : (\E i \in DOMAIN Append(s, f) : Append(s, f)[i] = x)
                 <=> (x = f \/ \E i \in DOMAIN s : s[i] = x)
    BY <1>1
  <2> QED BY <2>1 DEF JobsIn
<1>3. NoTwins(s) /\ f \notin JobsIn(s) => NoTwins(Append(s, f))
  <2> SUFFICES ASSUME NoTwins(s), f \notin JobsIn(s),
                      NEW i \in 1 .. Len(s) + 1, NEW k \in 1 .. Len(s) + 1,
                      Append(s, f)[i] = Append(s, f)[k], Append(s, f)[i] \in Jobs
               PROVE  i = k
    BY <1>1 DEF NoTwins
  <2>1. \A n \in 1 .. Len(s) : s[n] = f => f \notin Jobs
    BY <1>1 DEF JobsIn
  <2>2. CASE i \in 1 .. Len(s) /\ k \in 1 .. Len(s)
    BY <1>1, <2>2 DEF NoTwins
  <2>3. CASE i = Len(s) + 1 \/ k = Len(s) + 1
    BY <1>1, <2>1, <2>3
  <2> QED BY <1>1, <2>2, <2>3
<1> QED BY <1>1, <1>2, <1>3

\* The frame at the head of a queue
LEMMA TailJobs ==
  ASSUME NEW s \in Seq(Frames), s # <<>>
  PROVE  /\ Tail(s) \in Seq(Frames) /\ Len(Tail(s)) = Len(s) - 1 /\ Head(s) \in Frames
         /\ Head(s) \in Jobs => Head(s) \in JobsIn(s)
         /\ NoTwins(s) => NoTwins(Tail(s)) /\ JobsIn(Tail(s)) = JobsIn(s) \ {Head(s)}
PROOF
<1>1. /\ Tail(s) \in Seq(Frames) /\ Len(s) \in Nat \ {0} /\ Len(Tail(s)) = Len(s) - 1
      /\ DOMAIN s = 1 .. Len(s) /\ DOMAIN Tail(s) = 1 .. Len(s) - 1
      /\ Head(s) = s[1] /\ Head(s) \in Frames
      /\ \A i \in 1 .. Len(s) - 1 : Tail(s)[i] = s[i + 1]
  OBVIOUS
<1>2. Head(s) \in Jobs => Head(s) \in JobsIn(s)
  BY <1>1 DEF JobsIn
<1>3. ASSUME NoTwins(s)
      PROVE  NoTwins(Tail(s)) /\ JobsIn(Tail(s)) = JobsIn(s) \ {Head(s)}
  <2>1. NoTwins(Tail(s))
    <3> SUFFICES ASSUME NEW i \in 1 .. Len(s) - 1, NEW k \in 1 .. Len(s) - 1,
                        s[i + 1] = s[k + 1], s[i + 1] \in Jobs
                 PROVE  i = k
      BY <1>1 DEF NoTwins
    <3>1. i + 1 \in DOMAIN s /\ k + 1 \in DOMAIN s
      BY <1>1
    <3>2. i + 1 = k + 1
      BY <1>3, <3>1 DEF NoTwins
    <3> QED BY <3>2
  <2>2. \A x \in Jobs : (\E i \in DOMAIN Tail(s) : Tail(s)[i] = x)
                          <=> (x # s[1] /\ \E i \in DOMAIN s : s[i] = x)
    <3> SUFFICES ASSUME NEW x \in Jobs
                 PROVE  (\E i \in DOMAIN Tail(s) : Tail(s)[i] = x)
                          <=> (x # s[1] /\ \E i \in DOMAIN s : s[i] = x)
      OBVIOUS
    <3>1. ASSUME NEW i \in DOMAIN Tail(s), Tail(s)[i] = x
          PROVE  x # s[1] /\ \E n \in DOMAIN s : s[n] = x
      <4>1. i + 1 \in DOMAIN s /\ s[i + 1] = x /\ i + 1 # 1 /\ 1 \in DOMAIN s
        BY <1>1, <3>1
      <4> QED BY <1>3, <4>1 DEF NoTwins
    <3>2. ASSUME x # s[1], NEW i \in DOMAIN s, s[i] = x
          PROVE  \E n \in DOMAIN Tail(s) : Tail(s)[n] = x
      <4>1. i - 1 \in 1 .. Len(s) - 1 /\ i - 1 + 1 = i
        BY <1>1, <3>2
      <4>2. i - 1 \in DOMAIN Tail(s) /\ Tail(s)[i - 1] = x
        BY <1>1, <3>2, <4>1
      <4> QED BY <4>2
    <3> QED BY <3>1, <3>2
  <2>3. JobsIn(Tail(s)) = JobsIn(s) \ {Head(s)}
    BY <1>1, <2>2 DEF JobsIn
  <2> QED BY <2>1, <2>3
<1> QED BY <1>1, <1>2, <1>3

\* A job moves from the front of one sequence to the end of the other.
LEMMA InTurnMoves ==
  ASSUME NEW s \in Seq(Jobs), NEW t \in Seq(Jobs), NEW j \in Jobs
  PROVE  /\ Append(s \o t, j) = s \o Append(t, j)
         /\ t # <<>> => s \o t = Append(s, Head(t)) \o Tail(t)
PROOF
<1>1. Append(s \o t, j) = s \o Append(t, j)
  <2>1. /\ s \o t \in Seq(Jobs) /\ Append(t, j) \in Seq(Jobs)
        /\ Len(s) \in Nat /\ Len(t) \in Nat
        /\ Len(s \o t) = Len(s) + Len(t) /\ Len(Append(t, j)) = Len(t) + 1
    OBVIOUS
  <2>2. /\ Append(s \o t, j) \in Seq(Jobs) /\ s \o Append(t, j) \in Seq(Jobs)
        /\ Len(Append(s \o t, j)) = Len(s) + Len(t) + 1
        /\ Len(s \o Append(t, j)) = Len(s) + Len(t) + 1
    BY <2>1
  <2>3. \A i \in 1 .. Len(s) + Len(t) + 1 : Append(s \o t, j)[i] = (s \o Append(t, j))[i]
    BY <2>1
  <2> QED BY <2>2, <2>3, SeqEqual
<1>2. ASSUME t # <<>>
      PROVE  s \o t = Append(s, Head(t)) \o Tail(t)
  <2>1. /\ Head(t) \in Jobs /\ Head(t) = t[1] /\ Tail(t) \in Seq(Jobs)
        /\ Len(s) \in Nat /\ Len(t) \in Nat \ {0} /\ Len(Tail(t)) = Len(t) - 1
        /\ \A i \in 1 .. Len(t) - 1 : Tail(t)[i] = t[i + 1]
    BY <1>2
  <2>2. /\ Append(s, Head(t)) \in Seq(Jobs) /\ Len(Append(s, Head(t))) = Len(s) + 1
        /\ Append(s, Head(t))[Len(s) + 1] = t[1]
        /\ \A i \in 1 .. Len(s) : Append(s, Head(t))[i] = s[i]
    BY <2>1
  <2> DEFINE u == Append(s, Head(t))
             v == Tail(t)
  <2> HIDE DEF u, v
  <2>3. /\ u \o v \in Seq(Jobs) /\ s \o t \in Seq(Jobs)
        /\ Len(u \o v) = Len(s) + Len(t) /\ Len(s \o t) = Len(s) + Len(t)
    BY <2>1, <2>2 DEF u, v
  <2>4. \A i \in 1 .. Len(s) + Len(t) : (s \o t)[i] = (u \o v)[i]
    <3> SUFFICES ASSUME NEW i \in 1 .. Len(s) + Len(t)
                 PROVE  (s \o t)[i] = (u \o v)[i]
      OBVIOUS
    <3>1. (s \o t)[i] = IF i <= Len(s) THEN s[i] ELSE t[i - Len(s)]
      BY <2>1
    <3>2. u \in Seq(Jobs) /\ v \in Seq(Jobs) /\ Len(u) = Len(s) + 1 /\ Len(v) = Len(t) - 1
      BY <2>1, <2>2 DEF u, v
    <3>3. (u \o v)[i] = IF i <= Len(s) + 1 THEN u[i] ELSE v[i - (Len(s) + 1)]
      BY <2>1, <3>2
    <3>4. CASE i <= Len(s)
      BY <2>1, <2>2, <3>1, <3>3, <3>4 DEF u
    <3>5. CASE i = Len(s) + 1
      BY <2>1, <2>2, <3>1, <3>3, <3>5 DEF u
    <3>6. CASE i > Len(s) + 1
      <4> DEFINE n == i - (Len(s) + 1)
      <4>1. n \in 1 .. Len(t) - 1 /\ n + 1 = i - Len(s) /\ ~(i <= Len(s)) /\ ~(i <= Len(s) + 1)
        BY <2>1, <3>6
      <4>2. (u \o v)[i] = v[n]
        BY <3>3, <4>1
      <4>3. v[n] = t[n + 1]
        BY <2>1, <4>1 DEF v
      <4> QED BY <3>1, <4>1, <4>2, <4>3
    <3>7. i <= Len(s) \/ i = Len(s) + 1 \/ i > Len(s) + 1
      BY <2>1
    <3> QED BY <3>4, <3>5, <3>6, <3>7
  <2>5. s \o t = u \o v
    BY <2>3, <2>4, SeqEqual
  <2> QED BY <2>5 DEF u, v
<1> QED BY <1>1, <1>2

\* A frame that is sent is at the end of out or, if it is a job's result, among
\* the spilled ones.
LEMMA SentFrames ==
  ASSUME IInv, NEW f \in Frames, f \notin JobsIn(out), send(f)
  PROVE  /\ out' \in Seq(Frames) /\ Len(out') <= OutCap /\ NoTwins(out')
         /\ \/ JobsIn(out') = JobsIn(out) \cup ({f} \cap Jobs) /\ spilled' = spilled
            \/ JobsIn(out') = JobsIn(out) /\ spilled' = spilled \cup ({f} \cap Jobs)
PROOF
<1>1. out \in Seq(Frames) /\ Len(out) \in Nat /\ Len(out) <= OutCap /\ NoTwins(out)
      /\ OutCap \in Nat
  BY DaemonAssumption DEF IInv, LanesInv, TypeOK, TwinInv, Frames
<1>2. CASE Len(out) < OutCap
  <2>1. out' = Append(out, f) /\ spilled' = spilled
    BY <1>2 DEF send
  <2> QED BY <1>1, <1>2, <2>1, AppendJobs
<1>3. CASE ~(Len(out) < OutCap)
  BY <1>1, <1>3 DEF send
<1> QED BY <1>2, <1>3

\* A frame that the write pump takes is gone from out.
LEMMA TakenFrame ==
  ASSUME IInv, out # <<>>, out' = Tail(out)
  PROVE  /\ out' \in Seq(Frames) /\ Len(out') <= OutCap /\ NoTwins(out')
         /\ Head(out) \in Frames /\ (Head(out) \in Jobs => Head(out) \in JobsIn(out))
         /\ JobsIn(out') = JobsIn(out) \ {Head(out)}
PROOF
<1>1. out \in Seq(Frames) /\ Len(out) \in Nat /\ Len(out) <= OutCap /\ NoTwins(out)
      /\ OutCap \in Nat
  BY DaemonAssumption DEF IInv, LanesInv, TypeOK, TwinInv, Frames
<1> QED BY <1>1, TailJobs

\* A worker that can take a job is the only one, and has none.
LEMMA IdleWorker ==
  ASSUME WorkerInv, NEW a \in Agents, Cardinality(running[a]) < workers[a]
  PROVE  workers[a] = 1 /\ running[a] = {}
PROOF
<1>1. Cardinality({}) = 0
  BY FS_EmptySet
<1>2. \A j : Cardinality({j}) = 1
  BY FS_Singleton
<1>3. CASE workers[a] = 0 /\ running[a] = {}
  BY <1>1, <1>3
<1>4. CASE workers[a] = 1 /\ \E j \in Jobs : running[a] = {j}
  <2>1. PICK j \in Jobs : running[a] = {j}
    BY <1>4
  <2>2. Cardinality(running[a]) = 1
    BY <1>2, <2>1
  <2> QED BY <1>4, <2>2
<1> QED BY <1>3, <1>4 DEF WorkerInv
\* A lane that is made gets the first worker of its agent, and no second.
LEMMA LaneMade ==
  ASSUME TypeOK, WorkerInv, NEW a \in Agents, laneFor(a), UNCHANGED running
  PROVE  lanes' \in SUBSET Agents /\ workers' \in [Agents -> Nat] /\ WorkerInv'
PROOF
<1>1. /\ lanes \in SUBSET Agents /\ lanes' = lanes \cup {a} /\ running' = running
      /\ workers \in [Agents -> Nat] /\ workers[a] \in Nat
  BY DEF TypeOK, laneFor
<1>2. \A b \in Agents : workers'[b] = IF b = a /\ b \notin lanes THEN workers[b] + 1 ELSE workers[b]
  BY <1>1 DEF laneFor
<1>3. workers' \in [Agents -> Nat]
  BY <1>1 DEF laneFor
<1>4. WorkerInv'
  <2> SUFFICES ASSUME NEW b \in Agents
               PROVE  /\ \/ workers'[b] = 0 /\ running'[b] = {}
                         \/ workers'[b] = 1 /\ (running'[b] = {} \/ \E j \in Jobs : running'[b] = {j})
                      /\ b \notin lanes' => workers'[b] = 0
    BY DEF WorkerInv
  <2>1. CASE b = a /\ b \notin lanes
    <3>1. workers[b] = 0 /\ running[b] = {}
      BY <2>1 DEF WorkerInv
    <3> QED BY <1>1, <1>2, <2>1, <3>1
  <2>2. CASE ~(b = a /\ b \notin lanes)
    <3>1. workers'[b] = workers[b] /\ running'[b] = running[b] /\ (b \notin lanes' => b \notin lanes)
      BY <1>1, <1>2, <2>2
    <3> QED BY <3>1 DEF WorkerInv
  <2> QED BY <2>1, <2>2
<1> QED BY <1>1, <1>3, <1>4
-----------------------------------------------------------------------------
(* Every step keeps the invariant.                                         *)

\* Steps that move no job
LEMMA StillJobs ==
  ASSUME IInv, UNCHANGED <<queue, running, arrived, taken, ran>>,
         JobsIn(out') = JobsIn(out), NoTwins(out'),
         UNCHANGED <<written, lost, spilled>>
  PROVE  InTurn' /\ TwinInv' /\ LaneInv' /\ PlaceInv'
PROOF BY DEF IInv, LanesInv, InTurn, TwinInv, LaneInv, PlaceInv, Gone

LEMMA ConnectKeeps ==
  ASSUME IInv, Connect
  PROVE  IInv'
PROOF
<1>1. TypeOK' /\ LinkInv'
  BY DaemonAssumption DEF IInv, LanesInv, TypeOK, LinkInv, Connect, laneVars, history
<1>2. WorkerInv'
  BY DEF IInv, LanesInv, TypeOK, WorkerInv, Connect, laneVars, history
<1>3. InTurn' /\ TwinInv' /\ LaneInv' /\ PlaceInv'
  BY StillJobs DEF IInv, TwinInv, Connect, laneVars, history
<1> QED BY <1>1, <1>2, <1>3 DEF IInv, LanesInv

LEMMA LinkBreaksKeeps ==
  ASSUME IInv, LinkBreaks
  PROVE  IInv'
PROOF
<1>1. TypeOK' /\ LinkInv'
  BY DaemonAssumption DEF IInv, LanesInv, TypeOK, LinkInv, LinkBreaks, laneVars, history
<1>2. WorkerInv'
  BY DEF IInv, LanesInv, TypeOK, WorkerInv, LinkBreaks, laneVars, history
<1>3. InTurn' /\ TwinInv' /\ LaneInv' /\ PlaceInv'
  BY StillJobs DEF IInv, TwinInv, LinkBreaks, laneVars, history
<1> QED BY <1>1, <1>2, <1>3 DEF IInv, LanesInv

LEMMA PumpEndsKeeps ==
  ASSUME IInv, PumpEnds
  PROVE  IInv'
PROOF
<1>1. TypeOK' /\ LinkInv'
  BY DaemonAssumption DEF IInv, LanesInv, TypeOK, LinkInv, PumpEnds, laneVars, history
<1>2. WorkerInv'
  BY DEF IInv, LanesInv, TypeOK, WorkerInv, PumpEnds, laneVars, history
<1>3. InTurn' /\ TwinInv' /\ LaneInv' /\ PlaceInv'
  BY StillJobs DEF IInv, TwinInv, PumpEnds, laneVars, history
<1> QED BY <1>1, <1>2, <1>3 DEF IInv, LanesInv

LEMMA WorkerEndsKeeps ==
  ASSUME IInv, NEW a \in Agents, WorkerEnds(a)
  PROVE  IInv'
PROOF
<1>1. TypeOK' /\ LinkInv'
  <2>1. workers[a] = 1 /\ workers \in [Agents -> Nat]
    BY IdleWorker DEF IInv, LanesInv, TypeOK, WorkerEnds
  <2>2. workers' = [workers EXCEPT ![a] = 0]
    BY <2>1 DEF WorkerEnds
  <2>3. workers' \in [Agents -> Nat]
    BY <2>1, <2>2
  <2> QED BY <2>3 DEF IInv, LanesInv, TypeOK, LinkInv, WorkerEnds, linkVars, history
<1>2. WorkerInv'
  <2>1. workers[a] = 1 /\ running[a] = {}
    BY IdleWorker DEF IInv, LanesInv, WorkerEnds
  <2>2. workers'[a] = 0 /\ running' = running
        /\ \A b \in Agents : b # a => workers'[b] = workers[b]
    BY <2>1 DEF IInv, LanesInv, TypeOK, WorkerEnds
  <2>3. lanes' = lanes
    BY DEF WorkerEnds
  <2> QED BY <2>1, <2>2, <2>3 DEF IInv, LanesInv, WorkerInv
<1>3. InTurn' /\ TwinInv' /\ LaneInv' /\ PlaceInv'
  BY StillJobs DEF IInv, TwinInv, WorkerEnds, linkVars, history
<1> QED BY <1>1, <1>2, <1>3 DEF IInv, LanesInv

LEMMA StopKeeps ==
  ASSUME IInv, Stop
  PROVE  IInv'
PROOF
<1>1. TypeOK' /\ LinkInv'
  BY DaemonAssumption DEF IInv, LanesInv, TypeOK, LinkInv, Stop, laneVars, history
<1>2. WorkerInv'
  BY DEF IInv, LanesInv, TypeOK, WorkerInv, Stop, laneVars, history
<1>3. InTurn' /\ TwinInv' /\ LaneInv' /\ PlaceInv'
  BY StillJobs DEF IInv, TwinInv, Stop, laneVars, history
<1> QED BY <1>1, <1>2, <1>3 DEF IInv, LanesInv

LEMMA ExitKeeps ==
  ASSUME IInv, Exit
  PROVE  IInv'
PROOF
<1>1. TypeOK' /\ LinkInv'
  BY DaemonAssumption DEF IInv, LanesInv, TypeOK, LinkInv, Exit, laneVars, history
<1>2. WorkerInv'
  BY DEF IInv, LanesInv, TypeOK, WorkerInv, Exit, laneVars, history
<1>3. InTurn' /\ TwinInv' /\ LaneInv' /\ PlaceInv'
  BY StillJobs DEF IInv, TwinInv, Exit, laneVars, history
<1> QED BY <1>1, <1>2, <1>3 DEF IInv, LanesInv

LEMMA reloadKeeps ==
  ASSUME IInv, NEW more \in SUBSET Agents, reload(more)
  PROVE  IInv'
PROOF
<1>1. Other \in Frames /\ Other \notin Jobs
  BY DaemonAssumption DEF Frames
<1>2. /\ out' \in Seq(Frames) /\ Len(out') <= OutCap /\ NoTwins(out')
      /\ JobsIn(out') = JobsIn(out) /\ spilled' = spilled
  <2>1. Other \notin JobsIn(out)
    BY <1>1 DEF JobsIn
  <2> QED BY <1>1, <2>1, SentFrames DEF reload
<1>3. TypeOK' /\ LinkInv'
  BY <1>2 DEF IInv, LanesInv, TypeOK, LinkInv, Frames, reload, linkVars
<1>4. WorkerInv'
  BY DEF IInv, LanesInv, WorkerInv, reload
<1>5. InTurn' /\ TwinInv' /\ LaneInv' /\ PlaceInv'
  BY <1>2, StillJobs DEF reload
<1> QED BY <1>3, <1>4, <1>5 DEF IInv, LanesInv

\* The write pump takes a frame; its job, if it has one, is written or lost.
LEMMA OutShrinks ==
  ASSUME IInv, out # <<>>, out' = Tail(out),
         UNCHANGED <<queue, running, arrived, taken, ran, spilled>>,
         \/ written' = written \cup ({Head(out)} \cap Jobs) /\ lost' = lost
         \/ lost' = lost \cup ({Head(out)} \cap Jobs) /\ written' = written
  PROVE  /\ out' \in Seq(Frames) /\ Len(out') <= OutCap
         /\ {written', lost', spilled'} \subseteq SUBSET Jobs
         /\ InTurn' /\ TwinInv' /\ LaneInv' /\ PlaceInv'
PROOF
<1>1. /\ out' \in Seq(Frames) /\ Len(out') <= OutCap /\ NoTwins(out')
      /\ Head(out) \in Jobs => Head(out) \in JobsIn(out)
      /\ JobsIn(out') = JobsIn(out) \ {Head(out)}
  BY TakenFrame
<1>2. {written', lost', spilled'} \subseteq SUBSET Jobs
  BY DEF IInv, LanesInv, TypeOK
<1>3. InTurn' /\ TwinInv' /\ LaneInv'
  BY <1>1 DEF IInv, LanesInv, InTurn, TwinInv, LaneInv
<1>4. PlaceInv'
  BY <1>1 DEF IInv, PlaceInv, Gone
<1> QED BY <1>1, <1>2, <1>3, <1>4

LEMMA WriteKeeps ==
  ASSUME IInv, Write
  PROVE  IInv'
PROOF
<1>1. /\ out' \in Seq(Frames) /\ Len(out') <= OutCap
      /\ {written', lost', spilled'} \subseteq SUBSET Jobs
      /\ InTurn' /\ TwinInv' /\ LaneInv' /\ PlaceInv'
  BY OutShrinks DEF Write, laneVars
<1>2. TypeOK' /\ LinkInv' /\ WorkerInv'
  BY <1>1 DEF IInv, LanesInv, TypeOK, LinkInv, WorkerInv, Frames, Write, linkVars, laneVars
<1> QED BY <1>1, <1>2 DEF IInv, LanesInv

LEMMA WriteFailsKeeps ==
  ASSUME IInv, WriteFails
  PROVE  IInv'
PROOF
<1>1. /\ out' \in Seq(Frames) /\ Len(out') <= OutCap
      /\ {written', lost', spilled'} \subseteq SUBSET Jobs
      /\ InTurn' /\ TwinInv' /\ LaneInv' /\ PlaceInv'
  <2>1. CASE UNCHANGED <<out, lost>>
    BY <2>1, StillJobs DEF IInv, LanesInv, TypeOK, TwinInv, Frames, WriteFails, laneVars
  <2>2. CASE out # <<>> /\ out' = Tail(out) /\ lost' = lost \cup ({Head(out)} \cap Jobs)
    BY <2>2, OutShrinks DEF WriteFails, laneVars
  <2> QED BY <2>1, <2>2 DEF WriteFails
<1>2. TypeOK' /\ LinkInv' /\ WorkerInv'
  BY <1>1 DEF IInv, LanesInv, TypeOK, LinkInv, WorkerInv, Frames, WriteFails, laneVars
<1> QED BY <1>1, <1>2 DEF IInv, LanesInv

\* A lane takes in a job at the end of its queue.
LEMMA EnqueueKeeps ==
  ASSUME IInv, NEW j \in Jobs, Arrive(j), Enqueue(j)
  PROVE  IInv'
PROOF
<1> DEFINE a == AgentOf[j]
<1>1. /\ a \in Agents /\ session # 0 /\ session \in 0 .. MaxSessions
      /\ QueueDepth \in Nat /\ j \in Frames
  BY DaemonAssumption DEF IInv, LanesInv, TypeOK, LinkInv, Arrive, Frames
<1>2. /\ queue' = [queue EXCEPT ![a] = Append(queue[a], j)]
      /\ taken' = [taken EXCEPT ![a] = Append(taken[a], j)]
      /\ laneFor(a)
      /\ Len(queue[a]) < QueueDepth
      /\ arrived' = [arrived EXCEPT ![j] = session] /\ arrived[j] = 0
      /\ UNCHANGED <<life, link, pump, session, agents, running, out, ran, written, lost, spilled>>
  BY DEF Arrive, Enqueue, linkVars
<1> HIDE DEF a
<1>3. /\ queue \in [Agents -> Seq(Jobs)] /\ taken \in [Agents -> Seq(Jobs)]
      /\ ran \in [Agents -> Seq(Jobs)] /\ workers \in [Agents -> Nat]
      /\ arrived \in [Jobs -> 0 .. MaxSessions]
  BY DEF IInv, LanesInv, TypeOK
<1>4. queue[a] \in Seq(Jobs) /\ queue[a] \in Seq(Frames)
  BY <1>1, <1>3 DEF Frames
<1>5. a = AgentOf[j] /\ j \notin JobsIn(queue[a])
  BY <1>2 DEF IInv, PlaceInv, a
<1>6. /\ Append(queue[a], j) \in Seq(Jobs)
      /\ Len(Append(queue[a], j)) <= QueueDepth
      /\ JobsIn(Append(queue[a], j)) = JobsIn(queue[a]) \cup {j}
      /\ NoTwins(Append(queue[a], j))
  <2>1. Len(queue[a]) \in Nat /\ NoTwins(queue[a])
    BY <1>1, <1>4 DEF IInv, TwinInv
  <2>2. {j} \cap Jobs = {j}
    OBVIOUS
  <2>3. Append(queue[a], j) \in Seq(Jobs)
    BY <1>4
  <2> QED BY <1>1, <1>2, <1>4, <1>5, <2>1, <2>2, <2>3, AppendJobs
<1>7. \A b \in Agents :
        /\ queue'[b] = IF b = a THEN Append(queue[a], j) ELSE queue[b]
        /\ taken'[b] = IF b = a THEN Append(taken[a], j) ELSE taken[b]
  BY <1>2, <1>3
<1>8. TypeOK' /\ LinkInv'
  <2>1. queue' \in [Agents -> Seq(Jobs)] /\ taken' \in [Agents -> Seq(Jobs)]
    BY <1>1, <1>2, <1>3, <1>6
  <2>2. \A b \in Agents : Len(queue'[b]) <= QueueDepth
    BY <1>6, <1>7 DEF IInv, LanesInv, TypeOK
  <2>3. arrived' \in [Jobs -> 0 .. MaxSessions]
    BY <1>1, <1>2, <1>3
  <2>4. lanes' \in SUBSET Agents /\ workers' \in [Agents -> Nat]
    BY <1>1, <1>2, LaneMade DEF IInv, LanesInv
  <2> QED BY <1>2, <2>1, <2>2, <2>3, <2>4 DEF IInv, LanesInv, TypeOK, LinkInv
<1>9. WorkerInv'
  BY <1>1, <1>2, LaneMade DEF IInv, LanesInv
<1>10. InTurn'
  <2>1. Append(taken[a], j) = ran[a] \o Append(queue[a], j)
    <3>1. taken[a] = ran[a] \o queue[a] /\ ran[a] \in Seq(Jobs)
      BY <1>1, <1>3 DEF IInv, LanesInv, InTurn
    <3>2. Append(ran[a] \o queue[a], j) = ran[a] \o Append(queue[a], j)
      BY <1>4, <3>1, InTurnMoves
    <3> QED BY <3>1, <3>2
  <2> QED BY <1>2, <1>7, <2>1 DEF IInv, LanesInv, InTurn
<1>11. TwinInv' /\ LaneInv'
  BY <1>2, <1>5, <1>6, <1>7 DEF IInv, TwinInv, LaneInv
<1>12. PlaceInv'
  <2> SUFFICES ASSUME NEW k \in Jobs
               PROVE  LET b == AgentOf[k] IN
                      /\ arrived'[k] # 0 <=> \/ k \in JobsIn(queue'[b]) \/ k \in running[b]
                                              \/ k \in JobsIn(out) \/ Gone(k)
                      /\ k \in JobsIn(queue'[b]) =>
                           k \notin running[b] /\ k \notin JobsIn(out) /\ ~Gone(k)
    BY <1>2 DEF IInv, PlaceInv, Gone
  <2>1. AgentOf[k] \in Agents
    BY DaemonAssumption
  <2>2. CASE k = j
    BY <1>1, <1>2, <1>3, <1>5, <1>6, <1>7, <2>2 DEF IInv, PlaceInv
  <2>3. CASE k # j
    <3>1. arrived'[k] = arrived[k]
      BY <1>2, <1>3, <2>3
    <3>2. k \in JobsIn(queue'[AgentOf[k]]) <=> k \in JobsIn(queue[AgentOf[k]])
      BY <1>6, <1>7, <2>1, <2>3
    <3> QED BY <3>1, <3>2 DEF IInv, PlaceInv
  <2> QED BY <2>2, <2>3
<1> QED BY <1>8, <1>9, <1>10, <1>11, <1>12 DEF IInv, LanesInv

\* A job that no lane takes in is answered at once.
LEMMA AnswerAtOnceKeeps ==
  ASSUME IInv, NEW j \in Jobs, Arrive(j), TooMany(j) \/ Refuse(j)
  PROVE  IInv'
PROOF
<1>1. /\ AgentOf[j] \in Agents /\ session # 0 /\ session \in 0 .. MaxSessions
      /\ j \in Frames /\ {j} \cap Jobs = {j}
  <2>1. session # 0 /\ session \in 0 .. MaxSessions
    BY DEF IInv, LanesInv, TypeOK, LinkInv, Arrive
  <2>2. AgentOf[j] \in Agents /\ j \in Frames /\ {j} \cap Jobs = {j}
    BY DaemonAssumption DEF Frames
  <2> QED BY <2>1, <2>2
<1>2. /\ arrived' = [arrived EXCEPT ![j] = session] /\ arrived[j] = 0
      /\ UNCHANGED <<life, link, pump, session, agents, running, queue, taken, ran, written, lost>>
      /\ send(j)
  BY DEF Arrive, TooMany, Refuse, linkVars
<1>3. j \notin JobsIn(queue[AgentOf[j]]) /\ j \notin running[AgentOf[j]]
      /\ j \notin JobsIn(out) /\ ~Gone(j)
  BY <1>2 DEF IInv, PlaceInv
<1>4. /\ out' \in Seq(Frames) /\ Len(out') <= OutCap /\ NoTwins(out')
      /\ \/ JobsIn(out') = JobsIn(out) \cup {j} /\ spilled' = spilled
         \/ JobsIn(out') = JobsIn(out) /\ spilled' = spilled \cup {j}
  BY <1>1, <1>2, <1>3, SentFrames
<1>5. arrived' \in [Jobs -> 0 .. MaxSessions]
      /\ \A k \in Jobs : arrived'[k] = IF k = j THEN session ELSE arrived[k]
  BY <1>1, <1>2 DEF IInv, LanesInv, TypeOK
<1>6. lanes' \in SUBSET Agents /\ workers' \in [Agents -> Nat] /\ WorkerInv'
  <2>1. CASE laneFor(AgentOf[j])
    BY <1>1, <1>2, <2>1, LaneMade DEF IInv, LanesInv
  <2>2. CASE UNCHANGED <<lanes, workers>>
    BY <1>2, <2>2 DEF IInv, LanesInv, TypeOK, WorkerInv
  <2> QED BY <2>1, <2>2 DEF TooMany, Refuse
<1>7. TypeOK' /\ LinkInv'
  <2>1. {written', lost', spilled'} \subseteq SUBSET Jobs
    BY <1>2, <1>4 DEF IInv, LanesInv, TypeOK
  <2> QED BY <1>2, <1>4, <1>5, <1>6, <2>1 DEF IInv, LanesInv, TypeOK, LinkInv, Frames
<1>8. WorkerInv'
  BY <1>6
<1>9. InTurn' /\ TwinInv' /\ LaneInv'
  BY <1>2, <1>4 DEF IInv, LanesInv, InTurn, TwinInv, LaneInv
<1>10. PlaceInv'
  BY <1>1, <1>2, <1>3, <1>4, <1>5 DEF IInv, PlaceInv, Gone
<1> QED BY <1>7, <1>8, <1>9, <1>10 DEF IInv, LanesInv

LEMMA TakeKeeps ==
  ASSUME IInv, NEW a \in Agents, Take(a)
  PROVE  IInv'
PROOF
<1> DEFINE h == Head(queue[a])
<1>1. /\ queue \in [Agents -> Seq(Jobs)] /\ ran \in [Agents -> Seq(Jobs)]
      /\ running \in [Agents -> SUBSET Jobs]
      /\ queue[a] \in Seq(Jobs) /\ queue[a] \in Seq(Frames) /\ queue[a] # <<>>
      /\ Len(queue[a]) <= QueueDepth /\ QueueDepth \in Nat
  <2>1. /\ queue \in [Agents -> Seq(Jobs)] /\ ran \in [Agents -> Seq(Jobs)]
        /\ running \in [Agents -> SUBSET Jobs] /\ Len(queue[a]) <= QueueDepth
    BY DEF IInv, LanesInv, TypeOK
  <2>2. queue[a] # <<>> /\ QueueDepth \in Nat
    BY DaemonAssumption DEF Take
  <2>3. queue[a] \in Seq(Jobs) /\ queue[a] \in Seq(Frames)
    BY <2>1 DEF Frames
  <2> QED BY <2>1, <2>2, <2>3
<1>2. workers[a] = 1 /\ running[a] = {}
  BY IdleWorker DEF IInv, LanesInv, Take
<1>3. /\ queue' = [queue EXCEPT ![a] = Tail(queue[a])]
      /\ running' = [running EXCEPT ![a] = running[a] \cup {h}]
      /\ ran' = [ran EXCEPT ![a] = Append(ran[a], h)]
      /\ UNCHANGED <<life, link, pump, session, agents, lanes, workers, out, arrived, taken,
                     written, lost, spilled>>
  BY DEF Take, linkVars
<1>4. /\ h \in Jobs /\ h \in JobsIn(queue[a]) /\ AgentOf[h] = a
      /\ Tail(queue[a]) \in Seq(Jobs) /\ Len(Tail(queue[a])) <= QueueDepth
      /\ NoTwins(Tail(queue[a])) /\ JobsIn(Tail(queue[a])) = JobsIn(queue[a]) \ {h}
  <2>1. h \in Jobs /\ Tail(queue[a]) \in Seq(Jobs) /\ Len(Tail(queue[a])) = Len(queue[a]) - 1
        /\ Len(queue[a]) \in Nat
    BY <1>1
  <2>2. NoTwins(queue[a])
    BY DEF IInv, TwinInv
  <2>3. /\ h \in JobsIn(queue[a]) /\ NoTwins(Tail(queue[a]))
        /\ JobsIn(Tail(queue[a])) = JobsIn(queue[a]) \ {h}
    BY <1>1, <2>1, <2>2, TailJobs
  <2> QED BY <1>1, <2>1, <2>3 DEF IInv, LaneInv
<1> HIDE DEF h
<1>5. \A b \in Agents :
        /\ queue'[b] = IF b = a THEN Tail(queue[a]) ELSE queue[b]
        /\ running'[b] = IF b = a THEN {h} ELSE running[b]
        /\ ran'[b] = IF b = a THEN Append(ran[a], h) ELSE ran[b]
  BY <1>1, <1>2, <1>3
<1>6. TypeOK' /\ LinkInv'
  <2>1. /\ queue' \in [Agents -> Seq(Jobs)] /\ running' \in [Agents -> SUBSET Jobs]
        /\ ran' \in [Agents -> Seq(Jobs)]
    BY <1>1, <1>3, <1>4
  <2>2. \A b \in Agents : Len(queue'[b]) <= QueueDepth
    BY <1>4, <1>5 DEF IInv, LanesInv, TypeOK
  <2> QED BY <1>3, <2>1, <2>2 DEF IInv, LanesInv, TypeOK, LinkInv
<1>7. WorkerInv'
  BY <1>2, <1>3, <1>4, <1>5 DEF IInv, LanesInv, WorkerInv
<1>8. InTurn'
  <2>1. ran[a] \o queue[a] = Append(ran[a], h) \o Tail(queue[a])
    <3>1. ran[a] \in Seq(Jobs)
      BY <1>1
    <3> QED BY <1>1, <1>4, <3>1, InTurnMoves DEF h
  <2> QED BY <1>3, <1>5, <2>1 DEF IInv, LanesInv, InTurn
<1>9. TwinInv' /\ LaneInv'
  BY <1>3, <1>4, <1>5 DEF IInv, TwinInv, LaneInv
<1>10. PlaceInv'
  <2> SUFFICES ASSUME NEW k \in Jobs
               PROVE  LET b == AgentOf[k] IN
                      /\ k \in JobsIn(queue'[b]) \/ k \in running'[b]
                           <=> k \in JobsIn(queue[b]) \/ k \in running[b]
                      /\ ~(k \in JobsIn(queue'[b]) /\ k \in running'[b])
    BY <1>3 DEF IInv, PlaceInv, Gone
  <2>1. AgentOf[k] \in Agents
    BY DaemonAssumption
  <2> QED BY <1>2, <1>4, <1>5, <2>1 DEF IInv, PlaceInv
<1> QED BY <1>6, <1>7, <1>8, <1>9, <1>10 DEF IInv, LanesInv

LEMMA FinishKeeps ==
  ASSUME IInv, NEW a \in Agents, NEW j \in Jobs, Finish(a, j)
  PROVE  IInv'
PROOF
<1>1. /\ running' = [running EXCEPT ![a] = running[a] \ {j}] /\ j \in running[a] /\ send(j)
      /\ UNCHANGED <<life, link, pump, session, agents, lanes, queue, workers, arrived, taken, ran,
                     written, lost>>
  BY DEF Finish, linkVars
<1>2. /\ AgentOf[j] = a /\ j \notin JobsIn(queue[a]) /\ j \notin JobsIn(out) /\ ~Gone(j)
      /\ arrived[j] # 0
  BY <1>1 DEF IInv, LaneInv, PlaceInv
<1>3. j \in Frames /\ {j} \cap Jobs = {j}
  BY DEF Frames
<1>4. /\ out' \in Seq(Frames) /\ Len(out') <= OutCap /\ NoTwins(out')
      /\ \/ JobsIn(out') = JobsIn(out) \cup {j} /\ spilled' = spilled
         \/ JobsIn(out') = JobsIn(out) /\ spilled' = spilled \cup {j}
  BY <1>1, <1>2, <1>3, SentFrames
<1>5. workers[a] = 1 /\ running[a] = {j}
  BY <1>1 DEF IInv, LanesInv, WorkerInv
<1>6. running' \in [Agents -> SUBSET Jobs]
      /\ \A b \in Agents : running'[b] = IF b = a THEN {} ELSE running[b]
  BY <1>1, <1>5 DEF IInv, LanesInv, TypeOK
<1>7. TypeOK' /\ LinkInv'
  <2>1. {written', lost', spilled'} \subseteq SUBSET Jobs
    BY <1>1, <1>4 DEF IInv, LanesInv, TypeOK
  <2> QED BY <1>1, <1>4, <1>6, <2>1 DEF IInv, LanesInv, TypeOK, LinkInv, Frames
<1>8. WorkerInv'
  BY <1>1, <1>5, <1>6 DEF IInv, LanesInv, WorkerInv
<1>9. InTurn' /\ TwinInv' /\ LaneInv'
  BY <1>1, <1>4, <1>6 DEF IInv, LanesInv, InTurn, TwinInv, LaneInv
<1>10. PlaceInv'
  <2> SUFFICES ASSUME NEW k \in Jobs
               PROVE  (LET b == AgentOf[k]
                       IN /\ arrived[k] # 0 <=> \/ k \in JobsIn(queue[b]) \/ k \in running'[b]
                                                 \/ k \in JobsIn(out') \/ Gone(k)'
                          /\ k \in JobsIn(queue[b]) =>
                               k \notin running'[b] /\ k \notin JobsIn(out') /\ ~Gone(k)'
                          /\ k \in running'[b] => k \notin JobsIn(out') /\ ~Gone(k)'
                          /\ k \in JobsIn(out') => ~Gone(k)'
                          /\ ~(k \in written /\ k \in lost) /\ ~(k \in written /\ k \in spilled')
                          /\ ~(k \in lost /\ k \in spilled'))
    BY <1>1 DEF PlaceInv
  <2>1. AgentOf[k] \in Agents
    BY DaemonAssumption
  <2>2. CASE k = j
    BY <1>1, <1>2, <1>4, <1>6, <2>2 DEF Gone
  <2>3. CASE k # j
    <3>1. running'[AgentOf[k]] = running[AgentOf[k]] \/ (AgentOf[k] = a /\ k \notin running[a])
      BY <1>5, <1>6, <2>1, <2>3
    <3> QED BY <1>1, <1>4, <1>6, <2>1, <2>3, <3>1 DEF IInv, PlaceInv, Gone
  <2> QED BY <2>2, <2>3
<1> QED BY <1>7, <1>8, <1>9, <1>10 DEF IInv, LanesInv
-----------------------------------------------------------------------------
(* The theorems.                                                           *)

LEMMA InitIInv == Init => IInv
PROOF
<1> SUFFICES ASSUME Init PROVE IInv
  OBVIOUS
<1>1. JobsIn(<<>>) = {} /\ NoTwins(<<>>)
  BY DEF JobsIn, NoTwins
<1>2. TypeOK /\ LinkInv
  <2>1. /\ queue \in [Agents -> Seq(Jobs)] /\ \A a \in Agents : Len(queue[a]) <= QueueDepth
        /\ taken \in [Agents -> Seq(Jobs)] /\ ran \in [Agents -> Seq(Jobs)]
        /\ workers \in [Agents -> Nat] /\ running \in [Agents -> SUBSET Jobs]
    BY DaemonAssumption DEF Init
  <2>2. /\ out \in Seq(Frames) /\ Len(out) <= OutCap
        /\ session \in 0 .. MaxSessions /\ arrived \in [Jobs -> 0 .. MaxSessions]
        /\ {written, lost, spilled} \subseteq SUBSET Jobs
    BY DaemonAssumption DEF Init
  <2>3. /\ life \in {"running", "stopping", "stopped"} /\ link = "down"
        /\ agents \in SUBSET Agents /\ lanes \in SUBSET Agents
    BY DEF Init
  <2>4. pump \in BOOLEAN
    BY Zenon DEF Init
  <2> QED BY <2>1, <2>2, <2>3, <2>4 DEF TypeOK, LinkInv, Frames
<1>3. WorkerInv
  BY DEF Init, WorkerInv
<1>4. InTurn
  <2>1. <<>> = <<>> \o <<>>
    OBVIOUS
  <2> QED BY <2>1 DEF Init, InTurn
<1>5. TwinInv /\ LaneInv
  BY <1>1 DEF Init, TwinInv, LaneInv
<1>6. PlaceInv
  BY <1>1, DaemonAssumption DEF Init, PlaceInv, Gone
<1> QED BY <1>2, <1>3, <1>4, <1>5, <1>6 DEF IInv, LanesInv

LEMMA NextIInv == IInv /\ [Next]_vars => IInv'
PROOF
<1> SUFFICES ASSUME IInv, [Next]_vars PROVE IInv'
  OBVIOUS
<1>1. CASE UNCHANGED vars
  BY <1>1 DEF IInv, LanesInv, TypeOK, WorkerInv, InTurn, LinkInv, TwinInv, LaneInv, PlaceInv,
              Gone, vars, linkVars, laneVars, history
<1>2. ASSUME NEW j \in Jobs, Arrive(j) PROVE IInv'
  BY <1>2, EnqueueKeeps, AnswerAtOnceKeeps DEF Arrive
<1>3. CASE \/ \E a \in Agents : Take(a) \/ WorkerEnds(a)
           \/ \E a \in Agents, j \in Jobs : Finish(a, j)
           \/ \E more \in SUBSET Agents : reload(more)
  BY <1>3, TakeKeeps, WorkerEndsKeeps, FinishKeeps, reloadKeeps
<1>4. CASE Connect \/ LinkBreaks \/ Write \/ WriteFails \/ PumpEnds \/ Stop \/ Exit
  BY <1>4, ConnectKeeps, LinkBreaksKeeps, WriteKeeps, WriteFailsKeeps,
     PumpEndsKeeps, StopKeeps, ExitKeeps
<1> QED BY <1>1, <1>2, <1>3, <1>4 DEF Next

\* With its places exclusive, a job is in exactly one of them.
LEMMA OnePlace == IInv => Accounted
PROOF
<1> SUFFICES ASSUME IInv, NEW j \in Jobs
             PROVE  Cardinality(Places(j)) = IF arrived[j] = 0 THEN 0 ELSE 1
  BY DEF Accounted
<1> DEFINE a == AgentOf[j]
<1>1. a \in Agents
  BY DaemonAssumption
<1>2. \A b \in Agents : j \in JobsIn(queue[b]) \/ j \in running[b] => AgentOf[j] = b
  BY DEF IInv, LaneInv
<1>3. \A i \in DOMAIN out : out[i] = j => j \in JobsIn(out)
  BY DEF JobsIn
<1>4. \A i, k \in DOMAIN out : out[i] = j /\ out[k] = j => i = k
  BY DEF IInv, TwinInv, NoTwins
<1>5. \A p : p \in Places(j) <=>
        \/ p = <<"queue", a>> /\ j \in JobsIn(queue[a])
        \/ p = <<"running", a>> /\ j \in running[a]
        \/ \E i \in DOMAIN out : p = <<"out", i>> /\ out[i] = j
        \/ p = <<"written", 0>> /\ j \in written
        \/ p = <<"lost", 0>> /\ j \in lost
        \/ p = <<"spilled", 0>> /\ j \in spilled
  <2>1. \A p : p \in {q \in {<<"queue", b>> : b \in Agents} : j \in JobsIn(queue[q[2]])}
                 <=> p = <<"queue", a>> /\ j \in JobsIn(queue[a])
    <3> SUFFICES ASSUME NEW p
                 PROVE  (p \in {<<"queue", b>> : b \in Agents} /\ j \in JobsIn(queue[p[2]]))
                          <=> (p = <<"queue", a>> /\ j \in JobsIn(queue[a]))
      OBVIOUS
    <3>1. ASSUME NEW b \in Agents, p = <<"queue", b>>, j \in JobsIn(queue[p[2]])
          PROVE  p = <<"queue", a>> /\ j \in JobsIn(queue[a])
      <4>1. p[2] = b
        BY <3>1
      <4>2. j \in JobsIn(queue[b])
        BY <3>1, <4>1
      <4>3. b = a
        BY <1>2, <3>1, <4>2
      <4> QED BY <3>1, <4>2, <4>3
    <3>2. ASSUME p = <<"queue", a>>, j \in JobsIn(queue[a])
          PROVE  p \in {<<"queue", b>> : b \in Agents} /\ j \in JobsIn(queue[p[2]])
      BY <1>1, <3>2
    <3> QED BY <3>1, <3>2
  <2>2. \A p : p \in {q \in {<<"running", b>> : b \in Agents} : j \in running[q[2]]}
                 <=> p = <<"running", a>> /\ j \in running[a]
    <3> SUFFICES ASSUME NEW p
                 PROVE  (p \in {<<"running", b>> : b \in Agents} /\ j \in running[p[2]])
                          <=> (p = <<"running", a>> /\ j \in running[a])
      OBVIOUS
    <3>1. ASSUME NEW b \in Agents, p = <<"running", b>>, j \in running[p[2]]
          PROVE  p = <<"running", a>> /\ j \in running[a]
      <4>1. p[2] = b
        BY <3>1
      <4>2. j \in running[b]
        BY <3>1, <4>1
      <4>3. b = a
        BY <1>2, <3>1, <4>2
      <4> QED BY <3>1, <4>2, <4>3
    <3>2. ASSUME p = <<"running", a>>, j \in running[a]
          PROVE  p \in {<<"running", b>> : b \in Agents} /\ j \in running[p[2]]
      BY <1>1, <3>2
    <3> QED BY <3>1, <3>2
  <2>3. \A p : p \in {q \in {<<"out", i>> : i \in DOMAIN out} : out[q[2]] = j}
                 <=> \E i \in DOMAIN out : p = <<"out", i>> /\ out[i] = j
    <3>1. \A i : <<"out", i>>[2] = i
      OBVIOUS
    <3> QED BY <3>1
  <2> QED BY <2>1, <2>2, <2>3 DEF Places
<1>6. \A p, q \in Places(j) : p = q
  BY <1>3, <1>4, <1>5 DEF IInv, PlaceInv, Gone
<1>7. CASE arrived[j] = 0
  <2>1. Places(j) = {}
    BY <1>3, <1>5, <1>7 DEF IInv, PlaceInv, Gone
  <2> QED BY <1>7, <2>1, FS_EmptySet
<1>8. CASE arrived[j] # 0
  <2>1. \E p : p \in Places(j)
    <3>1. j \in JobsIn(out) => \E i \in DOMAIN out : out[i] = j
      BY DEF JobsIn
    <3> QED BY <1>5, <1>8, <3>1 DEF IInv, PlaceInv, Gone
  <2>2. PICK p : Places(j) = {p}
    BY <1>6, <2>1
  <2> QED BY <1>8, <2>2, FS_Singleton
<1> QED BY <1>7, <1>8

\* A lane's worker is alone whenever a job runs.
LEMMA OneWorker == IInv => OneAtATime
PROOF
<1> SUFFICES ASSUME IInv, NEW a \in Agents
             PROVE  Cardinality(running[a]) <= 1
  BY DEF OneAtATime
<1>1. CASE running[a] = {}
  BY <1>1, FS_EmptySet
<1>2. CASE \E j \in Jobs : running[a] = {j}
  <2>1. PICK j : running[a] = {j}
    BY <1>2
  <2>2. Cardinality(running[a]) = 1
    BY <2>1, FS_Singleton
  <2> QED BY <2>2
<1> QED BY <1>1, <1>2 DEF IInv, LanesInv, WorkerInv

\* The lanes, the queue of frames and the session stay well formed, and neither
\* queue exceeds its capacity (daemon.go, enqueue and send).
THEOREM TypeCorrect == Spec => []TypeOK
PROOF
<1>1. IInv => TypeOK
  BY DEF IInv, LanesInv
<1> QED BY <1>1, InitIInv, NextIInv, PTL DEF Spec

\* Two jobs of one agent never run at once (daemon.go, laneFor and runLane).
THEOREM OneJobAtATime == Spec => []OneAtATime
PROOF BY OneWorker, InitIInv, NextIInv, PTL DEF Spec

\* A lane runs what it has taken in, in that order, through reconnections.
THEOREM LanesRunInTurn == Spec => []InTurn
PROOF
<1>1. IInv => InTurn
  BY DEF IInv, LanesInv
<1> QED BY <1>1, InitIInv, NextIInv, PTL DEF Spec

\* A job that has arrived has one result, which is in one place, or was lost or
\* dropped in one way; it is never answered twice and never forgotten.
THEOREM EveryJobAccounted == Spec => []Accounted
PROOF BY OnePlace, InitIInv, NextIInv, PTL DEF Spec
=============================================================================
