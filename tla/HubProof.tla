------------------------------ MODULE HubProof ------------------------------
(***************************************************************************)
(* Hub's safety, proved for any number of agents, connections, jobs and    *)
(* any queue capacity.                                                     *)
(***************************************************************************)
EXTENDS Hub, TLAPS

\* How far a job's dispatch has got bounds what can have happened to it.
JobInv ==
  \A j \in Jobs :
    /\ pc[j] = "new" => owner[j] = NoConn
    /\ pc[j] \in {"found", "added", "rejected"} => owner[j] # NoConn
    /\ pc[j] \in {"new", "found"} => table[j] = NoConn /\ answered[j] = 0 /\ abandoned[j] = 0
    /\ pc[j] # "done" => refused[j] = 0 /\ answered[j] = 0 /\ j \notin received
    /\ table[j] # NoConn =>
         table[j] = owner[j] /\ answered[j] = 0 /\ abandoned[j] = 0 /\ refused[j] = 0
    /\ j \in received => refused[j] = 0 /\ owner[j] # NoConn
    /\ j \in paging => owner[j] # NoConn

\* A queued frame of a job went to the job's owner, and a queued job frame was
\* accepted: its dispatch did not go on to post a notice.
FrameOK(c, f) ==
  /\ f.job # NoJob => owner[f.job] = c
  /\ f.type = "job" => pc[f.job] = "done" /\ refused[f.job] = 0

FrameInv == \A c \in Conns : \A i \in DOMAIN send[c] : FrameOK(c, send[c][i])

IInv ==
  /\ TypeOK
  /\ RouteIsLive
  /\ JobInv
  /\ FrameInv
  /\ OneAnswerOrAbandonment
  /\ RefusedIsNeverAnswered
  /\ AnswerFromOwner
-----------------------------------------------------------------------------
(* What a step does to the queues.                                         *)

\* A frame names a job, or it is the refusal and names none.
LEMMA FrameFields ==
  ASSUME NEW f \in Frame
  PROVE  /\ f.job \in Jobs \cup {NoJob}
         /\ f.job # NoJob => f.job \in Jobs
         /\ f.type = "job" => f.job \in Jobs
PROOF BY DEF Frame

\* push puts the frame behind those that were queued before, on this connection
\* only, and never exceeds the channel's capacity.
LEMMA QueuedFrames ==
  ASSUME TypeOK, NEW c \in Conns, NEW f \in Frame, Queued(c, f)
  PROVE  /\ send' \in [Conns -> Seq(Frame)]
         /\ \A d \in Conns : Len(send'[d]) <= SendCap
         /\ \A d \in Conns : \A i \in DOMAIN send'[d] :
              \/ i \in DOMAIN send[d] /\ send'[d][i] = send[d][i]
              \/ d = c /\ send'[d][i] = f
PROOF
<1>1. send[c] \in Seq(Frame) /\ Len(send[c]) \in Nat /\ Len(send[c]) < SendCap
  BY DEF TypeOK, Queued
<1>2. Append(send[c], f) \in Seq(Frame)
      /\ Len(Append(send[c], f)) = Len(send[c]) + 1
      /\ \A i \in DOMAIN Append(send[c], f) :
           \/ i \in DOMAIN send[c] /\ Append(send[c], f)[i] = send[c][i]
           \/ Append(send[c], f)[i] = f
  BY <1>1
<1>3. \A d \in Conns : send'[d] = IF d = c THEN Append(send[c], f) ELSE send[d]
  BY DEF TypeOK, Queued
<1>4. send' \in [Conns -> Seq(Frame)]
  BY <1>2 DEF TypeOK, Queued
<1>5. \A d \in Conns : Len(send'[d]) <= SendCap
  <2>1. \A d \in Conns : Len(send[d]) <= SendCap
    BY DEF TypeOK
  <2>2. Len(send'[c]) <= SendCap
    <3>1. SendCap \in Nat
      BY HubAssumption
    <3>2. send'[c] = Append(send[c], f)
      BY <1>3
    <3>3. Len(send'[c]) = Len(send[c]) + 1
      BY <1>2, <3>2
    <3> QED BY <1>1, <3>1, <3>3
  <2> QED BY <1>3, <2>1, <2>2
<1> QED BY <1>2, <1>3, <1>4, <1>5

\* A write pump that takes the oldest frame leaves the others as they were.
LEMMA TakenFrames ==
  ASSUME TypeOK, NEW c \in Conns, send[c] # <<>>,
         send' = [send EXCEPT ![c] = Tail(@)]
  PROVE  /\ send' \in [Conns -> Seq(Frame)]
         /\ \A d \in Conns : Len(send'[d]) <= SendCap
         /\ \A d \in Conns : \A i \in DOMAIN send'[d] :
              \E k \in DOMAIN send[d] : send'[d][i] = send[d][k]
         /\ 1 \in DOMAIN send[c] /\ Head(send[c]) = send[c][1] /\ send[c][1] \in Frame
PROOF
<1>1. send[c] \in Seq(Frame) /\ Len(send[c]) \in Nat /\ Len(send[c]) <= SendCap
  BY DEF TypeOK
<1>2. Tail(send[c]) \in Seq(Frame) /\ Len(Tail(send[c])) = Len(send[c]) - 1
      /\ \A i \in DOMAIN Tail(send[c]) :
           i + 1 \in DOMAIN send[c] /\ Tail(send[c])[i] = send[c][i + 1]
  BY <1>1
<1>3. \A d \in Conns : send'[d] = IF d = c THEN Tail(send[c]) ELSE send[d]
  BY DEF TypeOK
<1>4. send' \in [Conns -> Seq(Frame)]
  BY <1>2 DEF TypeOK
<1>5. \A d \in Conns : Len(send'[d]) <= SendCap
  <2>1. \A d \in Conns : Len(send[d]) <= SendCap
    BY DEF TypeOK
  <2>2. Len(send'[c]) <= SendCap
    <3>1. SendCap \in Nat
      BY HubAssumption
    <3>2. send'[c] = Tail(send[c])
      BY <1>3
    <3>3. Len(send'[c]) = Len(send[c]) - 1
      BY <1>2, <3>2
    <3> QED BY <1>1, <3>1, <3>3
  <2> QED BY <1>3, <2>1, <2>2
<1>6. \A d \in Conns : \A i \in DOMAIN send'[d] : \E k \in DOMAIN send[d] : send'[d][i] = send[d][k]
  BY <1>2, <1>3
<1>7. 1 \in DOMAIN send[c] /\ Head(send[c]) = send[c][1] /\ send[c][1] \in Frame
  BY <1>1
<1> QED BY <1>4, <1>5, <1>6, <1>7

\* Frames that were queued before stay correct as long as owners and finished
\* dispatches do not change under them.
LEMMA FramesSurvive ==
  ASSUME TypeOK, FrameInv,
         \A d \in Conns : \A i \in DOMAIN send'[d] :
           \E k \in DOMAIN send[d] : send'[d][i] = send[d][k],
         \A j \in Jobs : owner[j] # NoConn => owner'[j] = owner[j],
         \A j \in Jobs : pc[j] = "done" => pc'[j] = "done" /\ refused'[j] = refused[j]
  PROVE  FrameInv'
PROOF
<1> SUFFICES ASSUME NEW d \in Conns, NEW i \in DOMAIN send'[d]
             PROVE  FrameOK(d, send[d][i])'
  BY DEF FrameInv
<1>1. PICK k \in DOMAIN send[d] : send'[d][i] = send[d][k]
  OBVIOUS
<1>2. send[d][k] \in Frame
  BY DEF TypeOK
<1>3. FrameOK(d, send[d][k]) /\ d # NoConn
  BY HubAssumption DEF FrameInv
<1> QED BY <1>1, <1>2, <1>3, FrameFields DEF FrameOK
-----------------------------------------------------------------------------
(* Every step of a connection keeps the invariant.                         *)

LEMMA AcceptKeeps ==
  ASSUME IInv, NEW c \in Conns, Accept(c)
  PROVE  IInv'
PROOF
<1>1. TypeOK' /\ RouteIsLive'
  BY DEF IInv, TypeOK, RouteIsLive, Reading, Accept, jobVars, history
<1>2. JobInv' /\ OneAnswerOrAbandonment' /\ RefusedIsNeverAnswered' /\ AnswerFromOwner'
  BY DEF IInv, JobInv, OneAnswerOrAbandonment, RefusedIsNeverAnswered, AnswerFromOwner,
         Accept, jobVars, history
<1>3. FrameInv'
  BY DEF IInv, FrameInv, FrameOK, Accept, jobVars, history
<1> QED BY <1>1, <1>2, <1>3 DEF IInv

LEMMA HelloKeeps ==
  ASSUME IInv, NEW c \in Conns, NEW accepted \in SUBSET Agents, NEW someRefused \in BOOLEAN,
         Hello(c, accepted, someRefused)
  PROVE  IInv'
PROOF
<1>1. TypeOK'
  BY DEF IInv, TypeOK, Hello, serve, jobVars, history
<1>2. RouteIsLive'
  BY HubAssumption DEF IInv, TypeOK, RouteIsLive, Reading, Hello, serve
<1>3. JobInv' /\ OneAnswerOrAbandonment' /\ RefusedIsNeverAnswered' /\ AnswerFromOwner'
  BY DEF IInv, JobInv, OneAnswerOrAbandonment, RefusedIsNeverAnswered, AnswerFromOwner,
         Hello, jobVars, history
<1>4. FrameInv'
  BY DEF IInv, FrameInv, FrameOK, Hello, jobVars, history
<1> QED BY <1>1, <1>2, <1>3, <1>4 DEF IInv

LEMMA PushRefusalKeeps ==
  ASSUME IInv, NEW c \in Conns, PushRefusal(c)
  PROVE  IInv'
PROOF
<1>1. RefusalFrame \in Frame /\ RefusalFrame.job = NoJob /\ RefusalFrame.type # "job"
  BY DEF RefusalFrame, Frame
<1>2. RouteIsLive'
  BY DEF IInv, RouteIsLive, TypeOK, Reading, PushRefusal
<1>3. JobInv' /\ OneAnswerOrAbandonment' /\ RefusedIsNeverAnswered' /\ AnswerFromOwner'
  BY DEF IInv, JobInv, OneAnswerOrAbandonment, RefusedIsNeverAnswered, AnswerFromOwner,
         PushRefusal, jobVars, history
<1>4. CASE Queued(c, RefusalFrame)
  <2>1. TypeOK'
    BY <1>1, <1>4, QueuedFrames DEF IInv, TypeOK, PushRefusal, jobVars, history
  <2>2. FrameInv'
    BY <1>1, <1>4, QueuedFrames DEF IInv, FrameInv, FrameOK, PushRefusal, jobVars, history
  <2> QED BY <1>2, <1>3, <2>1, <2>2 DEF IInv
<1>5. CASE Rejected(c)
  <2>1. TypeOK'
    BY <1>5 DEF IInv, TypeOK, PushRefusal, Rejected, jobVars, history
  <2>2. FrameInv'
    BY <1>5 DEF IInv, FrameInv, FrameOK, PushRefusal, Rejected, jobVars, history
  <2> QED BY <1>2, <1>3, <2>1, <2>2 DEF IInv
<1> QED BY <1>4, <1>5 DEF PushRefusal

LEMMA ResultKeeps ==
  ASSUME IInv, NEW c \in Conns, NEW j \in Jobs, Result(c, j)
  PROVE  IInv'
PROOF
<1>1. TypeOK' /\ RouteIsLive'
  BY DEF IInv, TypeOK, RouteIsLive, Reading, Result, job, takeJob, connVars
<1>2. JobInv' /\ OneAnswerOrAbandonment' /\ RefusedIsNeverAnswered' /\ AnswerFromOwner'
  <2>1. JobInv'
    BY HubAssumption DEF IInv, TypeOK, JobInv, Result, job, takeJob
  <2>2. OneAnswerOrAbandonment'
    <3> SUFFICES ASSUME NEW k \in Jobs
                 PROVE  answered'[k] + abandoned'[k] <= 1
      BY DEF OneAnswerOrAbandonment
    <3>1. CASE k = j
      <4>1. answered[k] = 0 /\ abandoned[k] = 0
        BY <3>1, HubAssumption DEF IInv, JobInv, Result, job, takeJob
      <4>2. answered'[k] = answered[k] + 1 /\ abandoned'[k] = abandoned[k]
        BY <3>1 DEF IInv, TypeOK, Result, job, takeJob
      <4> QED BY <4>1, <4>2
    <3>2. CASE ~(k = j)
      <4>1. answered'[k] = answered[k] /\ abandoned'[k] = abandoned[k]
        BY <3>2 DEF IInv, TypeOK, Result, job, takeJob
      <4> QED BY <4>1 DEF IInv, OneAnswerOrAbandonment
    <3> QED BY <3>1, <3>2
  <2>3. RefusedIsNeverAnswered' /\ AnswerFromOwner'
    BY HubAssumption DEF IInv, TypeOK, JobInv, RefusedIsNeverAnswered, AnswerFromOwner,
                         Result, job, takeJob
  <2> QED BY <2>1, <2>2, <2>3
<1>3. FrameInv'
  BY DEF IInv, FrameInv, FrameOK, Result, job, takeJob, connVars
<1> QED BY <1>1, <1>2, <1>3 DEF IInv

LEMMA ContextRequestKeeps ==
  ASSUME IInv, NEW c \in Conns, NEW j \in Jobs, ContextRequest(c, j)
  PROVE  IInv'
PROOF
<1>1. TypeOK' /\ RouteIsLive'
  BY DEF IInv, TypeOK, RouteIsLive, Reading, ContextRequest, job, connVars, history
<1>2. JobInv' /\ OneAnswerOrAbandonment' /\ RefusedIsNeverAnswered' /\ AnswerFromOwner'
  BY DEF IInv, JobInv, OneAnswerOrAbandonment, RefusedIsNeverAnswered, AnswerFromOwner,
         ContextRequest, job, history
<1>3. FrameInv'
  BY DEF IInv, FrameInv, FrameOK, ContextRequest, job, connVars, history
<1> QED BY <1>1, <1>2, <1>3 DEF IInv

LEMMA DropKeeps ==
  ASSUME IInv, NEW c \in Conns, Drop(c)
  PROVE  IInv'
PROOF
<1>1. TypeOK'
  BY DEF IInv, TypeOK, Drop
<1>2. RouteIsLive'
  BY HubAssumption DEF IInv, TypeOK, RouteIsLive, Reading, Drop
<1>3. JobInv' /\ OneAnswerOrAbandonment' /\ RefusedIsNeverAnswered' /\ AnswerFromOwner'
  <2>1. JobInv'
    BY HubAssumption DEF IInv, TypeOK, JobInv, Drop
  <2>2. OneAnswerOrAbandonment'
    <3> SUFFICES ASSUME NEW k \in Jobs
                 PROVE  answered'[k] + abandoned'[k] <= 1
      BY DEF OneAnswerOrAbandonment
    <3>1. CASE table[k] = c
      <4>1. answered[k] = 0 /\ abandoned[k] = 0
        BY <3>1, HubAssumption DEF IInv, JobInv, Drop
      <4>2. abandoned'[k] = abandoned[k] + 1 /\ answered'[k] = answered[k]
        BY <3>1 DEF IInv, TypeOK, Drop
      <4> QED BY <4>1, <4>2
    <3>2. CASE ~(table[k] = c)
      <4>1. abandoned'[k] = abandoned[k] /\ answered'[k] = answered[k]
        BY <3>2 DEF IInv, TypeOK, Drop
      <4> QED BY <4>1 DEF IInv, OneAnswerOrAbandonment
    <3> QED BY <3>1, <3>2
  <2>3. RefusedIsNeverAnswered' /\ AnswerFromOwner'
    BY HubAssumption DEF IInv, TypeOK, JobInv, RefusedIsNeverAnswered, AnswerFromOwner, Drop
  <2> QED BY <2>1, <2>2, <2>3
<1>4. FrameInv'
  BY DEF IInv, FrameInv, FrameOK, Drop
<1> QED BY <1>1, <1>2, <1>3, <1>4 DEF IInv

LEMMA ReaderShutdownKeeps ==
  ASSUME IInv, NEW c \in Conns, ReaderShutdown(c)
  PROVE  IInv'
PROOF
<1>1. TypeOK' /\ RouteIsLive'
  BY DEF IInv, TypeOK, RouteIsLive, Reading, ReaderShutdown, shutdown, jobVars, history
<1>2. JobInv' /\ OneAnswerOrAbandonment' /\ RefusedIsNeverAnswered' /\ AnswerFromOwner'
  BY DEF IInv, JobInv, OneAnswerOrAbandonment, RefusedIsNeverAnswered, AnswerFromOwner,
         ReaderShutdown, jobVars, history
<1>3. FrameInv'
  BY DEF IInv, FrameInv, FrameOK, ReaderShutdown, jobVars, history
<1> QED BY <1>1, <1>2, <1>3 DEF IInv

LEMMA WriteFrameKeeps ==
  ASSUME IInv, NEW c \in Conns, WriteFrame(c)
  PROVE  IInv'
PROOF
<1> DEFINE f == Head(send[c])
<1>1. /\ send' \in [Conns -> Seq(Frame)]
      /\ \A d \in Conns : Len(send'[d]) <= SendCap
      /\ \A d \in Conns : \A i \in DOMAIN send'[d] :
           \E k \in DOMAIN send[d] : send'[d][i] = send[d][k]
      /\ 1 \in DOMAIN send[c] /\ f = send[c][1] /\ f \in Frame
  BY TakenFrames DEF IInv, WriteFrame
<1>2. FrameOK(c, f)
  BY <1>1 DEF IInv, FrameInv
<1>3. f.type = "job" => f.job \in Jobs /\ refused[f.job] = 0 /\ owner[f.job] # NoConn
                        /\ pc[f.job] = "done"
  BY <1>1, <1>2, FrameFields, HubAssumption DEF FrameOK
<1>4. /\ received' \in SUBSET Jobs
      /\ \A j \in Jobs : j \in received' /\ j \notin received =>
           refused[j] = 0 /\ owner[j] # NoConn /\ pc[j] = "done"
  <2>1. \A j \in Jobs : f = JobFrame(j) => f.type = "job" /\ f.job = j
    BY DEF JobFrame
  <2>2. \A j \in Jobs : f = JobFrame(j) =>
          refused[j] = 0 /\ owner[j] # NoConn /\ pc[j] = "done"
    BY <1>3, <2>1
  <2>3. received' \in {received, received \cup {j \in Jobs : f = JobFrame(j)}}
    BY DEF WriteFrame
  <2> HIDE DEF f
  <2> QED BY <2>2, <2>3 DEF IInv, TypeOK
<1>5. TypeOK' /\ RouteIsLive'
  BY <1>1, <1>4 DEF IInv, TypeOK, RouteIsLive, Reading, WriteFrame, history
<1>6. JobInv'
  BY <1>4 DEF IInv, JobInv, WriteFrame, history
<1>7. OneAnswerOrAbandonment' /\ RefusedIsNeverAnswered' /\ AnswerFromOwner'
  BY DEF IInv, OneAnswerOrAbandonment, RefusedIsNeverAnswered, AnswerFromOwner, WriteFrame, history
<1>8. FrameInv'
  BY <1>1, FramesSurvive DEF IInv, WriteFrame, history
<1> QED BY <1>5, <1>6, <1>7, <1>8 DEF IInv

LEMMA WriterEndKeeps ==
  ASSUME IInv, NEW c \in Conns, WriterEnd(c)
  PROVE  IInv'
PROOF
<1>1. RouteIsLive'
  BY DEF IInv, RouteIsLive, Reading, WriterEnd
<1>2. JobInv' /\ OneAnswerOrAbandonment' /\ RefusedIsNeverAnswered' /\ AnswerFromOwner'
  BY DEF IInv, JobInv, OneAnswerOrAbandonment, RefusedIsNeverAnswered, AnswerFromOwner,
         WriterEnd, jobVars, history
<1>3. /\ send' \in [Conns -> Seq(Frame)]
      /\ \A d \in Conns : Len(send'[d]) <= SendCap
      /\ \A d \in Conns : \A i \in DOMAIN send'[d] :
           \E k \in DOMAIN send[d] : send'[d][i] = send[d][k]
  <2>1. CASE send' = send
    BY <2>1 DEF IInv, TypeOK
  <2>2. CASE send[c] # <<>> /\ send' = [send EXCEPT ![c] = Tail(@)]
    BY <2>2, TakenFrames DEF IInv
  <2> QED BY <2>1, <2>2 DEF WriterEnd
<1>4. TypeOK'
  BY <1>3 DEF IInv, TypeOK, WriterEnd, shutdown, jobVars, history
<1>5. FrameInv'
  BY <1>3, FramesSurvive DEF IInv, WriterEnd, jobVars, history
<1> QED BY <1>1, <1>2, <1>4, <1>5 DEF IInv
-----------------------------------------------------------------------------
(* Every step of a dispatch keeps the invariant.                           *)

LEMMA NotConnectedKeeps ==
  ASSUME IInv, NEW j \in Jobs, NEW a \in Agents, NotConnected(j, a)
  PROVE  IInv'
PROOF
<1>1. TypeOK' /\ RouteIsLive'
  BY DEF IInv, TypeOK, RouteIsLive, Reading, NotConnected, connVars
<1>2. JobInv'
  BY DEF IInv, TypeOK, JobInv, NotConnected
<1>3. OneAnswerOrAbandonment' /\ AnswerFromOwner'
  BY DEF IInv, OneAnswerOrAbandonment, AnswerFromOwner, NotConnected
<1>4. RefusedIsNeverAnswered'
  BY DEF IInv, TypeOK, JobInv, RefusedIsNeverAnswered, NotConnected
<1>5. FrameInv'
  <2>1. \A k \in Jobs : pc[k] = "done" => pc'[k] = "done" /\ refused'[k] = refused[k]
    BY DEF IInv, TypeOK, NotConnected
  <2>2. send' = send /\ owner' = owner
    BY DEF NotConnected, connVars
  <2> QED BY <2>1, <2>2, FramesSurvive DEF IInv
<1> QED BY <1>1, <1>2, <1>3, <1>4, <1>5 DEF IInv

LEMMA FindConnKeeps ==
  ASSUME IInv, NEW j \in Jobs, NEW a \in Agents, FindConn(j, a)
  PROVE  IInv'
PROOF
<1>1. TypeOK' /\ RouteIsLive'
  BY DEF IInv, TypeOK, RouteIsLive, Reading, FindConn, connVars, history
<1>2. JobInv'
  BY DEF IInv, TypeOK, JobInv, FindConn, history
<1>3. OneAnswerOrAbandonment' /\ RefusedIsNeverAnswered'
  BY DEF IInv, OneAnswerOrAbandonment, RefusedIsNeverAnswered, FindConn, history
<1>4. AnswerFromOwner'
  BY HubAssumption DEF IInv, TypeOK, JobInv, AnswerFromOwner, FindConn, history
<1>5. FrameInv'
  <2>1. \A k \in Jobs : pc[k] = "done" => pc'[k] = "done" /\ refused'[k] = refused[k]
    BY DEF IInv, TypeOK, FindConn, history
  <2>2. \A k \in Jobs : owner[k] # NoConn => owner'[k] = owner[k]
    BY DEF IInv, TypeOK, JobInv, FindConn
  <2> QED BY <2>1, <2>2, FramesSurvive DEF IInv, FindConn, connVars
<1> QED BY <1>1, <1>2, <1>3, <1>4, <1>5 DEF IInv

LEMMA AddJobKeeps ==
  ASSUME IInv, NEW j \in Jobs, AddJob(j)
  PROVE  IInv'
PROOF
<1>1. TypeOK' /\ RouteIsLive'
  BY DEF IInv, TypeOK, RouteIsLive, Reading, AddJob, connVars, history
<1>2. JobInv'
  BY DEF IInv, TypeOK, JobInv, AddJob, history
<1>3. OneAnswerOrAbandonment' /\ RefusedIsNeverAnswered' /\ AnswerFromOwner'
  BY DEF IInv, OneAnswerOrAbandonment, RefusedIsNeverAnswered, AnswerFromOwner, AddJob, history
<1>4. FrameInv'
  <2>1. \A k \in Jobs : pc[k] = "done" => pc'[k] = "done" /\ refused'[k] = refused[k]
    BY DEF IInv, TypeOK, AddJob, history
  <2>2. send' = send /\ owner' = owner
    BY DEF AddJob, connVars
  <2> QED BY <2>1, <2>2, FramesSurvive DEF IInv
<1> QED BY <1>1, <1>2, <1>3, <1>4 DEF IInv

LEMMA PushJobKeeps ==
  ASSUME IInv, NEW j \in Jobs, PushJob(j)
  PROVE  IInv'
PROOF
<1>1. owner[j] \in Conns /\ JobFrame(j) \in Frame
  BY HubAssumption DEF IInv, TypeOK, JobInv, PushJob, JobFrame, Frame
<1>2. RouteIsLive'
  BY DEF IInv, RouteIsLive, Reading, PushJob
<1>3. pc' \in [Jobs -> {"new", "found", "added", "rejected", "done"}]
  BY ZenonT(30) DEF IInv, TypeOK, PushJob
<1>4. JobInv'
  BY DEF IInv, TypeOK, JobInv, PushJob, history
<1>5. OneAnswerOrAbandonment' /\ RefusedIsNeverAnswered' /\ AnswerFromOwner'
  BY DEF IInv, OneAnswerOrAbandonment, RefusedIsNeverAnswered, AnswerFromOwner, PushJob, history
<1>6. \A k \in Jobs : pc[k] = "done" => pc'[k] = "done" /\ refused'[k] = refused[k]
  BY DEF IInv, TypeOK, PushJob, history
<1>7. CASE Queued(owner[j], JobFrame(j)) /\ pc' = [pc EXCEPT ![j] = "done"]
  <2>1. /\ send' \in [Conns -> Seq(Frame)]
        /\ \A d \in Conns : Len(send'[d]) <= SendCap
        /\ \A d \in Conns : \A i \in DOMAIN send'[d] :
             \/ i \in DOMAIN send[d] /\ send'[d][i] = send[d][i]
             \/ d = owner[j] /\ send'[d][i] = JobFrame(j)
    BY <1>1, <1>7, QueuedFrames DEF IInv
  <2>2. TypeOK'
    BY <1>3, <2>1 DEF IInv, TypeOK, PushJob, history
  <2>3. FrameInv'
    <3> SUFFICES ASSUME NEW d \in Conns, NEW i \in DOMAIN send'[d]
                 PROVE  FrameOK(d, send[d][i])'
      BY DEF FrameInv
    <3>1. CASE i \in DOMAIN send[d] /\ send'[d][i] = send[d][i]
      <4>1. send[d][i] \in Frame /\ FrameOK(d, send[d][i])
        BY <3>1 DEF IInv, TypeOK, FrameInv
      <4> QED BY <1>6, <3>1, <4>1, FrameFields DEF FrameOK, PushJob
    <3>2. CASE d = owner[j] /\ send'[d][i] = JobFrame(j)
      <4>1. refused'[j] = 0 /\ pc'[j] = "done" /\ owner'[j] = owner[j]
        BY <1>7 DEF IInv, TypeOK, JobInv, PushJob, history
      <4> QED BY <3>2, <4>1 DEF FrameOK, JobFrame
    <3> QED BY <2>1, <3>1, <3>2
  <2> QED BY <1>2, <1>4, <1>5, <2>2, <2>3 DEF IInv
<1>8. CASE Rejected(owner[j]) /\ pc' = [pc EXCEPT ![j] = "rejected"]
  <2>1. TypeOK'
    BY <1>3, <1>8 DEF IInv, TypeOK, PushJob, Rejected, history
  <2>2. FrameInv'
    BY <1>6, <1>8, FramesSurvive DEF IInv, PushJob, Rejected
  <2> QED BY <1>2, <1>4, <1>5, <2>1, <2>2 DEF IInv
<1> QED BY <1>7, <1>8 DEF PushJob

LEMMA TakeBackKeeps ==
  ASSUME IInv, NEW j \in Jobs, TakeBack(j)
  PROVE  IInv'
PROOF
<1>1. TypeOK' /\ RouteIsLive'
  BY DEF IInv, TypeOK, RouteIsLive, Reading, TakeBack, takeJob, connVars
<1>2. JobInv'
  BY DEF IInv, TypeOK, JobInv, TakeBack, takeJob
<1>3. OneAnswerOrAbandonment' /\ AnswerFromOwner'
  BY DEF IInv, OneAnswerOrAbandonment, AnswerFromOwner, TakeBack, takeJob
<1>4. RefusedIsNeverAnswered'
  BY DEF IInv, TypeOK, JobInv, RefusedIsNeverAnswered, TakeBack, takeJob
<1>5. FrameInv'
  <2>1. \A k \in Jobs : pc[k] = "done" => pc'[k] = "done" /\ refused'[k] = refused[k]
    BY DEF IInv, TypeOK, TakeBack, takeJob
  <2>2. send' = send /\ owner' = owner
    BY DEF TakeBack, takeJob, connVars
  <2> QED BY <2>1, <2>2, FramesSurvive DEF IInv
<1> QED BY <1>1, <1>2, <1>3, <1>4, <1>5 DEF IInv

LEMMA PushPageKeeps ==
  ASSUME IInv, NEW j \in Jobs, PushPage(j)
  PROVE  IInv'
PROOF
<1>1. owner[j] \in Conns /\ PageFrame(j) \in Frame /\ paging' \in SUBSET Jobs
  BY HubAssumption DEF IInv, TypeOK, JobInv, PushPage, PageFrame, Frame
<1>2. RouteIsLive' /\ JobInv'
  BY DEF IInv, RouteIsLive, Reading, JobInv, PushPage, history
<1>3. OneAnswerOrAbandonment' /\ RefusedIsNeverAnswered' /\ AnswerFromOwner'
  BY DEF IInv, OneAnswerOrAbandonment, RefusedIsNeverAnswered, AnswerFromOwner, PushPage, history
<1>4. CASE Queued(owner[j], PageFrame(j))
  <2>1. /\ send' \in [Conns -> Seq(Frame)]
        /\ \A d \in Conns : Len(send'[d]) <= SendCap
        /\ \A d \in Conns : \A i \in DOMAIN send'[d] :
             \/ i \in DOMAIN send[d] /\ send'[d][i] = send[d][i]
             \/ d = owner[j] /\ send'[d][i] = PageFrame(j)
    BY <1>1, <1>4, QueuedFrames DEF IInv
  <2>2. TypeOK'
    BY <1>1, <2>1 DEF IInv, TypeOK, PushPage, history
  <2>3. FrameInv'
    <3> SUFFICES ASSUME NEW d \in Conns, NEW i \in DOMAIN send'[d]
                 PROVE  FrameOK(d, send[d][i])'
      BY DEF FrameInv
    <3>1. CASE i \in DOMAIN send[d] /\ send'[d][i] = send[d][i]
      BY <3>1 DEF IInv, FrameInv, FrameOK, PushPage, history
    <3>2. CASE d = owner[j] /\ send'[d][i] = PageFrame(j)
      BY <3>2 DEF FrameOK, PageFrame, PushPage
    <3> QED BY <2>1, <3>1, <3>2
  <2> QED BY <1>2, <1>3, <2>2, <2>3 DEF IInv
<1>5. CASE Rejected(owner[j])
  <2>1. TypeOK'
    BY <1>1, <1>5 DEF IInv, TypeOK, PushPage, Rejected, history
  <2>2. FrameInv'
    BY <1>5 DEF IInv, FrameInv, FrameOK, PushPage, Rejected, history
  <2> QED BY <1>2, <1>3, <2>1, <2>2 DEF IInv
<1> QED BY <1>4, <1>5 DEF PushPage
-----------------------------------------------------------------------------
(* The invariant, and what follows from it.                                *)

LEMMA InitIInv == Init => IInv
PROOF
<1> SUFFICES ASSUME Init PROVE IInv
  OBVIOUS
<1>1. TypeOK
  <2>1. \A c \in Conns : send[c] = <<>>
    BY DEF Init
  <2>2. <<>> \in Seq(Frame) /\ Len(<<>>) = 0 /\ 0 <= SendCap
    BY HubAssumption
  <2>3. send \in [Conns -> Seq(Frame)] /\ \A c \in Conns : Len(send[c]) <= SendCap
    BY <2>1, <2>2 DEF Init
  <2> QED BY <2>3 DEF Init, TypeOK
<1>2. RouteIsLive /\ JobInv
  BY DEF Init, RouteIsLive, JobInv
<1>3. FrameInv
  BY DEF Init, FrameInv
<1>4. OneAnswerOrAbandonment /\ RefusedIsNeverAnswered /\ AnswerFromOwner
  BY DEF Init, OneAnswerOrAbandonment, RefusedIsNeverAnswered, AnswerFromOwner
<1> QED BY <1>1, <1>2, <1>3, <1>4 DEF IInv

LEMMA NextIInv == IInv /\ [Next]_vars => IInv'
PROOF
<1> SUFFICES ASSUME IInv, [Next]_vars PROVE IInv'
  OBVIOUS
<1>1. ASSUME NEW c \in Conns, ConnNext(c) PROVE IInv'
  BY <1>1, AcceptKeeps, HelloKeeps, PushRefusalKeeps, ResultKeeps, ContextRequestKeeps,
     DropKeeps, ReaderShutdownKeeps, WriteFrameKeeps, WriterEndKeeps DEF ConnNext
<1>2. ASSUME NEW j \in Jobs, JobNext(j) PROVE IInv'
  BY <1>2, NotConnectedKeeps, FindConnKeeps, AddJobKeeps, PushJobKeeps, TakeBackKeeps,
     PushPageKeeps DEF JobNext
<1>3. CASE UNCHANGED vars
  BY <1>3 DEF vars, connVars, jobVars, history, IInv, TypeOK, RouteIsLive, Reading, JobInv,
     FrameInv, FrameOK, OneAnswerOrAbandonment, RefusedIsNeverAnswered, AnswerFromOwner
<1> QED BY <1>1, <1>2, <1>3 DEF Next

LEMMA Invariance == Spec => []IInv
PROOF BY InitIInv, NextIInv, PTL DEF Spec

\* The hub's maps, the queues and every goroutine's place stay well formed, and
\* no queue of frames grows beyond its channel's capacity.
THEOREM Typing == Spec => []TypeOK
PROOF
<1>1. IInv => TypeOK
  BY DEF IInv
<1> QED BY <1>1, Invariance, PTL

\* hub.agents never names a connection that hub.drop has already withdrawn, nor
\* one whose last hello did not name the agent.
THEOREM RoutesLead == Spec => []RouteIsLive
PROOF
<1>1. IInv => RouteIsLive
  BY DEF IInv
<1> QED BY <1>1, Invariance, PTL

\* A result and a disconnection that race for a job produce one reply to the
\* room, never two: takeJob and drop both remove the job under the lock.
THEOREM OneReply == Spec => []OneAnswerOrAbandonment
PROOF
<1>1. IInv => OneAnswerOrAbandonment
  BY DEF IInv
<1> QED BY <1>1, Invariance, PTL

\* A mention whose hand-over was reported as failed is never answered later.
THEOREM RefusalIsFinal == Spec => []RefusedIsNeverAnswered
PROOF
<1>1. IInv => RefusedIsNeverAnswered
  BY DEF IInv
<1> QED BY <1>1, Invariance, PTL

\* takeJob accepts a result only on the connection that was given the job.
THEOREM OwnerAnswers == Spec => []AnswerFromOwner
PROOF
<1>1. IInv => AnswerFromOwner
  BY DEF IInv
<1> QED BY <1>1, Invariance, PTL

\* A job and the pages of history it asks for are queued on its owner's
\* connection only.
THEOREM FramesStayWithOwner == Spec => []FramesFollowOwner
PROOF
<1>1. IInv => FramesFollowOwner
  BY DEF IInv, FrameInv, FrameOK, FramesFollowOwner
<1> QED BY <1>1, Invariance, PTL

\* hub.drop withdraws only the routes that still lead to the lost connection.
THEOREM DropIsLocal == Spec => DropSparesOthers
PROOF
<1>1. IInv /\ [Next]_vars =>
        [\A c \in Conns, a \in Agents :
           Reading(c) /\ ~Reading(c)' /\ route[a] # c => route'[a] = route[a]]_vars
  <2> SUFFICES ASSUME IInv, [Next]_vars, NEW c \in Conns, NEW a \in Agents,
                      Reading(c), ~Reading(c)', route[a] # c
               PROVE  route'[a] = route[a]
    OBVIOUS
  <2>1. ASSUME NEW d \in Conns, ConnNext(d) PROVE route'[a] = route[a]
    <3>1. CASE \E accepted \in SUBSET Agents, someRefused \in BOOLEAN :
                 Hello(d, accepted, someRefused)
      BY <3>1 DEF IInv, TypeOK, Reading, Hello
    <3>2. CASE Drop(d)
      BY <3>2 DEF IInv, TypeOK, Reading, Drop
    <3>3. CASE ReaderShutdown(d)
      BY <3>3 DEF ReaderShutdown
    <3>4. CASE Accept(d) \/ PushRefusal(d) \/ WriteFrame(d) \/ WriterEnd(d)
      BY <3>4 DEF Accept, PushRefusal, WriteFrame, WriterEnd
    <3>5. CASE \E j \in Jobs : Result(d, j) \/ ContextRequest(d, j)
      BY <3>5 DEF Result, job, takeJob, ContextRequest
    <3> QED BY <2>1, <3>1, <3>2, <3>3, <3>4, <3>5 DEF ConnNext
  <2>2. ASSUME NEW j \in Jobs, JobNext(j) PROVE route'[a] = route[a]
    BY <2>2 DEF JobNext, NotConnected, FindConn, AddJob, PushJob, TakeBack, takeJob, PushPage
  <2>3. CASE UNCHANGED vars
    BY <2>3 DEF vars
  <2> QED BY <2>1, <2>2, <2>3 DEF Next
<1> QED BY <1>1, Invariance, PTL DEF Spec, DropSparesOthers
-----------------------------------------------------------------------------
(* Hub implements JobLedger.                                               *)

\* Until its first reply, what a job's mention has come to is told by its
\* dispatch; afterwards by the replies alone.
LEMMA FateIs ==
  ASSUME NEW j \in Jobs
  PROVE  /\ answered[j] = 0 /\ abandoned[j] = 0 /\ refused[j] = 0 => fate[j] = IF pc[j] = "new" THEN "unasked" ELSE "open"
         /\ answered[j] = 1 /\ abandoned[j] = 0 /\ refused[j] = 0 => fate[j] = "answered"
         /\ answered[j] = 0 /\ abandoned[j] = 1 /\ refused[j] = 0 => fate[j] = "abandoned"
         /\ answered[j] = 0 /\ abandoned[j] = 0 /\ refused[j] = 1 => fate[j] = "refused"
         /\ answered[j] = 0 /\ abandoned[j] = 1 /\ refused[j] = 1 => fate[j] = "both"
PROOF BY DEF fate, posted

LEMMA FateNext ==
  ASSUME NEW j \in Jobs
  PROVE  /\ answered'[j] = 0 /\ abandoned'[j] = 0 /\ refused'[j] = 0 => fate'[j] = IF pc'[j] = "new" THEN "unasked" ELSE "open"
         /\ answered'[j] = 1 /\ abandoned'[j] = 0 /\ refused'[j] = 0 => fate'[j] = "answered"
         /\ answered'[j] = 0 /\ abandoned'[j] = 1 /\ refused'[j] = 0 => fate'[j] = "abandoned"
         /\ answered'[j] = 0 /\ abandoned'[j] = 0 /\ refused'[j] = 1 => fate'[j] = "refused"
         /\ answered'[j] = 0 /\ abandoned'[j] = 1 /\ refused'[j] = 1 => fate'[j] = "both"
PROOF BY DEF fate, posted

\* A step that posts nothing for a job and does not take up its mention leaves
\* its fate alone.
LEMMA FateKept ==
  ASSUME NEW j \in Jobs,
         answered'[j] = answered[j], abandoned'[j] = abandoned[j], refused'[j] = refused[j],
         pc[j] = "new" <=> pc'[j] = "new"
  PROVE  fate'[j] = fate[j]
PROOF BY DEF fate, posted

\* Fates are a function of the jobs, so a step is known by what it does to each.
LEMMA FatesByJob ==
  /\ fate = [j \in Jobs |-> fate[j]]
  /\ fate' = [j \in Jobs |-> fate'[j]]
PROOF BY DEF fate, posted

LEMMA OneFateMoves ==
  ASSUME NEW j \in Jobs, NEW v, fate'[j] = v,
         \A k \in Jobs : k # j => fate'[k] = fate[k]
  PROVE  fate' = [fate EXCEPT ![j] = v]
PROOF
<1>1. DOMAIN fate = Jobs /\ DOMAIN fate' = Jobs
  BY DEF fate
<1> QED BY <1>1, FatesByJob

LEMMA NoFateMoves ==
  ASSUME UNCHANGED history,
         \A j \in Jobs : pc[j] = "new" <=> pc'[j] = "new"
  PROVE  fate' = fate
PROOF
<1>1. \A j \in Jobs : fate'[j] = fate[j]
  BY FateKept DEF history
<1> QED BY <1>1, FatesByJob

LEMMA ConnStepRefines ==
  ASSUME IInv, NEW c \in Conns, ConnNext(c)
  PROVE  [Ledger!Next]_fate
PROOF
<1>1. ASSUME NEW j \in Jobs, Result(c, j) PROVE Ledger!Answer(j)
  <2>1. table[j] # NoConn /\ answered[j] = 0 /\ abandoned[j] = 0 /\ refused[j] = 0 /\ pc[j] # "new"
    BY <1>1, HubAssumption DEF Result, job, takeJob, IInv, JobInv
  <2>2. answered' = [answered EXCEPT ![j] = 1] /\ UNCHANGED <<pc, abandoned, refused>>
    BY <1>1, <2>1 DEF Result, job, takeJob
  <2>3. fate[j] = "open"
    BY <2>1, FateIs
  <2>4. fate'[j] = "answered"
    <3>1. answered'[j] = 1 /\ abandoned'[j] = 0 /\ refused'[j] = 0
      BY <2>1, <2>2 DEF IInv, TypeOK
    <3> QED BY <3>1, FateNext
  <2>5. \A k \in Jobs : k # j => fate'[k] = fate[k]
    <3>1. \A k \in Jobs : k # j => answered'[k] = answered[k]
      BY <2>2 DEF IInv, TypeOK
    <3> QED BY <2>2, <3>1, FateKept
  <2> QED BY <2>3, <2>4, <2>5, OneFateMoves DEF Ledger!Answer
<1>2. ASSUME Drop(c) PROVE Ledger!AbandonAll({j \in Jobs : table[j] = c})
  <2>1. \A j \in Jobs : table[j] = c =>
          answered[j] = 0 /\ abandoned[j] = 0 /\ refused[j] = 0 /\ pc[j] # "new"
    BY HubAssumption DEF IInv, JobInv
  <2>2. \A j \in Jobs : table[j] = c => fate[j] = "open"
    BY <2>1, FateIs
  <2>3. /\ UNCHANGED <<pc, answered, refused>>
        /\ \A j \in Jobs : abandoned'[j] = IF table[j] = c THEN 1 ELSE abandoned[j]
    BY <1>2, <2>1 DEF Drop
  <2>4. \A j \in Jobs : fate'[j] = IF table[j] = c THEN "abandoned" ELSE fate[j]
    <3>1. ASSUME NEW j \in Jobs, table[j] = c PROVE fate'[j] = "abandoned"
      BY <2>1, <2>3, <3>1, FateNext
    <3>2. ASSUME NEW j \in Jobs, table[j] # c PROVE fate'[j] = fate[j]
      BY <2>3, <3>2, FateKept
    <3> QED BY <3>1, <3>2
  <2>5. fate' = [j \in Jobs |->
                   IF j \in {k \in Jobs : table[k] = c} THEN "abandoned" ELSE fate[j]]
    BY <2>4, FatesByJob
  <2> QED BY <2>2, <2>5 DEF Ledger!AbandonAll
<1>3. CASE \/ Accept(c) \/ PushRefusal(c) \/ ReaderShutdown(c) \/ WriteFrame(c) \/ WriterEnd(c)
           \/ \E accepted \in SUBSET Agents, someRefused \in BOOLEAN :
                Hello(c, accepted, someRefused)
           \/ \E j \in Jobs : ContextRequest(c, j)
  <2>1. UNCHANGED <<pc, history>>
    BY <1>3 DEF Accept, PushRefusal, ReaderShutdown, WriteFrame, WriterEnd, Hello,
                ContextRequest, job, jobVars
  <2> QED BY <2>1, NoFateMoves
<1> QED BY <1>1, <1>2, <1>3 DEF ConnNext, Ledger!Next

LEMMA JobStepRefines ==
  ASSUME IInv, NEW j \in Jobs, JobNext(j)
  PROVE  [Ledger!Next]_fate
PROOF
<1>1. ASSUME NEW a \in Agents, NotConnected(j, a) PROVE Ledger!Refuse(j)
  <2>1. answered[j] = 0 /\ abandoned[j] = 0 /\ refused[j] = 0 /\ pc[j] = "new"
    BY <1>1 DEF NotConnected, IInv, JobInv
  <2>2. /\ UNCHANGED <<answered, abandoned>> /\ refused' = [refused EXCEPT ![j] = 1]
        /\ pc' = [pc EXCEPT ![j] = "done"]
    BY <1>1, <2>1 DEF NotConnected
  <2>3. fate[j] = "unasked"
    BY <2>1, FateIs
  <2>4. fate'[j] = "refused"
    <3>1. answered'[j] = 0 /\ abandoned'[j] = 0 /\ refused'[j] = 1
      BY <2>1, <2>2 DEF IInv, TypeOK
    <3> QED BY <3>1, FateNext
  <2>5. \A k \in Jobs : k # j => fate'[k] = fate[k]
    <3>1. \A k \in Jobs : k # j => refused'[k] = refused[k] /\ pc'[k] = pc[k]
      BY <2>2 DEF IInv, TypeOK
    <3> QED BY <2>2, <3>1, FateKept
  <2> QED BY <2>3, <2>4, <2>5, OneFateMoves DEF Ledger!Refuse
<1>2. ASSUME NEW a \in Agents, FindConn(j, a) PROVE Ledger!Open(j)
  <2>1. answered[j] = 0 /\ abandoned[j] = 0 /\ refused[j] = 0 /\ pc[j] = "new"
    BY <1>2 DEF FindConn, IInv, JobInv
  <2>2. UNCHANGED <<answered, abandoned, refused>> /\ pc' = [pc EXCEPT ![j] = "found"]
    BY <1>2 DEF FindConn, history
  <2>3. fate[j] = "unasked"
    BY <2>1, FateIs
  <2>4. fate'[j] = "open"
    <3>1. pc'[j] = "found"
      BY <2>2 DEF IInv, TypeOK
    <3> QED BY <2>1, <2>2, <3>1, FateNext
  <2>5. \A k \in Jobs : k # j => fate'[k] = fate[k]
    <3>1. \A k \in Jobs : k # j => pc'[k] = pc[k]
      BY <2>2 DEF IInv, TypeOK
    <3> QED BY <2>2, <3>1, FateKept
  <2> QED BY <2>3, <2>4, <2>5, OneFateMoves DEF Ledger!Open
<1>3. ASSUME AddJob(j) \/ PushJob(j) \/ PushPage(j) PROVE fate' = fate
  <2>1. UNCHANGED history /\ \A k \in Jobs : pc[k] = "new" <=> pc'[k] = "new"
    BY <1>3 DEF AddJob, PushJob, PushPage, IInv, TypeOK
  <2> QED BY <2>1, NoFateMoves
\* A job whose connection was dropped between addJob and the failed push is
\* refused all the same, because dispatch does not ask what takeJob returned.
<1>4. ASSUME TakeBack(j) PROVE Ledger!Refuse(j) \/ Ledger!RefuseLost(j)
  <2>1. /\ answered[j] = 0 /\ refused[j] = 0 /\ pc[j] = "rejected"
        /\ abandoned[j] = 0 \/ abandoned[j] = 1
    <3>1. answered[j] = 0 /\ refused[j] = 0 /\ pc[j] = "rejected" /\ abandoned[j] \in Nat
      BY <1>4 DEF TakeBack, takeJob, IInv, JobInv, TypeOK
    <3>2. answered[j] + abandoned[j] <= 1
      BY DEF IInv, OneAnswerOrAbandonment
    <3> QED BY <3>1, <3>2
  <2>2. /\ UNCHANGED <<answered, abandoned>> /\ refused' = [refused EXCEPT ![j] = 1]
        /\ pc' = [pc EXCEPT ![j] = "done"]
    BY <1>4, <2>1 DEF TakeBack, takeJob
  <2>3. \A k \in Jobs : k # j => fate'[k] = fate[k]
    <3>1. \A k \in Jobs : k # j => refused'[k] = refused[k] /\ pc'[k] = pc[k]
      BY <2>2 DEF IInv, TypeOK
    <3> QED BY <2>2, <3>1, FateKept
  <2>4. refused'[j] = 1
    BY <2>2 DEF IInv, TypeOK
  <2>5. CASE abandoned[j] = 0
    <3>1. fate[j] = "open"
      BY <2>1, <2>5, FateIs
    <3>2. fate'[j] = "refused"
      BY <2>1, <2>2, <2>4, <2>5, FateNext
    <3> QED BY <2>3, <3>1, <3>2, OneFateMoves DEF Ledger!Refuse
  <2>6. CASE abandoned[j] = 1
    <3>1. fate[j] = "abandoned"
      BY <2>1, <2>6, FateIs
    <3>2. fate'[j] = "both"
      BY <2>1, <2>2, <2>4, <2>6, FateNext
    <3> QED BY <2>3, <3>1, <3>2, OneFateMoves DEF Ledger!RefuseLost
  <2> QED BY <2>1, <2>5, <2>6
<1> QED BY <1>1, <1>2, <1>3, <1>4 DEF JobNext, Ledger!Next

\* Whatever dispatches, results and disconnections interleave, a mention's fate
\* moves along JobLedger: it is taken up once, an answer is the only reply to
\* it, and a second notice follows only the loss of a connection that the job
\* was being handed to.
THEOREM HubImplementsLedger == Spec => LedgerSpec
PROOF
<1>1. Init => Ledger!Init
  <2> SUFFICES ASSUME Init PROVE fate = [j \in Jobs |-> "unasked"]
    BY DEF Ledger!Init
  <2>1. \A j \in Jobs : fate[j] = "unasked"
    BY FateIs DEF Init
  <2> QED BY <2>1, FatesByJob
<1>2. IInv /\ [Next]_vars => [Ledger!Next]_fate
  <2>1. UNCHANGED vars => fate' = fate
    BY NoFateMoves DEF vars, jobVars
  <2> QED BY <2>1, ConnStepRefines, JobStepRefines DEF Next
<1> QED BY <1>1, <1>2, Invariance, PTL DEF Spec, LedgerSpec, Ledger!Spec
=============================================================================
