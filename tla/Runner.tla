------------------------------- MODULE Runner -------------------------------
(***************************************************************************)
(* How a worker of the daemon executes the jobs of one agent, one after    *)
(* another, in the agent's directory: .result is removed, the command is   *)
(* started as the leader of a process group, waited for with a time limit, *)
(* and what it wrote is read and removed.  The command may start processes *)
(* that leave its group, or that outlive it; the daemon may be killed, and *)
(* leaves the processes of the current job behind.                         *)
(***************************************************************************)
EXTENDS Naturals, FiniteSets

CONSTANTS
  Jobs,    \* the jobs for the agent
  None,    \* no job, no file, no verdict
  Failed,  \* the verdict of a job whose result is an error
  Lost,    \* the verdict of a job whose daemon has gone
  Width    \* bound on the number of processes

VARIABLES
  up,       \* the daemon runs
  cur,      \* the job that is being executed
  pc,       \* how far Run has come with it
  status,   \* the exit status of its command
  file,     \* .result
  answer,   \* what was read from it
  procs,    \* the processes that are alive, of this job and of others
  verdict,  \* what execute has returned for a job
  killed,   \* the jobs whose process group was killed (history)
  stray     \* the jobs with processes alive when .result was removed (history)

history == <<killed, stray>>
vars    == <<up, cur, pc, status, file, answer, procs, verdict, history>>

\* A process has the pipes of its command as output, or has redirected it.
Process == [run : Jobs, main : BOOLEAN, group : BOOLEAN, pipe : BOOLEAN]
Content == [by : Jobs, main : BOOLEAN, text : {"blank", "part", "whole"}]

NotBlank == {c \in Content : c.text # "blank"}

ASSUME RunnerAssumption ==
  None \notin Jobs \cup {Failed, Lost} /\ {None, Failed, Lost} \cap Content = {}

\* The variables have their types, and no job is answered with nothing.
TypeOK ==
  /\ up \in BOOLEAN
  /\ cur \in Jobs \cup {None}
  /\ pc \in {"idle", "cleared", "running", "killed", "exited", "read", "remove"}
  /\ pc = "idle" <=> cur = None
  /\ status \in {"none", "ok", "bad"}
  /\ file \in Content \cup {None}
  /\ answer \in NotBlank \cup {None}
  /\ procs \in SUBSET Process
  /\ verdict \in [Jobs -> NotBlank \cup {None, Failed, Lost}]
  /\ killed \in SUBSET Jobs
  /\ stray \in [Jobs -> SUBSET Jobs]

Init ==
  /\ up = TRUE /\ cur = None /\ pc = "idle" /\ status = "none"
  /\ file = None /\ answer = None
  /\ procs = {}
  /\ verdict = [j \in Jobs |-> None]
  /\ killed = {} /\ stray = [j \in Jobs |-> {}]

Main(j)  == [run |-> j, main |-> TRUE, group |-> TRUE, pipe |-> TRUE]
Group(j) == {p \in procs : p.run = j /\ p.group}
Piped(j) == {p \in procs : p.run = j /\ p.pipe}

\* execute returns: the job has its verdict, and the worker is free.
Return(j, v) ==
  /\ verdict' = [verdict EXCEPT ![j] = v]
  /\ cur' = None /\ pc' = "idle"
-----------------------------------------------------------------------------
(* execute and Run.                                                        *)

\* The token cannot be issued, the agent is not registered, or the old .result
\* cannot be removed.
Refuse(j) ==
  /\ up /\ cur = None /\ verdict[j] = None
  /\ Return(j, Failed)
  /\ UNCHANGED <<up, status, file, answer, procs, history>>

\* Slip: the old .result stays.
Clear_Not(j) ==
  /\ up /\ cur = None /\ verdict[j] = None
  /\ cur' = j /\ pc' = "cleared" /\ status' = "none" /\ answer' = None
  /\ stray' = [stray EXCEPT ![j] = {p.run : p \in procs}]
  /\ UNCHANGED <<up, file, procs, verdict, killed>>

\* The worker takes the job, and Run removes .result.
Clear(j) ==
  /\ up /\ cur = None /\ verdict[j] = None
  /\ cur' = j /\ pc' = "cleared" /\ status' = "none" /\ answer' = None
  /\ file' = None
  /\ stray' = [stray EXCEPT ![j] = {p.run : p \in procs}]
  /\ UNCHANGED <<up, procs, verdict, killed>>

\* The command is started in a group of its own, or it cannot be.
Start ==
  /\ pc = "cleared"
  /\ \/ pc' = "running" /\ procs' = procs \cup {Main(cur)} /\ UNCHANGED <<cur, verdict>>
     \/ Return(cur, Failed) /\ UNCHANGED procs
  /\ UNCHANGED <<up, status, file, answer, history>>

\* Slip: only the command itself is killed.
Cancel_Command ==
  /\ pc = "running"
  /\ procs' = procs \ {Main(cur)}
  /\ pc' = "killed" /\ killed' = killed \cup {cur}
  /\ UNCHANGED <<up, cur, status, file, answer, verdict, stray>>

\* The time is up, or the daemon stops, before Wait has seen the command exit:
\* its process group is killed.
Cancel ==
  /\ pc = "running"
  /\ procs' = procs \ Group(cur)
  /\ pc' = "killed" /\ killed' = killed \cup {cur}
  /\ UNCHANGED <<up, cur, status, file, answer, verdict, stray>>

\* Wait sees that the command has exited.  What is left of its group goes on.
Reap ==
  /\ pc = "running" /\ status # "none"
  /\ pc' = "exited"
  /\ UNCHANGED <<up, cur, status, file, answer, procs, verdict, history>>

\* Slip: Wait has no WaitDelay.
Wait_Forever ==
  /\ pc \in {"killed", "exited"} /\ Piped(cur) = {}
  /\ IF pc = "exited" /\ status = "ok"
     THEN pc' = "read" /\ UNCHANGED <<cur, verdict>>
     ELSE Return(cur, Failed)
  /\ UNCHANGED <<up, status, file, answer, procs, history>>

\* Wait returns when nobody holds the pipes any more, or without success at the
\* end of WaitDelay.
Wait ==
  /\ pc \in {"killed", "exited"}
  /\ IF pc = "exited" /\ status = "ok" /\ Piped(cur) = {}
     THEN pc' = "read" /\ UNCHANGED <<cur, verdict>>
     ELSE Return(cur, Failed)
  /\ UNCHANGED <<up, status, file, answer, procs, history>>

\* Slip: an answer that is nothing but white space is taken.
Read_Blank ==
  /\ pc = "read"
  /\ IF file = None
     THEN Return(cur, Failed) /\ UNCHANGED answer
     ELSE pc' = "remove" /\ answer' = file /\ UNCHANGED <<cur, verdict>>
  /\ UNCHANGED <<up, status, file, procs, history>>

\* What the file holds is read, unless that is nothing.
Read ==
  /\ pc = "read"
  /\ IF file = None \/ file.text = "blank"
     THEN Return(cur, Failed) /\ UNCHANGED answer
     ELSE pc' = "remove" /\ answer' = file /\ UNCHANGED <<cur, verdict>>
  /\ UNCHANGED <<up, status, file, procs, history>>

\* The file is removed, and only then is the answer good.
Remove ==
  /\ pc = "remove"
  /\ \/ file # None /\ file' = None /\ Return(cur, answer)
     \/ Return(cur, Failed) /\ UNCHANGED file
  /\ UNCHANGED <<up, status, answer, procs, history>>
-----------------------------------------------------------------------------
(* The processes, and the daemon's.                                        *)

\* A process starts another one, which may leave the group and redirect its
\* output.
Fork(p) ==
  /\ Cardinality(procs) < Width
  /\ \E g \in {FALSE, p.group}, h \in {FALSE, p.pipe} :
       procs' = procs \cup {[p EXCEPT !.main = FALSE, !.group = g, !.pipe = h]}
  /\ UNCHANGED <<up, cur, pc, status, file, answer, verdict, history>>

\* A process writes .result, not all at once, or removes it.
Write(p) ==
  /\ \/ file' = None
     \/ \E t \in {"blank", "part", "whole"} :
          file' = [by |-> p.run, main |-> p.main, text |-> t]
  /\ UNCHANGED <<up, cur, pc, status, answer, procs, verdict, history>>

\* A process ends.  A command that reports success has written its file whole.
Exit(p) ==
  /\ procs' = procs \ {p}
  /\ IF p = Main(cur)
     THEN \/ status' = "bad"
          \/ /\ status' = "ok"
             /\ file # None /\ file.by = cur /\ file.main => file.text = "whole"
     ELSE UNCHANGED status
  /\ UNCHANGED <<up, cur, pc, file, answer, verdict, history>>

\* The daemon is killed; nothing of its kills the process group.
Crash ==
  /\ up /\ up' = FALSE
  /\ cur' = None /\ pc' = "idle"
  /\ verdict' = [j \in Jobs |-> IF j = cur THEN Lost ELSE verdict[j]]
  /\ UNCHANGED <<status, file, answer, procs, history>>

Restart ==
  /\ ~up /\ up' = TRUE
  /\ UNCHANGED <<cur, pc, status, file, answer, procs, verdict, history>>

Next ==
  \/ \E j \in Jobs : Refuse(j) \/ Clear(j)
  \/ Start \/ Cancel \/ Reap \/ Wait \/ Read \/ Remove
  \/ \E p \in procs : Fork(p) \/ Write(p) \/ Exit(p)
  \/ Crash \/ Restart

Spec == Init /\ [][Next]_vars

\* The worker gets on, and the time limit and WaitDelay run out.
Fairness ==
  /\ WF_vars(Start) /\ WF_vars(Cancel) /\ WF_vars(Wait)
  /\ WF_vars(Read) /\ WF_vars(Remove)
FairSpec == Spec /\ Fairness
-----------------------------------------------------------------------------
(* Properties.                                                             *)

\* An answer that is posted was written by the job's own command, and then it is
\* complete, or by a process that the command has left behind; what an earlier
\* run wrote is posted only if a process of that run was still alive when
\* .result was removed for this one.
OwnAnswer ==
  \A j \in Jobs : verdict[j] \in Content =>
    LET f == verdict[j] IN \/ f.by = j /\ (f.main => f.text = "whole")
                           \/ f.by \in stray[j]

\* A job that was ended by its time limit leaves no process of its group alive,
\* so that what goes on has left the group on purpose.
KilledGroupIsGone == \A p \in procs : p.run \in killed => ~p.group

\* Every run ends, even when processes of its command ignore everything, leave
\* the group and keep the pipes open.
RunEnds == \A j \in Jobs : cur = j ~> cur # j
=============================================================================
