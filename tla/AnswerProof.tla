----------------------------- MODULE AnswerProof -----------------------------
(***************************************************************************)
(* What is proved of an answer: that Runner reads the one the job has      *)
(* written, for any number of jobs and processes, and that Posting shows   *)
(* it to the room, whatever it says.  The two parts do not depend on each  *)
(* other.                                                                  *)
(***************************************************************************)
EXTENDS Runner, Posting, SequenceTheorems, TLAPS

-----------------------------------------------------------------------------
(* Runner.                                                                 *)

\* Who may be alive, and who may have written .result, while a job is executed:
\* its own processes, and those that were alive when it began.
AliveInv ==
  /\ cur # None => verdict[cur] = None
  /\ \A p \in procs : p.run = cur \/ verdict[p.run] # None
  /\ \A p \in procs : p.main => p = Main(p.run)
  /\ pc = "cleared" => status = "none" /\ \A p \in procs : p.run # cur
  /\ Main(cur) \in procs => pc = "running" /\ status = "none"
  /\ cur # None => \A p \in procs : p.run # cur => p.run \in stray[cur]

\* By whom f, found during the current job, has been written.
Known(f) == f.by = cur \/ f.by \in stray[cur]

\* What the command has written is complete once it has reported success.
Complete(f) == f.by = cur /\ f.main => f.text = "whole"

FileInv ==
  /\ file # None /\ cur # None => Known(file)
  /\ status = "ok" /\ file # None /\ pc \in {"running", "exited", "read", "remove"} => Complete(file)
  /\ pc \in {"exited", "read", "remove"} => status # "none"
  /\ pc \in {"read", "remove"} => status = "ok"
  /\ pc = "remove" => answer # None /\ Known(answer) /\ Complete(answer)

\* A job whose group was killed has ended, or is about to.
KilledInv == \A j \in killed : verdict[j] # None \/ (j = cur /\ pc = "killed")

IInv == TypeOK /\ AliveInv /\ FileInv /\ KilledInv /\ OwnAnswer /\ KilledGroupIsGone
-----------------------------------------------------------------------------
\* The leader of a job's group is a process.
LEMMA MainFacts ==
  ASSUME NEW j \in Jobs
  PROVE  Main(j) \in Process /\ Main(j).run = j /\ Main(j).main /\ Main(j).group
  BY DEF Main, Process

\* The invariant holds at first.
LEMMA IInvInit == Init => IInv
  BY RunnerAssumption DEF Init, IInv, TypeOK, AliveInv, FileInv, Known, Complete, KilledInv,
     OwnAnswer, KilledGroupIsGone

\* ... and every step preserves it: its part TypeOK.
LEMMA TypeOKStep == ASSUME IInv, [Next]_vars PROVE TypeOK'
<1> USE RunnerAssumption DEF IInv, TypeOK, Process, Content, NotBlank, history
<1>1. ASSUME NEW j \in Jobs, Refuse(j) PROVE TypeOK'
  BY <1>1 DEF Refuse, Return
<1>2. ASSUME NEW j \in Jobs, Clear(j) PROVE TypeOK'
  BY <1>2 DEF Clear
<1>3. ASSUME Start PROVE TypeOK'
  BY MainFacts, <1>3 DEF Start, Return
<1>4. ASSUME Cancel PROVE TypeOK'
  BY MainFacts, <1>4 DEF Cancel, Group
<1>5. ASSUME Reap PROVE TypeOK'
  BY <1>5 DEF Reap
<1>6. ASSUME Wait PROVE TypeOK'
  BY <1>6 DEF Wait, Return
<1>7. ASSUME Read PROVE TypeOK'
  BY <1>7 DEF Read, Return
<1>8. ASSUME Remove PROVE TypeOK'
  BY <1>8 DEF Remove, Return
<1>9. ASSUME NEW p \in procs, Fork(p) PROVE TypeOK'
  <2>1. procs' \in SUBSET Process
    BY <1>9 DEF Fork
  <2> HIDE DEF Content, Process, NotBlank
  <2> QED BY <1>9, <2>1 DEF Fork
<1>10. ASSUME NEW p \in procs, Write(p) PROVE TypeOK'
  <2>1. p.run \in Jobs /\ p.main \in BOOLEAN
    OBVIOUS
  <2>2. file' \in Content \cup {None}
    BY <1>10, <2>1 DEF Write
  <2> HIDE DEF Content, Process, NotBlank
  <2> QED BY <1>10, <2>2 DEF Write
<1>11. ASSUME NEW p \in procs, Exit(p) PROVE TypeOK'
  BY MainFacts, <1>11 DEF Exit
<1>12. ASSUME Crash PROVE TypeOK'
  BY <1>12 DEF Crash
<1>13. ASSUME Restart PROVE TypeOK'
  BY <1>13 DEF Restart
<1>14. ASSUME UNCHANGED vars PROVE TypeOK'
  BY <1>14 DEF vars
<1> QED BY <1>1, <1>2, <1>3, <1>4, <1>5, <1>6, <1>7, <1>8, <1>9, <1>10, <1>11, <1>12, <1>13, <1>14 DEF Next

\* A process that another one has made belongs to the same job and is not its command.
LEMMA ForkAlive == ASSUME IInv, NEW p \in procs, Fork(p) PROVE AliveInv'
<1>1. PICK g, h : procs' = procs \cup {[p EXCEPT !.main = FALSE, !.group = g, !.pipe = h]}
  BY DEF Fork
<1> DEFINE q == [p EXCEPT !.main = FALSE, !.group = g, !.pipe = h]
<1>2. p \in Process /\ AliveInv /\ UNCHANGED <<cur, pc, status, verdict, stray>>
  BY DEF IInv, TypeOK, Fork, history
<1>3. q.run = p.run /\ q.main = FALSE /\ Main(cur) # q
  BY <1>2 DEF Process, Main
<1>4. procs' = procs \cup {q}
  BY <1>1
<1> HIDE DEF q
<1>5. ASSUME NEW x \in procs'
      PROVE  /\ x.run = cur \/ verdict[x.run] # None
             /\ x.main => x = Main(x.run)
             /\ pc = "cleared" => x.run # cur
             /\ cur # None /\ x.run # cur => x.run \in stray[cur]
  <2>1. CASE x \in procs
    BY <1>2, <2>1 DEF AliveInv
  <2>2. CASE x = q
    BY <1>2, <1>3, <2>2 DEF AliveInv
  <2> QED
    BY <1>4, <2>1, <2>2
<1>6. Main(cur) \in procs' => Main(cur) \in procs
  BY <1>3, <1>4
<1> QED
  BY <1>2, <1>5, <1>6 DEF AliveInv, Main

\* ... and every step preserves it: its part AliveInv.
LEMMA AliveInvStep == ASSUME IInv, [Next]_vars PROVE AliveInv'
<1> USE RunnerAssumption DEF IInv, TypeOK, AliveInv, FileInv, Process, Content, history
<1>1. ASSUME NEW j \in Jobs, Refuse(j) PROVE AliveInv'
  BY <1>1 DEF Refuse, Return, Main
<1>2. ASSUME NEW j \in Jobs, Clear(j) PROVE AliveInv'
  BY <1>2 DEF Clear, Main
<1>3. ASSUME Start PROVE AliveInv'
  BY MainFacts, <1>3 DEF Start, Return, Main
<1>4. ASSUME Cancel PROVE AliveInv'
  BY MainFacts, <1>4 DEF Cancel, Group
<1>5. ASSUME Reap PROVE AliveInv'
  BY <1>5 DEF Reap
<1>6. ASSUME Wait PROVE AliveInv'
  BY <1>6 DEF Wait, Return, Main
<1>7. ASSUME Read PROVE AliveInv'
  BY <1>7 DEF Read, Return, Main
<1>8. ASSUME Remove PROVE AliveInv'
  BY <1>8 DEF Remove, Return, Main
<1>9. ASSUME NEW p \in procs, Fork(p) PROVE AliveInv'
  BY <1>9, ForkAlive, Zenon
<1>10. ASSUME NEW p \in procs, Write(p) PROVE AliveInv'
  BY <1>10 DEF Write
<1>11. ASSUME NEW p \in procs, Exit(p) PROVE AliveInv'
  BY MainFacts, <1>11 DEF Exit
<1>12. ASSUME Crash PROVE AliveInv'
  BY <1>12 DEF Crash, Main
<1>13. ASSUME Restart PROVE AliveInv'
  BY <1>13 DEF Restart
<1>14. ASSUME UNCHANGED vars PROVE AliveInv'
  BY <1>14 DEF vars
<1> QED BY <1>1, <1>2, <1>3, <1>4, <1>5, <1>6, <1>7, <1>8, <1>9, <1>10, <1>11, <1>12, <1>13, <1>14 DEF Next

\* ... and every step preserves it: its part FileInv.
LEMMA FileInvStep == ASSUME IInv, [Next]_vars PROVE FileInv'
<1> USE RunnerAssumption DEF IInv, TypeOK, AliveInv, FileInv, Known, Complete, Process, Content, history
<1>1. ASSUME NEW j \in Jobs, Refuse(j) PROVE FileInv'
  BY <1>1 DEF Refuse, Return
<1>2. ASSUME NEW j \in Jobs, Clear(j) PROVE FileInv'
  BY <1>2 DEF Clear
<1>3. ASSUME Start PROVE FileInv'
  BY MainFacts, <1>3 DEF Start, Return
<1>4. ASSUME Cancel PROVE FileInv'
  BY MainFacts, <1>4 DEF Cancel, Group
<1>5. ASSUME Reap PROVE FileInv'
  BY <1>5 DEF Reap
<1>6. ASSUME Wait PROVE FileInv'
  BY <1>6 DEF Wait, Return
<1>7. ASSUME Read PROVE FileInv'
  BY <1>7 DEF Read, Return
<1>8. ASSUME Remove PROVE FileInv'
  BY <1>8 DEF Remove, Return
<1>9. ASSUME NEW p \in procs, Fork(p) PROVE FileInv'
  BY <1>9 DEF Fork
<1>10. ASSUME NEW p \in procs, Write(p) PROVE FileInv'
  BY <1>10 DEF Write
<1>11. ASSUME NEW p \in procs, Exit(p) PROVE FileInv'
  BY MainFacts, <1>11 DEF Exit
<1>12. ASSUME Crash PROVE FileInv'
  BY <1>12 DEF Crash
<1>13. ASSUME Restart PROVE FileInv'
  BY <1>13 DEF Restart
<1>14. ASSUME UNCHANGED vars PROVE FileInv'
  BY <1>14 DEF vars
<1> QED BY <1>1, <1>2, <1>3, <1>4, <1>5, <1>6, <1>7, <1>8, <1>9, <1>10, <1>11, <1>12, <1>13, <1>14 DEF Next

\* ... and every step preserves it: its part KilledInv.
LEMMA KilledInvStep == ASSUME IInv, [Next]_vars PROVE KilledInv'
<1> USE RunnerAssumption DEF IInv, TypeOK, AliveInv, FileInv, KilledInv, history
<1>1. ASSUME NEW j \in Jobs, Refuse(j) PROVE KilledInv'
  BY <1>1 DEF Refuse, Return
<1>2. ASSUME NEW j \in Jobs, Clear(j) PROVE KilledInv'
  BY <1>2 DEF Clear
<1>3. ASSUME Start PROVE KilledInv'
  BY MainFacts, <1>3 DEF Start, Return
<1>4. ASSUME Cancel PROVE KilledInv'
  BY MainFacts, <1>4 DEF Cancel, Group
<1>5. ASSUME Reap PROVE KilledInv'
  BY <1>5 DEF Reap
<1>6. ASSUME Wait PROVE KilledInv'
  BY <1>6 DEF Wait, Return
<1>7. ASSUME Read PROVE KilledInv'
  BY <1>7 DEF Read, Return
<1>8. ASSUME Remove PROVE KilledInv'
  BY <1>8 DEF Remove, Return
<1>9. ASSUME NEW p \in procs, Fork(p) PROVE KilledInv'
  BY <1>9 DEF Fork
<1>10. ASSUME NEW p \in procs, Write(p) PROVE KilledInv'
  BY <1>10 DEF Write
<1>11. ASSUME NEW p \in procs, Exit(p) PROVE KilledInv'
  BY MainFacts, <1>11 DEF Exit
<1>12. ASSUME Crash PROVE KilledInv'
  BY <1>12 DEF Crash
<1>13. ASSUME Restart PROVE KilledInv'
  BY <1>13 DEF Restart
<1>14. ASSUME UNCHANGED vars PROVE KilledInv'
  BY <1>14 DEF vars
<1> QED BY <1>1, <1>2, <1>3, <1>4, <1>5, <1>6, <1>7, <1>8, <1>9, <1>10, <1>11, <1>12, <1>13, <1>14 DEF Next

\* ... and every step preserves it: its part OwnAnswer.
LEMMA OwnAnswerStep == ASSUME IInv, [Next]_vars PROVE OwnAnswer'
<1> USE RunnerAssumption DEF IInv, TypeOK, AliveInv, FileInv, Known, Complete, OwnAnswer, history
<1>1. ASSUME NEW j \in Jobs, Refuse(j) PROVE OwnAnswer'
  BY <1>1 DEF Refuse, Return
<1>2. ASSUME NEW j \in Jobs, Clear(j) PROVE OwnAnswer'
  BY <1>2 DEF Clear
<1>3. ASSUME Start PROVE OwnAnswer'
  BY MainFacts, <1>3 DEF Start, Return
<1>4. ASSUME Cancel PROVE OwnAnswer'
  BY MainFacts, <1>4 DEF Cancel, Group
<1>5. ASSUME Reap PROVE OwnAnswer'
  BY <1>5 DEF Reap
<1>6. ASSUME Wait PROVE OwnAnswer'
  BY <1>6 DEF Wait, Return
<1>7. ASSUME Read PROVE OwnAnswer'
  BY <1>7 DEF Read, Return
<1>8. ASSUME Remove PROVE OwnAnswer'
  BY <1>8 DEF Remove, Return
<1>9. ASSUME NEW p \in procs, Fork(p) PROVE OwnAnswer'
  BY <1>9 DEF Fork
<1>10. ASSUME NEW p \in procs, Write(p) PROVE OwnAnswer'
  BY <1>10 DEF Write
<1>11. ASSUME NEW p \in procs, Exit(p) PROVE OwnAnswer'
  BY MainFacts, <1>11 DEF Exit
<1>12. ASSUME Crash PROVE OwnAnswer'
  BY <1>12 DEF Crash
<1>13. ASSUME Restart PROVE OwnAnswer'
  BY <1>13 DEF Restart
<1>14. ASSUME UNCHANGED vars PROVE OwnAnswer'
  BY <1>14 DEF vars
<1> QED BY <1>1, <1>2, <1>3, <1>4, <1>5, <1>6, <1>7, <1>8, <1>9, <1>10, <1>11, <1>12, <1>13, <1>14 DEF Next

\* ... and every step preserves it: its part KilledGroupIsGone.
LEMMA KilledGroupIsGoneStep == ASSUME IInv, [Next]_vars PROVE KilledGroupIsGone'
<1> USE RunnerAssumption DEF IInv, TypeOK, AliveInv, KilledInv, KilledGroupIsGone, Process, history
<1>1. ASSUME NEW j \in Jobs, Refuse(j) PROVE KilledGroupIsGone'
  BY <1>1 DEF Refuse, Return
<1>2. ASSUME NEW j \in Jobs, Clear(j) PROVE KilledGroupIsGone'
  BY <1>2 DEF Clear
<1>3. ASSUME Start PROVE KilledGroupIsGone'
  BY MainFacts, <1>3 DEF Start, Return
<1>4. ASSUME Cancel PROVE KilledGroupIsGone'
  BY MainFacts, <1>4 DEF Cancel, Group
<1>5. ASSUME Reap PROVE KilledGroupIsGone'
  BY <1>5 DEF Reap
<1>6. ASSUME Wait PROVE KilledGroupIsGone'
  BY <1>6 DEF Wait, Return
<1>7. ASSUME Read PROVE KilledGroupIsGone'
  BY <1>7 DEF Read, Return
<1>8. ASSUME Remove PROVE KilledGroupIsGone'
  BY <1>8 DEF Remove, Return
<1>9. ASSUME NEW p \in procs, Fork(p) PROVE KilledGroupIsGone'
  BY <1>9 DEF Fork
<1>10. ASSUME NEW p \in procs, Write(p) PROVE KilledGroupIsGone'
  BY <1>10 DEF Write
<1>11. ASSUME NEW p \in procs, Exit(p) PROVE KilledGroupIsGone'
  BY MainFacts, <1>11 DEF Exit
<1>12. ASSUME Crash PROVE KilledGroupIsGone'
  BY <1>12 DEF Crash
<1>13. ASSUME Restart PROVE KilledGroupIsGone'
  BY <1>13 DEF Restart
<1>14. ASSUME UNCHANGED vars PROVE KilledGroupIsGone'
  BY <1>14 DEF vars
<1> QED BY <1>1, <1>2, <1>3, <1>4, <1>5, <1>6, <1>7, <1>8, <1>9, <1>10, <1>11, <1>12, <1>13, <1>14 DEF Next

LEMMA Invariance == Spec => []IInv
<1>1. IInv /\ [Next]_vars => IInv'
  BY TypeOKStep, AliveInvStep, FileInvStep, KilledInvStep, OwnAnswerStep, KilledGroupIsGoneStep DEF IInv
<1> QED BY <1>1, IInvInit, PTL DEF Spec
-----------------------------------------------------------------------------
\* The variables have their types (execute and Run keep what they say they keep).
THEOREM TypeCorrect == Spec => []TypeOK
<1>1. IInv => TypeOK
  BY DEF IInv
<1> QED BY <1>1, Invariance, PTL

\* An answer is the command's own, and then complete, or that of a process that is
\* accounted for: Run clears .result before the command starts, and reads it only
\* after a success.
THEOREM AnswersAreOwn == Spec => []OwnAnswer
<1>1. IInv => OwnAnswer
  BY DEF IInv
<1> QED BY <1>1, Invariance, PTL

\* A time limit ends the whole process group, and nothing joins a group that has
\* been killed: cmd.Cancel signals the group, whose leader was the job's command.
THEOREM KilledGroupsStayGone == Spec => []KilledGroupIsGone
<1>1. IInv => KilledGroupIsGone
  BY DEF IInv
<1> QED BY <1>1, Invariance, PTL
-----------------------------------------------------------------------------
(* Posting.  A text is followed through Chunk by the places where it has   *)
(* been cut.                                                               *)

\* The characters of t after the first p, up to the q-th.
Between(t, p, q) == SubSeq(t, p + 1, q)

\* How many characters a part has.
LEMMA BetweenProperties ==
  ASSUME NEW t \in Text, NEW q \in 0 .. Len(t), NEW p \in 0 .. q
  PROVE  /\ Between(t, p, q) \in Text
         /\ Len(Between(t, p, q)) = q - p
         /\ Between(t, p, q) = <<>> <=> p = q
<1>1. \A i \in p + 1 .. q : t[i] \in Char
  BY DEF Text
<1>2. /\ SubSeq(t, p + 1, q) \in Seq(Char)
      /\ Len(SubSeq(t, p + 1, q)) = IF p + 1 <= q THEN q - (p + 1) + 1 ELSE 0
      /\ \A i \in 1 .. q - (p + 1) + 1 : SubSeq(t, p + 1, q)[i] = t[p + 1 + i - 1]
  BY <1>1, SubSeqProperties, p + 1 \in Int, q \in Int
<1>3. Len(Between(t, p, q)) = q - p
  BY <1>2 DEF Between
<1>4. Between(t, p, q) = <<>> <=> p = q
  BY <1>2, <1>3, EmptySeq DEF Between
<1> QED
  BY <1>2, <1>3, <1>4 DEF Between, Text

\* Which characters they are.
LEMMA BetweenElement ==
  ASSUME NEW t \in Text, NEW q \in 0 .. Len(t), NEW p \in 0 .. q, NEW i \in 1 .. q - p
  PROVE  Between(t, p, q)[i] = t[p + i]
<1>1. \A k \in p + 1 .. q : t[k] \in Char
  BY DEF Text
<1>2. \A k \in 1 .. q - (p + 1) + 1 : SubSeq(t, p + 1, q)[k] = t[p + 1 + k - 1]
  BY <1>1, SubSeqProperties, p + 1 \in Int, q \in Int
<1> QED
  BY <1>2 DEF Between

\* The same of a part that goes on to the end.
LEMMA EndProperties ==
  ASSUME NEW t \in Text, NEW p \in 0 .. Len(t)
  PROVE  /\ Len(t) \in Nat
         /\ Between(t, p, Len(t)) \in Text
         /\ Len(Between(t, p, Len(t))) = Len(t) - p
         /\ Between(t, p, Len(t)) = <<>> <=> p = Len(t)
<1> DEFINE q == Len(t)
<1>1. q \in Nat /\ q \in 0 .. Len(t) /\ p \in 0 .. q
  BY DEF Text
<1> HIDE DEF q
<1>2. /\ Between(t, p, q) \in Text
      /\ Len(Between(t, p, q)) = q - p
      /\ Between(t, p, q) = <<>> <=> p = q
  BY <1>1, BetweenProperties
<1> QED
  BY <1>1, <1>2 DEF q

\* A part of a part is a part.
LEMMA BetweenBetween ==
  ASSUME NEW t \in Text, NEW q \in 0 .. Len(t), NEW p \in 0 .. q,
         NEW n \in 0 .. q - p, NEW m \in 0 .. n
  PROVE  Between(Between(t, p, q), m, n) = Between(t, p + m, p + n)
<1> DEFINE s == Between(t, p, q)
           u == Between(s, m, n)
           v == Between(t, p + m, p + n)
<1>1. s \in Text /\ Len(s) = q - p
  BY BetweenProperties
<1>2. ASSUME NEW k \in 1 .. q - p PROVE s[k] = t[p + k]
  BY BetweenElement
<1> HIDE DEF s
<1>3. n \in 0 .. Len(s)
  BY <1>1
<1>4. u \in Text /\ Len(u) = n - m
  BY <1>1, <1>3, BetweenProperties
<1> DEFINE a == p + m
           b == p + n
<1>5. b \in 0 .. Len(t) /\ a \in 0 .. b /\ b - a = n - m
  OBVIOUS
<1>6. ASSUME NEW i \in 1 .. n - m PROVE u[i] = v[i]
  <2>1. i \in 1 .. b - a /\ m + i \in 1 .. q - p /\ p + (m + i) = a + i
    OBVIOUS
  <2> HIDE DEF a, b
  <2>2. u[i] = s[m + i]
    BY <1>1, <1>3, BetweenElement
  <2>3. Between(t, a, b)[i] = t[a + i]
    BY <1>5, <2>1, BetweenElement
  <2> QED
    BY <1>2, <2>1, <2>2, <2>3 DEF a, b
<1> HIDE DEF a, b
<1>7. Between(t, a, b) \in Text /\ Len(Between(t, a, b)) = n - m
  BY <1>5, BetweenProperties
<1>8. v \in Text /\ Len(v) = n - m
  BY <1>7 DEF a, b
<1> HIDE DEF u, v
<1>9. u = v
  BY <1>4, <1>6, <1>8, SeqEqual DEF Text
<1> QED
  BY <1>9 DEF s, u, v

\* Parts that meet make one part.
LEMMA BetweenConcat ==
  ASSUME NEW t \in Text, NEW q \in 0 .. Len(t), NEW k \in 0 .. q, NEW p \in 0 .. k
  PROVE  Between(t, p, k) \o Between(t, k, q) = Between(t, p, q)
  BY ConcatAdjacentSubSeq, p + 1 \in 1 .. Len(t) + 1, k \in p .. Len(t), q \in k .. Len(t), p = p + 1 - 1
     DEF Between, Text

\* All of a text is a part of it.
LEMMA BetweenAll ==
  ASSUME NEW t \in Text
  PROVE  Between(t, 0, Len(t)) = t
  BY SubSeqFull DEF Between, Text
-----------------------------------------------------------------------------
(* A text and its cuts.                                                    *)

\* The chunks cs lie one after another in t; e[i] is where the i-th ends.
Cuts(t, cs, e) ==
  /\ e \in [0 .. Len(cs) -> 0 .. Len(t)]
  /\ \A i \in 1 .. Len(cs) :
       /\ e[i - 1] < e[i]
       /\ cs[i] = Between(t, e[i - 1], e[i])
       /\ Fits(cs[i]) \/ Len(cs[i]) = 1

\* The chunks are the first p characters.
Covers(t, cs, p) ==
  /\ cs \in Seq(Text)
  /\ \E e : Cuts(t, cs, e) /\ e[0] = 0 /\ e[Len(cs)] = p

\* One more chunk that begins where the last one ends.
LEMMA CoversAppend ==
  ASSUME NEW t \in Text, NEW cs, NEW p, Covers(t, cs, p),
         NEW q, q \in 0 .. Len(t), p < q,
         NEW x, x = Between(t, p, q), Fits(x) \/ Len(x) = 1
  PROVE  Covers(t, Append(cs, x), q)
<1>0. PICK e : cs \in Seq(Text) /\ Cuts(t, cs, e) /\ e[0] = 0 /\ e[Len(cs)] = p
  BY DEF Covers
<1> DEFINE n == Len(cs)
           d == [i \in 0 .. n + 1 |-> IF i <= n THEN e[i] ELSE q]
           ds == Append(cs, x)
<1>1. n \in Nat /\ Len(t) \in Nat /\ e \in [0 .. n -> 0 .. Len(t)] /\ p \in 0 .. q
  <2>1. n \in 0 .. n /\ Len(t) \in Nat
    BY <1>0 DEF Text
  <2>2. e \in [0 .. n -> 0 .. Len(t)]
    BY <1>0 DEF Cuts
  <2> QED
    BY <1>0, <2>1, <2>2
<1>2. x \in Text
  BY <1>1, BetweenProperties, Zenon
<1>3. /\ ds \in Seq(Text) /\ Len(ds) = n + 1
      /\ \A i \in 1 .. n : ds[i] = cs[i]
      /\ ds[n + 1] = x
  BY <1>0, <1>2, AppendProperties
<1>4. d \in [0 .. n + 1 -> 0 .. Len(t)] /\ d[0] = 0 /\ d[n + 1] = q /\ d[n] = p
  BY <1>0, <1>1
<1>5. ASSUME NEW i \in 1 .. n + 1
      PROVE  /\ d[i - 1] < d[i]
             /\ ds[i] = Between(t, d[i - 1], d[i])
             /\ Fits(ds[i]) \/ Len(ds[i]) = 1
  <2>1. CASE i = n + 1
    <3>1. i - 1 = n
      BY <2>1, <1>1
    <3> QED
      BY <2>1, <3>1, <1>3, <1>4
  <2>2. CASE i # n + 1
    <3>1. i \in 1 .. n /\ i - 1 \in 0 .. n
      BY <2>2, <1>1
    <3>2. d[i] = e[i] /\ d[i - 1] = e[i - 1] /\ ds[i] = cs[i]
      BY <3>1, <1>1, <1>3
    <3> QED
      BY <3>1, <3>2, <1>0 DEF Cuts
  <2> QED
    BY <2>1, <2>2
<1>6. Cuts(t, ds, d)
  BY <1>3, <1>4, <1>5 DEF Cuts
<1> QED
  BY <1>3, <1>4, <1>6 DEF Covers

\* Without the first chunk, the cuts begin where it ended.
LEMMA CutsTail ==
  ASSUME NEW t \in Text, NEW cs \in Seq(Text), cs # <<>>, NEW e, Cuts(t, cs, e)
  PROVE  LET d == [i \in 0 .. Len(cs) - 1 |-> e[i + 1]]
         IN /\ Cuts(t, Tail(cs), d) /\ Len(Tail(cs)) = Len(cs) - 1
            /\ d[0] = e[1] /\ d[Len(cs) - 1] = e[Len(cs)]
            /\ Head(cs) = Between(t, e[0], e[1]) /\ e[0] < e[1]
<1> DEFINE n == Len(cs)
           d == [i \in 0 .. n - 1 |-> e[i + 1]]
           ds == Tail(cs)
<1>1. n \in Nat /\ n >= 1 /\ Len(t) \in Nat /\ e \in [0 .. n -> 0 .. Len(t)]
  BY EmptySeq DEF Cuts, Text
<1>2. /\ Len(ds) = n - 1 /\ \A i \in 1 .. n - 1 : ds[i] = cs[i + 1]
      /\ Head(cs) = cs[1]
  BY <1>1, HeadTailProperties
<1>3. d \in [0 .. n - 1 -> 0 .. Len(t)] /\ d[0] = e[1] /\ d[n - 1] = e[n]
  BY <1>1
<1>4. ASSUME NEW i \in 1 .. n - 1
      PROVE  /\ d[i - 1] < d[i]
             /\ ds[i] = Between(t, d[i - 1], d[i])
             /\ Fits(ds[i]) \/ Len(ds[i]) = 1
  <2>1. i + 1 \in 1 .. n /\ i - 1 \in 0 .. n - 1 /\ i \in 0 .. n - 1 /\ (i + 1) - 1 = i /\ (i - 1) + 1 = i
    BY <1>1
  <2>2. d[i] = e[i + 1] /\ d[i - 1] = e[i] /\ ds[i] = cs[i + 1]
    BY <2>1, <1>2
  <2> QED
    BY <2>1, <2>2 DEF Cuts
<1>5. Cuts(t, ds, d)
  BY <1>2, <1>3, <1>4 DEF Cuts
<1>6. 1 \in 1 .. n /\ 1 - 1 = 0
  BY <1>1
<1>7. Head(cs) = Between(t, e[0], e[1]) /\ e[0] < e[1]
  BY <1>2, <1>6 DEF Cuts
<1> QED
  BY <1>2, <1>3, <1>5, <1>7

\* No chunk is empty.
LEMMA CutsNotEmpty ==
  ASSUME NEW t \in Text, NEW cs \in Seq(Text), NEW e, Cuts(t, cs, e)
  PROVE  cs \in Seq(Text \ {<<>>})
<1>1. ASSUME NEW i \in 1 .. Len(cs) PROVE cs[i] \in Text \ {<<>>}
  <2>1. i - 1 \in 0 .. Len(cs) /\ i \in 0 .. Len(cs) /\ Len(t) \in Nat
    BY DEF Text
  <2>2. e[i] \in 0 .. Len(t) /\ e[i - 1] \in 0 .. e[i] /\ e[i - 1] # e[i]
    BY <2>1 DEF Cuts
  <2> DEFINE p == e[i - 1]
             q == e[i]
  <2>3. cs[i] = Between(t, p, q)
    BY DEF Cuts
  <2> HIDE DEF p, q
  <2>4. Between(t, p, q) \in Text /\ Between(t, p, q) # <<>>
    <3>1. q \in 0 .. Len(t) /\ p \in 0 .. q /\ p # q
      BY <2>2 DEF p, q
    <3> QED
      BY <3>1, BetweenProperties
  <2> QED
    BY <2>3, <2>4
<1> QED
  BY <1>1
-----------------------------------------------------------------------------
(* The steps of Chunk.                                                     *)

\* So much of t is in chunks, then in current up to p, in segment up to q, and in
\* rest.
Place(t, c, e, p, q) ==
  /\ Cuts(t, c.chunks, e) /\ e[0] = 0
  /\ q \in 0 .. Len(t) /\ p \in 0 .. q /\ e[Len(c.chunks)] \in 0 .. p
  /\ c.current = Between(t, e[Len(c.chunks)], p)
  /\ c.segment = Between(t, p, q)
  /\ c.rest = Between(t, q, Len(t))

Splits(t, c) ==
  /\ c \in Locals /\ Fits(c.current)
  /\ \E e, p, q : Place(t, c, e, p, q)

\* Nothing has been taken yet.
LEMMA CalledSplits ==
  ASSUME NEW t \in Text
  PROVE  Splits(t, Called(t))
<1> DEFINE c == Called(t)
           e == [i \in 0 .. 0 |-> 0]
<1>1. <<>> \in Text /\ <<>> \in Seq(Text) /\ Len(<<>>) = 0 /\ Len(t) \in Nat
  BY DEF Text
<1>2. c \in Locals /\ Fits(c.current)
  BY <1>1, ChunkAssumption DEF Called, Locals
<1>3. Between(t, 0, 0) = <<>>
  BY <1>1, BetweenProperties, 0 \in 0 .. Len(t), 0 \in 0 .. 0
<1>4. e \in [0 .. 0 -> 0 .. Len(t)] /\ e[0] = 0
  BY <1>1
<1>5. Cuts(t, <<>>, e)
  BY <1>1, <1>4 DEF Cuts
<1>6. Place(t, c, e, 0, 0)
  BY <1>1, <1>3, <1>4, <1>5, BetweenAll DEF Place, Called
<1> QED
  BY <1>2, <1>6 DEF Splits

\* Taking a line moves its characters from rest to segment.
LEMMA takeLineSplits ==
  ASSUME NEW t \in Text, NEW c, Splits(t, c), c.segment = <<>>, NEW n \in 1 .. Len(c.rest)
  PROVE  /\ Splits(t, takeLine(c, n))
         /\ takeLine(c, n).segment # <<>>
         /\ Len(takeLine(c, n).rest) < Len(c.rest)
<1> DEFINE d == takeLine(c, n)
<1>1. PICK e, p, q : Place(t, c, e, p, q)
  BY DEF Splits
<1>2. /\ Len(t) \in Nat /\ Len(t) \in 0 .. Len(t) /\ q \in 0 .. Len(t) /\ p \in 0 .. q
      /\ c.segment = Between(t, p, q) /\ c.rest = Between(t, q, Len(t))
  BY <1>1 DEF Place, Text
<1>3. p = q
  <2>1. Between(t, p, q) = <<>> <=> p = q
    BY <1>2, BetweenProperties, Zenon
  <2> QED
    BY <1>2, <2>1
<1>4. c.rest \in Text /\ Len(c.rest) = Len(t) - q
  <2>1. Between(t, q, Len(t)) \in Text /\ Len(Between(t, q, Len(t))) = Len(t) - q
    BY <1>2, EndProperties, Zenon
  <2> QED
    BY <1>2, <2>1
<1>5. /\ n \in 0 .. Len(t) - q /\ 0 \in 0 .. n /\ n \in 0 .. n
      /\ Len(t) - q \in 0 .. Len(t) - q /\ q + 0 = q /\ q + (Len(t) - q) = Len(t)
  BY <1>2, <1>4
<1>6. /\ Between(c.rest, 0, n) = Between(t, q, q + n)
      /\ Between(c.rest, n, Len(c.rest)) = Between(t, q + n, Len(t))
  <2> DEFINE m == Len(t) - q
  <2> HIDE DEF m
  <2>1. Between(Between(t, q, Len(t)), 0, n) = Between(t, q + 0, q + n)
    BY <1>2, <1>5, BetweenBetween, Zenon
  <2>2. Between(Between(t, q, Len(t)), n, m) = Between(t, q + n, q + m)
    BY <1>2, <1>5, BetweenBetween, Zenon DEF m
  <2> QED
    BY <1>2, <1>4, <1>5, <2>1, <2>2 DEF m
<1>7. d = [c EXCEPT !.segment = Between(t, q, q + n), !.rest = Between(t, q + n, Len(t))]
  BY <1>6, 0 + 1 = 1 DEF takeLine, Between
<1>8. q + n \in 0 .. Len(t) /\ q \in 0 .. q + n
  BY <1>2, <1>4
<1>9. /\ Between(t, q, q + n) \in Text /\ Between(t, q, q + n) # <<>>
      /\ Between(t, q + n, Len(t)) \in Text /\ Len(Between(t, q + n, Len(t))) = Len(t) - (q + n)
  <2>1. Between(t, q, q + n) \in Text /\ Between(t, q, q + n) # <<>>
    <3>1. /\ Between(t, q, q + n) \in Text
          /\ Between(t, q, q + n) = <<>> <=> q = q + n
      BY <1>2, <1>8, BetweenProperties, Zenon
    <3> QED
      BY <1>2, <1>8, <3>1
  <2>2. Between(t, q + n, Len(t)) \in Text /\ Len(Between(t, q + n, Len(t))) = Len(t) - (q + n)
    BY <1>2, <1>8, EndProperties, Zenon
  <2> QED
    BY <2>1, <2>2
<1>10. d \in Locals /\ Fits(d.current)
  BY <1>7, <1>9 DEF Splits, Locals
<1>11. Place(t, d, e, p, q + n)
  BY <1>1, <1>2, <1>3, <1>7, <1>8 DEF Place, Splits, Locals
<1>12. Splits(t, d)
  BY <1>10, <1>11 DEF Splits
<1>13. d.segment = Between(t, q, q + n) /\ d.rest = Between(t, q + n, Len(t))
  BY <1>7 DEF Splits, Locals
<1>14. Len(d.rest) < Len(c.rest)
  BY <1>2, <1>4, <1>9, <1>13
<1> QED
  BY <1>9, <1>12, <1>13, <1>14

\* What has been gathered becomes a chunk, if it is anything.
LEMMA FlushCuts ==
  ASSUME NEW t \in Text, NEW c, Splits(t, c), NEW e, NEW p, NEW q, Place(t, c, e, p, q)
  PROVE  Covers(t, c.chunks \o NotEmpty(c.current), p)
<1> DEFINE n == Len(c.chunks)
           k == e[n]
<1>1. c.chunks \in Seq(Text) /\ n \in Nat /\ c.current \in Text /\ Fits(c.current)
  BY DEF Splits, Locals
<1>2. /\ Len(t) \in Nat /\ p \in 0 .. Len(t) /\ e[n] \in 0 .. p
      /\ c.current = Between(t, e[n], p)
      /\ Cuts(t, c.chunks, e) /\ e[0] = 0
  BY DEF Place, Text
<1>3. k \in 0 .. p /\ c.current = Between(t, k, p) /\ k = e[n]
  BY <1>2
<1> HIDE DEF k
<1>4. c.current = <<>> <=> k = p
  <2>1. k \in 0 .. p /\ p \in 0 .. Len(t)
    BY <1>2, <1>3
  <2>2. Between(t, k, p) = <<>> <=> k = p
    BY <2>1, BetweenProperties, Zenon
  <2> QED
    BY <1>3, <2>2
<1>5. CASE c.current = <<>>
  <2>1. c.chunks \o NotEmpty(c.current) = c.chunks
    BY <1>1, <1>5, ConcatEmptySeq DEF NotEmpty
  <2>2. e[n] = p
    BY <1>5, <1>3, <1>4
  <2> QED
    BY <1>1, <1>2, <2>1, <2>2 DEF Covers
<1>6. CASE c.current # <<>>
  <2>1. c.chunks \o NotEmpty(c.current) = Append(c.chunks, c.current)
    BY <1>1, <1>6, AppendIsConcat DEF NotEmpty
  <2>2. e[n] < p
    BY <1>2, <1>6, <1>3, <1>4
  <2>3. Covers(t, c.chunks, e[n])
    BY <1>1, <1>2 DEF Covers
  <2> QED
    BY <1>1, <1>2, <2>1, <2>2, <2>3, CoversAppend
<1> QED
  BY <1>5, <1>6

\* The search does not touch the text.
LEMMA SamePlaceSplits ==
  ASSUME NEW t, NEW c, Splits(t, c), NEW d \in Locals,
         d.chunks = c.chunks, d.current = c.current, d.segment = c.segment, d.rest = c.rest
  PROVE  Splits(t, d)
<1>1. PICK e, p, q : Place(t, c, e, p, q)
  BY DEF Splits
<1>2. Place(t, d, e, p, q)
  BY <1>1 DEF Place
<1> QED
  BY <1>2 DEF Splits

\* What longestFitting has found, and where it still looks.
Bisects(c) ==
  /\ c.segment # <<>>
  /\ c.low \in 1 .. Len(c.segment) + 1 /\ c.high \in 0 .. Len(c.segment)
  /\ c.low <= c.high + 1
  /\ c.best \in 1 .. Len(c.segment)
  /\ c.best = 1 \/ Fits(SubSeq(c.segment, 1, c.best))

\* A search begins with the whole segment, and with its first character as the result.
LEMMA searchSplits ==
  ASSUME NEW t \in Text, NEW c, Splits(t, c), ~Fits(c.segment)
  PROVE  /\ Splits(t, search(c)) /\ Bisects(search(c))
         /\ search(c).segment = c.segment /\ search(c).rest = c.rest
<1>1. c \in Locals
  BY DEF Splits
<1>2. c.segment # <<>>
  BY ChunkAssumption
<1>3. Len(c.segment) \in Nat /\ Len(c.segment) >= 1
  BY <1>1, <1>2, EmptySeq DEF Locals, Text
<1> DEFINE d == search(c)
<1>4. /\ d \in Locals
      /\ d.chunks = c.chunks /\ d.current = c.current /\ d.segment = c.segment /\ d.rest = c.rest
      /\ d.low = 1 /\ d.high = Len(c.segment) /\ d.best = 1
  BY <1>1, <1>3 DEF search, Locals
<1> HIDE DEF d
<1>5. Bisects(d)
  BY <1>2, <1>3, <1>4 DEF Bisects
<1> QED
  BY <1>4, <1>5, SamePlaceSplits DEF d

\* Looking at a prefix narrows the search; the result is one character, or fits.
LEMMA probeSplits ==
  ASSUME NEW t \in Text, NEW c, Splits(t, c), Bisects(c), c.low <= c.high
  PROVE  /\ Splits(t, probe(c)) /\ Bisects(probe(c))
         /\ probe(c).segment = c.segment /\ probe(c).rest = c.rest
         /\ probe(c).high + c.low < c.high + probe(c).low
<1> DEFINE mid == (c.low + c.high) \div 2
<1>1. c \in Locals
  BY DEF Splits
<1>2. Len(c.segment) \in Nat /\ c.low \in Nat /\ c.high \in Nat
  BY <1>1 DEF Locals, Text
<1>3. mid \in c.low .. c.high /\ mid \in 1 .. Len(c.segment)
  BY <1>2 DEF Bisects
<1> HIDE DEF mid
<1> DEFINE d == probe(c)
<1>4. /\ d \in Locals
      /\ d.chunks = c.chunks /\ d.current = c.current /\ d.segment = c.segment /\ d.rest = c.rest
      /\ \/ /\ Fits(SubSeq(c.segment, 1, mid))
            /\ d.best = mid /\ d.low = mid + 1 /\ d.high = c.high
         \/ d.best = c.best /\ d.low = c.low /\ d.high = mid - 1
  <2>1. CASE Fits(SubSeq(c.segment, 1, mid))
    <3>1. d = [c EXCEPT !.best = mid, !.low = mid + 1]
      BY <2>1 DEF probe, mid
    <3>2. mid \in Nat /\ mid + 1 \in Nat
      BY <1>3
    <3>3. /\ d \in Locals
          /\ d.chunks = c.chunks /\ d.current = c.current /\ d.segment = c.segment /\ d.rest = c.rest
          /\ d.best = mid /\ d.low = mid + 1 /\ d.high = c.high
      BY <1>1, <3>1, <3>2 DEF Locals
    <3> QED
      BY <2>1, <3>3
  <2>2. CASE ~Fits(SubSeq(c.segment, 1, mid))
    <3>1. d = [c EXCEPT !.high = mid - 1]
      BY <2>2 DEF probe, mid
    <3> QED
      BY <1>1, <1>2, <1>3, <3>1 DEF Locals
  <2> QED
    BY <2>1, <2>2
<1> HIDE DEF d
<1>5. Bisects(d) /\ d.high + c.low < c.high + d.low
  <2> USE <1>2, <1>3, <1>4 DEF Bisects
  <2>1. CASE d.best = c.best /\ d.low = c.low /\ d.high = mid - 1
    BY <2>1
  <2>2. CASE /\ Fits(SubSeq(c.segment, 1, mid))
             /\ d.best = mid /\ d.low = mid + 1 /\ d.high = c.high
    BY <2>2
  <2> QED
    BY <2>1, <2>2
<1> QED
  BY <1>4, <1>5, SamePlaceSplits DEF d

\* Cutting moves the result, and what was gathered, to chunks, and shortens the segment.
LEMMA cutSplits ==
  ASSUME NEW t \in Text, NEW c, Splits(t, c), Bisects(c)
  PROVE  /\ Splits(t, cut(c))
         /\ cut(c).rest = c.rest /\ Len(cut(c).segment) < Len(c.segment)
<1> DEFINE cs == c.chunks \o NotEmpty(c.current)
           n  == Len(cs)
           b  == c.best
           x  == SubSeq(c.segment, 1, b)
           y  == SubSeq(c.segment, b + 1, Len(c.segment))
<1>1. c \in Locals
  BY DEF Splits
<1>2. PICK e, p, q : Place(t, c, e, p, q)
  BY DEF Splits
<1>3. /\ Len(t) \in Nat /\ q \in 0 .. Len(t) /\ p \in 0 .. q
      /\ c.segment = Between(t, p, q) /\ c.rest = Between(t, q, Len(t))
  BY <1>2 DEF Place, Text
<1>4. Covers(t, cs, p)
  BY <1>2, FlushCuts
<1>6. Len(c.segment) = q - p
  <2>1. q \in 0 .. Len(t) /\ p \in 0 .. q
    BY <1>3
  <2>2. Len(Between(t, p, q)) = q - p
    BY <2>1, BetweenProperties, Zenon
  <2> QED
    BY <1>3, <2>2
<1>7. b \in 1 .. q - p
  BY <1>6 DEF Bisects
<1>8. x = Between(t, p, p + b) /\ y = Between(t, p + b, q)
  <2>1. /\ q - p \in 0 .. q - p /\ b \in 0 .. q - p /\ 0 \in 0 .. b
        /\ p + 0 = p /\ p + (q - p) = q
    BY <1>3, <1>7
  <2>2. Between(Between(t, p, q), 0, b) = Between(t, p + 0, p + b)
    BY <1>3, <2>1, BetweenBetween, Zenon
  <2>3. Between(Between(t, p, q), b, q - p) = Between(t, p + b, p + (q - p))
    BY <1>3, <2>1, BetweenBetween, Zenon
  <2>4. x = Between(Between(t, p, q), 0, b) /\ y = Between(Between(t, p, q), b, q - p)
    BY <1>3, <1>6, 0 + 1 = 1 DEF Between
  <2> QED
    BY <2>1, <2>2, <2>3, <2>4
<1>9. p + b \in 0 .. q /\ p + b \in 0 .. Len(t) /\ p \in 0 .. p + b /\ p < p + b /\ (p + b) - p = b
  BY <1>3, <1>7
<1>10. /\ x \in Text /\ Len(x) = b
       /\ y \in Text /\ Len(y) = q - (p + b)
       /\ Between(t, p + b, p + b) = <<>>
  <2>1. Between(t, p, p + b) \in Text /\ Len(Between(t, p, p + b)) = (p + b) - p
    <3> DEFINE k == p + b
    <3>1. k \in 0 .. Len(t) /\ p \in 0 .. k
      BY <1>9
    <3> HIDE DEF k
    <3>2. Between(t, p, k) \in Text /\ Len(Between(t, p, k)) = k - p
      BY <3>1, BetweenProperties
    <3> QED
      BY <3>2 DEF k
  <2>2. Between(t, p + b, q) \in Text /\ Len(Between(t, p + b, q)) = q - (p + b)
    <3> DEFINE k == p + b
    <3>1. q \in 0 .. Len(t) /\ k \in 0 .. q
      BY <1>3, <1>9
    <3> HIDE DEF k
    <3>2. Between(t, k, q) \in Text /\ Len(Between(t, k, q)) = q - k
      BY <3>1, BetweenProperties
    <3> QED
      BY <3>2 DEF k
  <2>3. Between(t, p + b, p + b) = <<>>
    BY SubSeqEmpty, <1>9, p + b + 1 \in Int, p + b \in Int, p + b < p + b + 1 DEF Between
  <2> QED
    BY <1>8, <1>9, <2>1, <2>2, <2>3
<1>11. Fits(x) \/ Len(x) = 1
  BY <1>10 DEF Bisects
<1>12. Covers(t, Append(cs, x), p + b)
  <2>1. x = Between(t, p, p + b)
    BY <1>8
  <2> HIDE DEF cs, x
  <2> QED
    BY <1>4, <1>9, <1>11, <2>1, CoversAppend
<1>13. PICK f : /\ Append(cs, x) \in Seq(Text) /\ Cuts(t, Append(cs, x), f)
                /\ f[0] = 0 /\ f[Len(Append(cs, x))] = p + b
  BY <1>12 DEF Covers
<1> HIDE DEF cs, x, y
<1>14. cut(c) = [c EXCEPT !.chunks = Append(cs, x), !.current = <<>>, !.segment = y]
  BY DEF cut, cs, x, y
<1>15. /\ cut(c).chunks = Append(cs, x) /\ cut(c).current = <<>> /\ cut(c).segment = y
       /\ cut(c).rest = c.rest
  BY <1>1, <1>14 DEF Locals
<1>16. <<>> \in Text
  BY DEF Text
<1>17. cut(c) \in Locals
  BY <1>1, <1>10, <1>13, <1>14, <1>16 DEF Locals
<1>18. Place(t, cut(c), f, p + b, q)
  BY <1>3, <1>8, <1>9, <1>10, <1>13, <1>15 DEF Place
<1>19. Len(y) < Len(c.segment)
  BY <1>3, <1>6, <1>7, <1>10
<1> QED
  BY <1>15, <1>17, <1>18, <1>19, ChunkAssumption DEF Splits

\* Gathering moves the segment to current; what was there before becomes a chunk, if
\* both are too large.
LEMMA gatherSplits ==
  ASSUME NEW t \in Text, NEW c, Splits(t, c), Fits(c.segment)
  PROVE  /\ Splits(t, gather(c))
         /\ gather(c).rest = c.rest /\ gather(c).segment = <<>>
<1> DEFINE n == Len(c.chunks)
           d == gather(c)
<1>1. c \in Locals /\ n \in Nat /\ <<>> \in Text /\ c.current \in Text /\ c.segment \in Text
  BY DEF Splits, Locals, Text
<1>2. PICK e, p, q : Place(t, c, e, p, q)
  BY DEF Splits
<1>3. /\ Len(t) \in Nat /\ q \in 0 .. Len(t) /\ p \in 0 .. q /\ e[n] \in 0 .. p
      /\ c.current = Between(t, e[n], p)
      /\ c.segment = Between(t, p, q) /\ c.rest = Between(t, q, Len(t))
      /\ Cuts(t, c.chunks, e) /\ e[0] = 0
  BY <1>2 DEF Place, Text
<1>4. Between(t, q, q) = <<>>
  BY <1>3, SubSeqEmpty, q + 1 \in Int, q \in Int, q < q + 1 DEF Between
<1>5. CASE c.current # <<>> /\ ~Fits(c.current \o c.segment)
  <2> DEFINE cs == Append(c.chunks, c.current)
  <2>1. cs = c.chunks \o NotEmpty(c.current)
    BY <1>1, <1>5, AppendIsConcat DEF NotEmpty, Locals
  <2>2. Covers(t, cs, p)
    BY <1>2, <2>1, FlushCuts
  <2>3. PICK f : cs \in Seq(Text) /\ Cuts(t, cs, f) /\ f[0] = 0 /\ f[Len(cs)] = p
    BY <2>2 DEF Covers
  <2> HIDE DEF cs
  <2>4. d = [c EXCEPT !.chunks = cs, !.current = c.segment, !.segment = <<>>]
    BY <1>5 DEF gather, cs
  <2>5. /\ d \in Locals /\ d.chunks = cs /\ d.current = c.segment
        /\ d.segment = <<>> /\ d.rest = c.rest
    BY <1>1, <2>3, <2>4 DEF Locals
  <2> HIDE DEF d
  <2>6. Place(t, d, f, q, q)
    BY <1>3, <1>4, <2>3, <2>5 DEF Place
  <2>7. Splits(t, d)
    BY <2>5, <2>6 DEF Splits
  <2> QED
    BY <2>5, <2>7 DEF d
<1>6. CASE ~(c.current # <<>> /\ ~Fits(c.current \o c.segment))
  <2> DEFINE x == c.current \o c.segment
  <2>1. x \in Text /\ Fits(x)
    BY <1>1, <1>6, ConcatProperties, ConcatEmptySeq DEF Text
  <2>2. x = Between(t, e[n], q)
    <3> DEFINE k == e[n]
    <3>1. k \in 0 .. p /\ p \in 0 .. q /\ q \in 0 .. Len(t)
      BY <1>3
    <3>2. x = Between(t, k, p) \o Between(t, p, q)
      BY <1>3
    <3> HIDE DEF k, x
    <3>3. Between(t, k, p) \o Between(t, p, q) = Between(t, k, q)
      BY <3>1, BetweenConcat, Zenon
    <3> QED
      BY <3>2, <3>3 DEF k
  <2> HIDE DEF x
  <2>3. d = [c EXCEPT !.current = x, !.segment = <<>>]
    BY <1>6 DEF gather, x
  <2>4. /\ d \in Locals /\ d.chunks = c.chunks /\ d.current = x
        /\ d.segment = <<>> /\ d.rest = c.rest
    BY <1>1, <2>1, <2>3 DEF Locals
  <2>5. e[n] \in 0 .. q /\ q \in 0 .. q
    BY <1>3
  <2> HIDE DEF d
  <2>6. Place(t, d, e, q, q)
    BY <1>3, <1>4, <2>2, <2>4, <2>5 DEF Place
  <2>7. Splits(t, d)
    BY <2>1, <2>4, <2>6 DEF Splits
  <2> QED
    BY <2>4, <2>7 DEF d
<1> QED
  BY <1>5, <1>6

\* When all lines have been taken, the chunks are the text.
LEMMA chunksCover ==
  ASSUME NEW t \in Text, NEW c, Splits(t, c), c.segment = <<>>, c.rest = <<>>
  PROVE  Covers(t, chunksOf(c), Len(t))
<1>1. PICK e, p, q : Place(t, c, e, p, q)
  BY DEF Splits
<1>2. /\ Len(t) \in Nat /\ q \in 0 .. Len(t) /\ p \in 0 .. q
      /\ Between(t, p, q) = <<>> /\ Between(t, q, Len(t)) = <<>>
  BY <1>1 DEF Place, Text
<1>3. p = q
  <2>1. Between(t, p, q) = <<>> <=> p = q
    BY <1>2, BetweenProperties, Zenon
  <2> QED
    BY <1>2, <2>1
<1>4. q = Len(t)
  <2>1. Between(t, q, Len(t)) = <<>> <=> q = Len(t)
    BY <1>2, EndProperties, Zenon
  <2> QED
    BY <1>2, <2>1
<1>5. Covers(t, c.chunks \o NotEmpty(c.current), p)
  BY <1>1, FlushCuts
<1> QED
  BY <1>3, <1>4, <1>5 DEF chunksOf

\* No chunks cover nothing.
LEMMA CoversNothing ==
  ASSUME NEW t \in Text, t # <<>>
  PROVE  ~Covers(t, <<>>, Len(t))
<1>1. Len(t) # 0 /\ Len(<<>>) = 0
  BY EmptySeq DEF Text
<1> QED
  BY <1>1 DEF Covers

\* A text that fits is one chunk.
LEMMA CoversAll ==
  ASSUME NEW t \in Text, t # <<>>, Fits(t)
  PROVE  Covers(t, <<t>>, Len(t))
<1> DEFINE e == [i \in 0 .. 0 |-> 0]
<1>1. /\ <<>> \in Seq(Text) /\ Len(<<>>) = 0
      /\ Len(t) \in Nat /\ Len(t) # 0 /\ Len(t) \in 0 .. Len(t)
  BY EmptySeq DEF Text
<1>2. Cuts(t, <<>>, e) /\ e[0] = 0
  BY <1>1 DEF Cuts
<1>3. Covers(t, <<>>, 0)
  BY <1>1, <1>2 DEF Covers
<1>4. Covers(t, Append(<<>>, t), Len(t))
  <2>1. t = Between(t, 0, Len(t)) /\ 0 < Len(t) /\ Len(t) \in 0 .. Len(t)
    BY <1>1, BetweenAll
  <2> QED
    BY <1>3, <2>1, CoversAppend, Zenon
<1> QED
  BY <1>4
-----------------------------------------------------------------------------
(* The invariant.                                                          *)

\* What is left to post continues what the room has seen, to the end of the answer.
Continues(r) ==
  \E e : /\ Cuts(Answer(r), chunks[r], e) /\ e[Len(chunks[r])] = Len(Answer(r))
         /\ shown[r] = Between(Answer(r), 0, e[0])

ResultInv(r) ==
  /\ at[r] \in Splitting \cup {"new"} => shown[r] = <<>>
  /\ at[r] \in Splitting => body[r] # <<>> /\ Splits(body[r], call[r])
  /\ at[r] = "lines" => call[r].segment = <<>>
  /\ at[r] = "search" => Bisects(call[r])
  /\ at[r] = "posting" => Continues(r)
  /\ at[r] = "complete" => shown[r] = Answer(r)

PInv == PTypeOK /\ EventsFit /\ \A r \in Results : ResultInv(r)

\* The invariant holds at the beginning,
LEMMA PInvInit == PInit => PInv
<1> SUFFICES ASSUME PInit PROVE PInv
  OBVIOUS
<1>1. <<>> \in Text /\ <<>> \in Seq(Text) /\ <<>> \in Seq(Text \ {<<>>}) /\ <<>> \in Seq(Event)
  BY DEF Text
<1>2. body \in [Results -> Text]
  BY PostingAssumption DEF PInit
<1>3. Called(<<>>) \in Locals
  BY <1>1 DEF Called, Locals
<1>4. PTypeOK
  BY <1>1, <1>2, <1>3 DEF PInit, PTypeOK
<1>5. EventsFit
  BY DEF PInit, EventsFit
<1>6. \A r \in Results : at[r] = "new" /\ shown[r] = <<>>
  BY DEF PInit
<1>7. \A r \in Results : ResultInv(r)
  BY <1>6 DEF ResultInv, Splitting
<1> QED
  BY <1>4, <1>5, <1>7 DEF PInv

\* A goroutine leaves the others alone.
LEMMA OthersUnchanged ==
  ASSUME PTypeOK, NEW r \in Results, onResult(r), NEW s \in Results, s # r
  PROVE  UNCHANGED <<body, at[s], call[s], chunks[s], shown[s]>>
  BY DEF PTypeOK, onResult, Chunking, Short, Long, NextLine, Search, Probe, Cut, Gather, Finish,
     Send, GiveUp, Replied, Post, Take, Goto, Become

\* Nor does it change what holds of them.
LEMMA OthersKeepInv ==
  ASSUME PInv, NEW r \in Results, onResult(r), NEW s \in Results, s # r
  PROVE  ResultInv(s)'
<1>1. UNCHANGED <<body, at[s], call[s], chunks[s], shown[s]>>
  BY OthersUnchanged DEF PInv
<1>2. ResultInv(s)
  BY DEF PInv
<1>3. Answer(s)' = Answer(s)
  BY <1>1 DEF Answer
<1>4. Continues(s) => Continues(s)'
  BY <1>1, <1>3 DEF Continues
<1> QED
  BY <1>1, <1>2, <1>3, <1>4 DEF ResultInv

\* The answer is a text, and not empty.
LEMMA AnswerText ==
  ASSUME PTypeOK, NEW r \in Results
  PROVE  Answer(r) \in Text /\ Answer(r) # <<>>
  BY PostingAssumption DEF PTypeOK, Answer

\* A step that only moves Chunk on.
LEMMA CallStep ==
  ASSUME PInv, NEW r \in Results, onResult(r), NEW c \in Locals, Become(r, c),
         NEW l \in Splitting, at' = [at EXCEPT ![r] = l],
         UNCHANGED <<body, chunks, room, shown>>,
         at[r] \in Splitting \cup {"new"}, body[r] # <<>>, Splits(body[r], c),
         l = "lines" => c.segment = <<>>,
         l = "search" => Bisects(c)
  PROVE  PInv'
<1>1. PTypeOK'
  BY DEF PInv, PTypeOK, Become
<1>2. EventsFit'
  BY DEF PInv, EventsFit
<1>3. at'[r] = l /\ call'[r] = c /\ shown'[r] = shown[r] /\ body'[r] = body[r]
  BY DEF PInv, PTypeOK, Become
<1>4. shown[r] = <<>>
  BY DEF PInv, ResultInv
<1>5. ResultInv(r)'
  BY <1>3, <1>4 DEF ResultInv, Splitting
<1> QED
  BY <1>1, <1>2, <1>5, OthersKeepInv DEF PInv

\* ... and every step keeps it: those of Chunk, one lemma for each,
LEMMA LongStep ==
  ASSUME PInv, NEW r \in Results, Long(r)
  PROVE  PInv'
<1>1. body[r] \in Text /\ body[r] # <<>>
  BY ChunkAssumption DEF Long, PInv, PTypeOK
<1>2. Splits(body[r], Called(body[r]))
  BY <1>1, CalledSplits
<1>3. Called(body[r]) \in Locals /\ Called(body[r]).segment = <<>>
  BY <1>2 DEF Splits, Called
<1> QED
  BY <1>1, <1>2, <1>3, CallStep DEF Long, onResult, Chunking, Splitting, Goto

LEMMA NextLineStep ==
  ASSUME PInv, NEW r \in Results, NextLine(r)
  PROVE  PInv' /\ Len(call'[r].rest) < Len(call[r].rest)
<1> DEFINE c == call[r]
<1>1. PICK n \in 1 .. Len(c.rest) : Become(r, takeLine(c, n))
  BY DEF NextLine
<1>2. /\ at[r] = "lines" /\ at[r] \in Splitting
      /\ body[r] \in Text /\ body[r] # <<>>
      /\ Splits(body[r], c) /\ c.segment = <<>>
  BY DEF NextLine, PInv, PTypeOK, ResultInv, Splitting
<1> HIDE DEF c
<1>3. Splits(body[r], takeLine(c, n)) /\ Len(takeLine(c, n).rest) < Len(c.rest)
  BY <1>2, takeLineSplits
<1>4. takeLine(c, n) \in Locals
  BY <1>3 DEF Splits
<1>5. PInv'
  BY <1>1, <1>2, <1>3, <1>4, CallStep DEF NextLine, onResult, Chunking, Splitting, Goto
<1>6. call'[r] = takeLine(c, n)
  BY <1>1 DEF Become, PInv, PTypeOK
<1> QED
  BY <1>3, <1>5, <1>6 DEF c

LEMMA SearchStep ==
  ASSUME PInv, NEW r \in Results, Search(r)
  PROVE  /\ PInv'
         /\ call'[r].rest = call[r].rest /\ call'[r].segment = call[r].segment
<1> DEFINE c == call[r]
<1>1. /\ at[r] = "segment" /\ at[r] \in Splitting /\ ~Fits(c.segment) /\ Become(r, search(c))
      /\ body[r] \in Text /\ body[r] # <<>> /\ Splits(body[r], c)
  BY DEF Search, PInv, PTypeOK, ResultInv, Splitting
<1> HIDE DEF c
<1>2. /\ Splits(body[r], search(c)) /\ Bisects(search(c))
      /\ search(c).segment = c.segment /\ search(c).rest = c.rest
  BY <1>1, searchSplits
<1>3. search(c) \in Locals
  BY <1>2 DEF Splits
<1>4. PInv'
  BY <1>1, <1>2, <1>3, CallStep DEF Search, onResult, Chunking, Splitting, Goto
<1>5. call'[r] = search(c)
  BY <1>1 DEF Become, PInv, PTypeOK
<1> QED
  BY <1>2, <1>4, <1>5 DEF c

LEMMA ProbeStep ==
  ASSUME PInv, NEW r \in Results, Probe(r)
  PROVE  /\ PInv' /\ at'[r] = "search"
         /\ call'[r].rest = call[r].rest /\ call'[r].segment = call[r].segment
         /\ call'[r].low <= call'[r].high + 1
         /\ call'[r].high + call[r].low < call[r].high + call'[r].low
<1> DEFINE c == call[r]
<1>1. /\ at[r] = "search" /\ at[r] \in Splitting /\ c.low <= c.high /\ Become(r, probe(c))
      /\ body[r] \in Text /\ body[r] # <<>> /\ Splits(body[r], c) /\ Bisects(c)
  BY DEF Probe, PInv, PTypeOK, ResultInv, Splitting
<1>2. at' = [at EXCEPT ![r] = "search"]
  BY <1>1 DEF Probe, PInv, PTypeOK
<1> HIDE DEF c
<1>3. /\ Splits(body[r], probe(c)) /\ Bisects(probe(c))
      /\ probe(c).segment = c.segment /\ probe(c).rest = c.rest
      /\ probe(c).high + c.low < c.high + probe(c).low
  BY <1>1, probeSplits
<1>4. probe(c) \in Locals /\ probe(c).low <= probe(c).high + 1
  BY <1>3 DEF Splits, Bisects
<1>5. PInv'
  BY <1>1, <1>2, <1>3, <1>4, CallStep DEF Probe, onResult, Chunking, Splitting
<1>6. call'[r] = probe(c) /\ at'[r] = "search"
  BY <1>1, <1>2 DEF Become, PInv, PTypeOK
<1> QED
  BY <1>3, <1>4, <1>5, <1>6 DEF c

LEMMA CutStep ==
  ASSUME PInv, NEW r \in Results, Cut(r)
  PROVE  /\ PInv'
         /\ call'[r].rest = call[r].rest /\ Len(call'[r].segment) < Len(call[r].segment)
<1> DEFINE c == call[r]
<1>1. /\ at[r] = "search" /\ at[r] \in Splitting /\ Become(r, cut(c))
      /\ body[r] \in Text /\ body[r] # <<>> /\ Splits(body[r], c) /\ Bisects(c)
  BY DEF Cut, PInv, PTypeOK, ResultInv, Splitting
<1> HIDE DEF c
<1>2. Splits(body[r], cut(c)) /\ cut(c).rest = c.rest /\ Len(cut(c).segment) < Len(c.segment)
  BY <1>1, cutSplits
<1>3. cut(c) \in Locals
  BY <1>2 DEF Splits
<1>4. PInv'
  BY <1>1, <1>2, <1>3, CallStep DEF Cut, onResult, Chunking, Splitting, Goto
<1>5. call'[r] = cut(c)
  BY <1>1 DEF Become, PInv, PTypeOK
<1> QED
  BY <1>2, <1>4, <1>5 DEF c

LEMMA GatherStep ==
  ASSUME PInv, NEW r \in Results, Gather(r)
  PROVE  /\ PInv' /\ at'[r] = "lines"
         /\ call'[r].rest = call[r].rest /\ call'[r].segment = <<>>
<1> DEFINE c == call[r]
<1>1. /\ at[r] = "segment" /\ at[r] \in Splitting /\ Fits(c.segment) /\ Become(r, gather(c))
      /\ body[r] \in Text /\ body[r] # <<>> /\ Splits(body[r], c)
      /\ at' = [at EXCEPT ![r] = "lines"]
  BY DEF Gather, PInv, PTypeOK, ResultInv, Splitting, Goto
<1> HIDE DEF c
<1>2. Splits(body[r], gather(c)) /\ gather(c).rest = c.rest /\ gather(c).segment = <<>>
  BY <1>1, gatherSplits
<1>3. gather(c) \in Locals
  BY <1>2 DEF Splits
<1>4. PInv'
  BY <1>1, <1>2, <1>3, CallStep DEF Gather, onResult, Chunking, Splitting, Goto
<1>5. call'[r] = gather(c) /\ at'[r] = "lines"
  BY <1>1 DEF Become, PInv, PTypeOK
<1> QED
  BY <1>2, <1>4, <1>5 DEF c

\* Chunk returns.
LEMMA PostStep ==
  ASSUME PInv, NEW r \in Results, onResult(r), NEW cs, Post(r, cs), cs = <<>> \/ Covers(body[r], cs, Len(body[r])),
         cs = <<>> => body[r] = <<>>, cs # <<>> => body[r] # <<>>,
         call' = call \/ Become(r, Called(<<>>)), shown[r] = <<>>
  PROVE  PInv'
<1> DEFINE ds == IF cs = <<>> THEN <<Notice>> ELSE cs
<1>1. Covers(Answer(r), ds, Len(Answer(r)))
  <2>1. CASE cs = <<>>
    BY <2>1, CoversAll, PostingAssumption DEF Answer
  <2>2. CASE cs # <<>>
    BY <2>2 DEF Answer
  <2> QED
    BY <2>1, <2>2
<1>2. ds \in Seq(Text \ {<<>>})
  BY <1>1, AnswerText, CutsNotEmpty DEF Covers, PInv
<1> HIDE DEF ds
<1>3. /\ chunks' = [chunks EXCEPT ![r] = ds] /\ at' = [at EXCEPT ![r] = "posting"]
      /\ UNCHANGED <<body, room, shown>>
  BY DEF Post, Goto, ds
<1>4. Called(<<>>) \in Locals
  BY CalledSplits, <<>> \in Text DEF Splits, Text
<1>5. PTypeOK'
  BY <1>2, <1>3, <1>4 DEF PInv, PTypeOK, Become
<1>6. EventsFit'
  BY <1>3 DEF PInv, EventsFit
<1>7. chunks'[r] = ds /\ at'[r] = "posting" /\ shown'[r] = <<>> /\ Answer(r)' = Answer(r)
  BY <1>3 DEF PInv, PTypeOK, Answer
<1>8. Continues(r)'
  <2>1. Between(Answer(r), 0, 0) = <<>>
    BY SubSeqEmpty, 0 + 1 \in Int, 0 \in Int, 0 < 0 + 1 DEF Between
  <2>2. PICK e : /\ Cuts(Answer(r), ds, e) /\ e[0] = 0 /\ e[Len(ds)] = Len(Answer(r))
    BY <1>1 DEF Covers
  <2> QED
    BY <1>7, <2>1, <2>2 DEF Continues
<1>9. ResultInv(r)'
  BY <1>7, <1>8 DEF ResultInv, Splitting
<1> QED
  BY <1>5, <1>6, <1>9, OthersKeepInv DEF PInv

LEMMA ShortStep ==
  ASSUME PInv, NEW r \in Results, Short(r)
  PROVE  PInv'
<1> DEFINE cs == NotEmpty(body[r])
<1>1. /\ body[r] \in Text /\ Fits(body[r]) /\ Post(r, cs) /\ call' = call /\ shown[r] = <<>>
      /\ onResult(r)
  BY DEF Short, onResult, Chunking, PInv, PTypeOK, ResultInv
<1>2. CASE body[r] = <<>>
  <2>1. cs = <<>>
    BY <1>2 DEF NotEmpty
  <2> HIDE DEF cs
  <2> QED
    BY <1>1, <1>2, <2>1, PostStep
<1>3. CASE body[r] # <<>>
  <2>1. cs = <<body[r]>> /\ cs # <<>>
    BY <1>3 DEF NotEmpty
  <2>2. Covers(body[r], cs, Len(body[r]))
    BY <1>1, <1>3, <2>1, CoversAll
  <2> HIDE DEF cs
  <2> QED
    BY <1>1, <1>3, <2>1, <2>2, PostStep
<1> QED
  BY <1>2, <1>3

LEMMA FinishStep ==
  ASSUME PInv, NEW r \in Results, Finish(r)
  PROVE  PInv' /\ at'[r] = "posting"
<1> DEFINE c  == call[r]
           cs == chunksOf(c)
<1>1. /\ body[r] \in Text /\ body[r] # <<>> /\ shown[r] = <<>> /\ at[r] = "lines"
      /\ Splits(body[r], c) /\ c.segment = <<>> /\ c.rest = <<>>
      /\ Post(r, cs) /\ Become(r, Called(<<>>)) /\ onResult(r)
  BY DEF Finish, onResult, Chunking, PInv, PTypeOK, ResultInv, Splitting
<1> HIDE DEF c
<1>2. Covers(body[r], cs, Len(body[r]))
  BY <1>1, chunksCover
<1>3. cs # <<>>
  BY <1>1, <1>2, CoversNothing
<1> HIDE DEF cs
<1>4. PInv'
  BY <1>1, <1>2, <1>3, PostStep
<1> QED
  BY <1>1, <1>4 DEF Post, Goto, PInv, PTypeOK
-----------------------------------------------------------------------------
(* Posting.                                                                *)

\* The next chunk continues what the room has seen, and the others continue it.
LEMMA HeadContinues ==
  ASSUME PInv, NEW r \in Results, at[r] = "posting", chunks[r] # <<>>
  PROVE  /\ Head(chunks[r]) \in Text \ {<<>>}
         /\ Fits(Head(chunks[r])) \/ Len(Head(chunks[r])) = 1
         /\ Tail(chunks[r]) \in Seq(Text \ {<<>>})
         /\ \E d : /\ Cuts(Answer(r), Tail(chunks[r]), d)
                   /\ d[Len(Tail(chunks[r]))] = Len(Answer(r))
                   /\ d[0] \in Len(shown[r]) + 1 .. Len(Answer(r))
                   /\ shown[r] \o Head(chunks[r]) = Between(Answer(r), 0, d[0])
<1> DEFINE t  == Answer(r)
           cs == chunks[r]
           n  == Len(cs)
<1>1. PICK e : Cuts(t, cs, e) /\ e[n] = Len(t) /\ shown[r] = Between(t, 0, e[0])
  BY DEF PInv, ResultInv, Continues
<1>2. /\ t \in Text /\ Len(t) \in Nat
      /\ cs \in Seq(Text \ {<<>>}) /\ cs \in Seq(Text) /\ cs # <<>>
  <2>1. t \in Text /\ Len(t) \in Nat
    BY AnswerText DEF PInv, Text
  <2>2. cs \in Seq(Text \ {<<>>})
    BY DEF PInv, PTypeOK
  <2>3. cs \in Seq(Text)
    BY <2>2
  <2> QED
    BY <2>1, <2>2, <2>3
<1>3. n \in Nat /\ n >= 1
  BY <1>2, EmptySeq
<1> DEFINE d == [i \in 0 .. n - 1 |-> e[i + 1]]
<1> HIDE DEF t, cs
<1>4. /\ Cuts(t, Tail(cs), d) /\ Len(Tail(cs)) = n - 1
      /\ d[0] = e[1] /\ d[n - 1] = e[n]
      /\ Head(cs) = Between(t, e[0], e[1]) /\ e[0] < e[1]
  BY <1>1, <1>2, CutsTail
<1>5. e[0] \in 0 .. e[1] /\ e[1] \in 0 .. Len(t)
  BY <1>1, <1>2, <1>3, <1>4 DEF Cuts
<1>6. shown[r] \o Head(cs) = Between(t, 0, e[1]) /\ Len(shown[r]) = e[0]
  <2> DEFINE k == e[0]
             m == e[1]
  <2>1. k \in 0 .. m /\ m \in 0 .. Len(t) /\ 0 \in 0 .. k /\ k \in 0 .. Len(t) /\ k - 0 = k
    BY <1>2, <1>5
  <2>2. shown[r] = Between(t, 0, k) /\ Head(cs) = Between(t, k, m)
    BY <1>1, <1>4
  <2> HIDE DEF k, m
  <2>3. Between(t, 0, k) \o Between(t, k, m) = Between(t, 0, m)
    <3>1. t \in Text /\ k \in 0 .. m /\ m \in 0 .. Len(t) /\ 0 \in 0 .. k
      BY <1>2, <2>1
    <3> QED
      BY <3>1, BetweenConcat
  <2>4. Len(Between(t, 0, k)) = k - 0
    <3>1. t \in Text /\ k \in 0 .. Len(t) /\ 0 \in 0 .. k
      BY <1>2, <2>1
    <3> QED
      BY <3>1, BetweenProperties
  <2> QED
    BY <2>1, <2>2, <2>3, <2>4 DEF k, m
<1>7. Head(cs) \in Text \ {<<>>} /\ Tail(cs) \in Seq(Text \ {<<>>}) /\ Head(cs) = cs[1]
  BY <1>2, HeadTailProperties
<1>8. Fits(Head(cs)) \/ Len(Head(cs)) = 1
  BY <1>1, <1>3, <1>7 DEF Cuts
<1>9. d[0] \in Len(shown[r]) + 1 .. Len(t)
  BY <1>2, <1>4, <1>5, <1>6
<1>10. \E f : /\ Cuts(t, Tail(cs), f) /\ f[Len(Tail(cs))] = Len(t)
              /\ f[0] \in Len(shown[r]) + 1 .. Len(t)
              /\ shown[r] \o Head(cs) = Between(t, 0, f[0])
  <2> HIDE DEF d
  <2> QED
    BY <1>1, <1>4, <1>6, <1>9
<1> QED
  BY <1>7, <1>8, <1>10 DEF t, cs

\* The room takes the next chunk.
LEMMA TakeStep ==
  ASSUME PInv, NEW r \in Results, at[r] = "posting", chunks[r] # <<>>, Take(r, Head(chunks[r]))
  PROVE  /\ room' \in Seq(Event) /\ shown' \in [Results -> Text]
         /\ EventsFit'
         /\ shown'[r] = shown[r] \o Head(chunks[r])
<1> DEFINE x == Head(chunks[r])
<1>1. x \in Text \ {<<>>} /\ (Fits(x) \/ Len(x) = 1)
  BY HeadContinues
<1> HIDE DEF x
<1>2. /\ room' = Append(room, [of |-> r, text |-> x]) /\ shown' = [shown EXCEPT ![r] = @ \o x]
      /\ room \in Seq(Event) /\ shown \in [Results -> Text]
  BY DEF Take, x, PInv, PTypeOK
<1>3. [of |-> r, text |-> x] \in Event
  BY <1>1 DEF Event
<1>4. /\ room' \in Seq(Event) /\ Len(room') = Len(room) + 1
      /\ \A i \in 1 .. Len(room) : room'[i] = room[i]
      /\ room'[Len(room) + 1] = [of |-> r, text |-> x]
  BY <1>2, <1>3, AppendProperties
<1>5. shown[r] \o x \in Text
  BY <1>1, <1>2, ConcatProperties DEF Text
<1>6. ASSUME NEW i \in DOMAIN room'
      PROVE  room'[i].text # <<>> /\ (Fits(room'[i].text) \/ Len(room'[i].text) = 1)
  <2>1. i \in 1 .. Len(room) + 1 /\ Len(room) \in Nat
    BY <1>2, <1>4
  <2>2. CASE i = Len(room) + 1
    BY <1>1, <1>4, <2>2
  <2>3. CASE i # Len(room) + 1
    <3>1. i \in DOMAIN room /\ room'[i] = room[i]
      BY <1>2, <1>4, <2>1, <2>3
    <3> QED
      BY <3>1 DEF PInv, EventsFit
  <2> QED
    BY <2>2, <2>3
<1>7. EventsFit'
  BY <1>6 DEF EventsFit
<1> QED
  BY <1>2, <1>4, <1>5, <1>7 DEF x

\* ... and those of the loop over the chunks.
LEMMA SendStep ==
  ASSUME PInv, NEW r \in Results, Send(r)
  PROVE  PInv'
<1>1. /\ at[r] = "posting" /\ chunks[r] # <<>> /\ Take(r, Head(chunks[r]))
      /\ chunks' = [chunks EXCEPT ![r] = Tail(chunks[r])] /\ UNCHANGED <<body, call, at>>
      /\ onResult(r)
  BY DEF Send, onResult
<1>2. /\ room' \in Seq(Event) /\ shown' \in [Results -> Text] /\ EventsFit'
      /\ shown'[r] = shown[r] \o Head(chunks[r])
  BY <1>1, TakeStep
<1>3. /\ Tail(chunks[r]) \in Seq(Text \ {<<>>})
      /\ \E d : /\ Cuts(Answer(r), Tail(chunks[r]), d)
                /\ d[Len(Tail(chunks[r]))] = Len(Answer(r))
                /\ d[0] \in Len(shown[r]) + 1 .. Len(Answer(r))
                /\ shown[r] \o Head(chunks[r]) = Between(Answer(r), 0, d[0])
  BY <1>1, HeadContinues
<1>4. PTypeOK'
  BY <1>1, <1>2, <1>3 DEF PInv, PTypeOK
<1>5. chunks'[r] = Tail(chunks[r]) /\ at'[r] = "posting" /\ Answer(r)' = Answer(r)
  BY <1>1 DEF PInv, PTypeOK, Answer
<1>6. Continues(r)'
  BY <1>2, <1>3, <1>5 DEF Continues
<1>7. ResultInv(r)'
  BY <1>5, <1>6 DEF ResultInv, Splitting
<1> QED
  BY <1>1, <1>2, <1>4, <1>7, OthersKeepInv DEF PInv

LEMMA GiveUpStep ==
  ASSUME PInv, NEW r \in Results, GiveUp(r)
  PROVE  PInv'
<1>1. /\ at[r] = "posting" /\ chunks[r] # <<>>
      /\ Take(r, Head(chunks[r])) \/ UNCHANGED <<room, shown>>
      /\ at' = [at EXCEPT ![r] = "gave up"] /\ UNCHANGED <<body, call, chunks>>
      /\ onResult(r)
  BY DEF GiveUp, Goto, onResult
<1>2. room' \in Seq(Event) /\ shown' \in [Results -> Text] /\ EventsFit'
  <2>1. CASE Take(r, Head(chunks[r]))
    BY <1>1, <2>1, TakeStep
  <2>2. CASE UNCHANGED <<room, shown>>
    BY <2>2 DEF PInv, PTypeOK, EventsFit
  <2> QED
    BY <1>1, <2>1, <2>2
<1>3. PTypeOK' /\ at'[r] = "gave up"
  BY <1>1, <1>2 DEF PInv, PTypeOK
<1>4. ResultInv(r)'
  BY <1>3 DEF ResultInv, Splitting
<1> QED
  BY <1>1, <1>2, <1>3, <1>4, OthersKeepInv DEF PInv

\* What is left is nothing, so the room has seen everything.
LEMMA AllShown ==
  ASSUME PInv, NEW r \in Results, at[r] = "posting", chunks[r] = <<>>
  PROVE  shown[r] = Answer(r)
<1>1. PICK e : e[Len(chunks[r])] = Len(Answer(r)) /\ shown[r] = Between(Answer(r), 0, e[0])
  BY DEF PInv, ResultInv, Continues
<1>2. Len(chunks[r]) = 0
  BY EmptySeq
<1> QED
  BY <1>1, <1>2, AnswerText, BetweenAll DEF PInv

LEMMA RepliedStep ==
  ASSUME PInv, NEW r \in Results, Replied(r)
  PROVE  PInv'
<1>1. /\ at[r] = "posting" /\ chunks[r] = <<>>
      /\ at' = [at EXCEPT ![r] = "complete"] /\ UNCHANGED <<body, call, chunks, room, shown>>
      /\ onResult(r)
  BY DEF Replied, Goto, onResult
<1>2. PTypeOK' /\ EventsFit' /\ at'[r] = "complete"
  BY <1>1 DEF PInv, PTypeOK, EventsFit
<1>3. shown'[r] = Answer(r)'
  BY <1>1, AllShown DEF Answer
<1>4. ResultInv(r)'
  BY <1>2, <1>3 DEF ResultInv, Splitting
<1> QED
  BY <1>1, <1>2, <1>4, OthersKeepInv DEF PInv

\* The invariant is inductive.
LEMMA PInvStep == PInv /\ [PNext]_pvars => PInv'
<1> SUFFICES ASSUME PInv, [PNext]_pvars PROVE PInv'
  OBVIOUS
<1>1. CASE UNCHANGED pvars
  <2>1. UNCHANGED <<body, call, chunks, at, room, shown>>
    BY <1>1 DEF pvars
  <2>2. PTypeOK' /\ EventsFit'
    BY <2>1 DEF PInv, PTypeOK, EventsFit
  <2>3. ASSUME NEW r \in Results PROVE ResultInv(r)'
    <3>1. ResultInv(r) /\ Answer(r)' = Answer(r)
      BY <2>1 DEF PInv, Answer
    <3>2. Continues(r) => Continues(r)'
      BY <2>1, <3>1 DEF Continues
    <3> QED
      BY <2>1, <3>1, <3>2 DEF ResultInv
  <2> QED
    BY <2>2, <2>3 DEF PInv
<1>2. ASSUME NEW r \in Results, onResult(r) PROVE PInv'
  BY <1>2, ShortStep, LongStep, NextLineStep, SearchStep, ProbeStep, CutStep, GatherStep, FinishStep,
     SendStep, GiveUpStep, RepliedStep DEF onResult, Chunking
<1> QED
  BY <1>1, <1>2 DEF PNext

\* So it always holds.
LEMMA PInvariance == PSpec => []PInv
  BY PInvInit, PInvStep, PTL DEF PSpec
-----------------------------------------------------------------------------
(* What is shown.                                                          *)

\* The room takes the next chunk: it has seen more of the answer.
LEMMA TakeShows ==
  ASSUME PInv, NEW r \in Results, at[r] = "posting", chunks[r] # <<>>, Take(r, Head(chunks[r]))
  PROVE  \E n \in Len(shown[r]) + 1 .. Len(Answer(r)) :
           shown' = [shown EXCEPT ![r] = SubSeq(Answer(r), 1, n)]
<1> DEFINE x == Head(chunks[r])
<1>1. PICK n \in Len(shown[r]) + 1 .. Len(Answer(r)) : shown[r] \o x = Between(Answer(r), 0, n)
  BY HeadContinues
<1>2. Between(Answer(r), 0, n) = SubSeq(Answer(r), 1, n)
  BY 0 + 1 = 1 DEF Between
<1>3. shown' = [shown EXCEPT ![r] = shown[r] \o x]
  BY DEF Take
<1> HIDE DEF x
<1> QED
  BY <1>1, <1>2, <1>3

\* How far an answer has come, for who only sees the room.
Over == [r \in Results |-> IF at[r] \in {"complete", "gave up"} THEN at[r] ELSE "no"]
Texts == [r \in Results |-> Answer(r)]

\* At the beginning nothing has been shown, and no answer is over.
LEMMA StreamInit == PInit => Stream!Init
  BY DEF PInit, Stream!Init

\* A step shows more of an answer, ends it, or cannot be seen.
LEMMA StreamStep == PInv /\ [PNext]_pvars => [Stream!Next]_<<Texts, shown, Over>>
<1> SUFFICES ASSUME PInv, [PNext]_pvars PROVE [Stream!Next]_<<Texts, shown, Over>>
  OBVIOUS
<1>1. CASE UNCHANGED pvars
  BY <1>1 DEF pvars, Texts, Over, Answer
<1>2. ASSUME NEW r \in Results, onResult(r) PROVE [Stream!Next]_<<Texts, shown, Over>>
  <2>1. UNCHANGED Texts
    BY <1>2 DEF Texts, Answer, onResult, Chunking, Short, Long, NextLine, Search, Probe, Cut, Gather,
       Finish, Send, GiveUp, Replied, Post
  <2>2. CASE Chunking(r)
    <3>1. UNCHANGED shown
      BY <2>2 DEF Chunking, Short, Long, NextLine, Search, Probe, Cut, Gather, Finish, Post
    <3>2. PICK l \in Splitting \cup {"posting"} : at' = [at EXCEPT ![r] = l]
      BY <2>2 DEF Chunking, Short, Long, NextLine, Search, Probe, Cut, Gather, Finish, Post, Goto,
         Splitting, PInv, PTypeOK
    <3>3. at[r] \notin {"complete", "gave up"}
      BY <2>2 DEF Chunking, Short, Long, NextLine, Search, Probe, Cut, Gather, Finish
    <3>4. UNCHANGED Over
      BY <3>2, <3>3 DEF Over, Splitting, PInv, PTypeOK
    <3> QED
      BY <2>1, <3>1, <3>4
  <2>3. CASE Send(r)
    <3>1. Stream!Show(r)
      <4>1. at[r] = "posting" /\ chunks[r] # <<>> /\ Take(r, Head(chunks[r])) /\ UNCHANGED at
        BY <2>3 DEF Send
      <4>2. UNCHANGED Over /\ Over[r] = "no"
        BY <4>1 DEF Over
      <4> QED
        BY <4>1, <4>2, TakeShows DEF Stream!Show, Over
    <3> QED
      BY <2>1, <3>1 DEF Stream!Next, Texts
  <2>4. CASE GiveUp(r)
    <3>1. /\ at[r] = "posting" /\ chunks[r] # <<>> /\ at' = [at EXCEPT ![r] = "gave up"]
          /\ Take(r, Head(chunks[r])) \/ UNCHANGED shown
      BY <2>4 DEF GiveUp, Goto
    <3>2. Over[r] = "no" /\ Over' = [Over EXCEPT ![r] = "gave up"]
      BY <3>1 DEF Over, PInv, PTypeOK
    <3>3. CASE Take(r, Head(chunks[r]))
      <4>1. \E n \in Len(shown[r]) + 1 .. Len(Answer(r)) :
              shown' = [shown EXCEPT ![r] = SubSeq(Answer(r), 1, n)]
        BY <3>1, <3>3, TakeShows
      <4>2. Stream!Show(r)
        BY <3>2, <4>1 DEF Stream!Show, Over
      <4> QED
        BY <2>1, <4>2 DEF Stream!Next, Texts
    <3>4. CASE UNCHANGED shown
      BY <2>1, <3>2, <3>4 DEF Stream!End, Stream!Next, Over, Texts
    <3> QED
      BY <3>1, <3>3, <3>4
  <2>5. CASE Replied(r)
    <3>1. /\ at[r] = "posting" /\ chunks[r] = <<>> /\ at' = [at EXCEPT ![r] = "complete"]
          /\ UNCHANGED shown
      BY <2>5 DEF Replied, Goto
    <3>2. Over[r] = "no" /\ Over' = [Over EXCEPT ![r] = "complete"]
      BY <3>1 DEF Over, PInv, PTypeOK
    <3>3. shown[r] = Answer(r)
      BY <3>1, AllShown
    <3> QED
      BY <2>1, <3>1, <3>2, <3>3 DEF Stream!End, Stream!Next, Over, Texts
  <2> QED
    BY <1>2, <2>2, <2>3, <2>4, <2>5 DEF onResult
<1> QED
  BY <1>1, <1>2 DEF PNext
-----------------------------------------------------------------------------
(* The loops.                                                              *)

\* Every step of Chunk leaves less to do.
LEMMA ChunkingStep ==
  ASSUME PInv, NEW r \in Results, onResult(r), at[r] \in Splitting
  PROVE  Smaller(r)
<1>1. CASE NextLine(r)
  BY <1>1, NextLineStep DEF Smaller
<1>2. CASE Search(r)
  <2>1. at[r] = "segment" /\ at'[r] = "search"
    BY <1>2 DEF Search, Goto, PInv, PTypeOK
  <2> QED
    BY <1>2, <2>1, SearchStep DEF Smaller
<1>3. CASE Probe(r)
  <2>1. at[r] = "search"
    BY <1>3 DEF Probe
  <2> QED
    BY <1>3, <2>1, ProbeStep DEF Smaller
<1>4. CASE Cut(r)
  BY <1>4, CutStep DEF Smaller
<1>5. CASE Gather(r)
  <2>1. /\ at[r] = "segment" /\ at'[r] = "lines"
        /\ call'[r].rest = call[r].rest /\ call'[r].segment = <<>>
    BY <1>5, GatherStep DEF Gather
  <2>2. call[r].segment \in Seq(Char)
    BY DEF PInv, PTypeOK, Locals, Text
  <2>3. CASE call[r].segment = <<>>
    BY <2>1, <2>3 DEF Smaller
  <2>4. CASE call[r].segment # <<>>
    <3>1. Len(call'[r].segment) < Len(call[r].segment)
      BY <2>1, <2>2, <2>4, EmptySeq
    <3> QED
      BY <2>1, <3>1 DEF Smaller
  <2> QED
    BY <2>3, <2>4
<1>6. CASE Finish(r)
  BY <1>6, FinishStep DEF Smaller
<1> QED
  BY <1>1, <1>2, <1>3, <1>4, <1>5, <1>6
     DEF onResult, Chunking, Short, Long, Send, GiveUp, Replied, Splitting

\* Steps of the other goroutines leave Chunk alone.
LEMMA SmallerStep ==
  PInv /\ [PNext]_pvars =>
    [\A r \in Results : at[r] \in Splitting /\ ~UNCHANGED <<at[r], call[r]>> => Smaller(r)]_pvars
<1> SUFFICES ASSUME PInv, PNext, NEW s \in Results, at[s] \in Splitting, ~UNCHANGED <<at[s], call[s]>>
             PROVE  Smaller(s)
  OBVIOUS
<1>1. PICK r \in Results : onResult(r)
  BY DEF PNext
<1>2. r = s
  BY <1>1, OthersUnchanged DEF PInv
<1> QED
  BY <1>1, <1>2, ChunkingStep
-----------------------------------------------------------------------------
\* The variables have their types: no chunk of an answer is empty, and longestFitting's
\* bounds never fall below zero.
THEOREM PostingTypeCorrect == PSpec => []PTypeOK
<1>1. PInv => PTypeOK
  BY DEF PInv
<1> QED BY <1>1, PInvariance, PTL

\* No event is empty, or too large unless it is a single character, whatever the sizes
\* of the parts of a text are: contentSize need not grow with it.
THEOREM PostedEventsFit == PSpec => []EventsFit
<1>1. PInv => EventsFit
  BY DEF PInv
<1> QED BY <1>1, PInvariance, PTL

\* The room sees each answer from the beginning and without gaps, and all of it when
\* onResult has come to its end.
THEOREM PostingImplementsStream == PSpec => StreamSpec
<1>1. PInv /\ [PNext]_pvars => [Stream!Next]_<<Texts, shown, Over>>
  BY StreamStep
<1> QED BY <1>1, StreamInit, PInvariance, PTL DEF PSpec, StreamSpec, Stream!Spec, Texts, Over

\* The loops of Chunk and longestFitting end: every step takes a line, shortens one,
\* or narrows a search.
THEOREM ChunkingLoopsEnd == PSpec => LoopsEnd
  BY PInvariance, SmallerStep, PTL DEF PSpec, LoopsEnd
=============================================================================
