--------------------------- MODULE DirectoryProof ---------------------------
(***************************************************************************)
(* Directory's safety, proved for any names and machines, and any number   *)
(* of commands, reservations and connections.                              *)
(***************************************************************************)
EXTENDS Directory, SequenceTheorems, TLAPS

\* What machine m may have as its claim on name n: nothing, or a claim that was
\* minted for it, and is not that of another name.
Good == [m \in Machines |-> [n \in Names |->
          {0} \cup {e \in 1 .. minted : holder[e] = m /\ \A x \in Names : record[x] = e => x = n}]]
GoodHello == [m \in Machines |-> {h \in Hello : \A n \in Names : h[n] \in Good[m][n]}]

\* Wherever a claim is, it has come there from the machine it was minted for.
DiskInv   == \A m \in Machines, n \in Names : file[m][n] \in Good[m][n] \cup {Torn}
DaemonInv == \A m \in Machines : copy[m] \in GoodHello[m] /\ out[m] \in Seq(GoodHello[m])
WireInv   == \A c \in DOMAIN machine : /\ wire[c] \in Seq(GoodHello[machine[c]])
                                       /\ looked[c] \in Seq(GoodHello[machine[c]])
LinkInv   == \A m \in Machines : link[m] # 0 => machine[link[m]] = m
CommandInv ==
  \A k \in Commands : cmd[k] # Idle => /\ cmd[k].claim \in Good[cmd[k].at][cmd[k].name]
                                       /\ cmd[k].list \in GoodHello[cmd[k].at]

\* Claims are minted before they are recorded.
MintInv == \A n \in Names : record[n] <= minted

\* A claim that was found good is still good, unless the name was released since.
LookedInv ==
  \A c \in DOMAIN machine, n \in Names \ late :
    looked[c] # <<>> => Head(looked[c])[n] \in {0, record[n]}

\* A claim that has not been saved yet is nowhere else, so it cannot be released.
GrantInv ==
  \A k \in Commands : Doing(k, {"granted", "creating"}) =>
    /\ cmd[k].claim # 0 /\ record[cmd[k].name] = cmd[k].claim
    /\ \A m \in Machines, n \in Names : file[m][n] # cmd[k].claim
    /\ \A l \in Commands \ {k} : cmd[l] # Idle => cmd[l].claim # cmd[k].claim

\* What a command has loaded is still on disk, and what it has emptied is empty,
\* unless another command is about the same name.
SaveInv ==
  \A k \in Commands : cmd[k] # Idle =>
    LET m == cmd[k].at
        n == cmd[k].name
    IN /\ Doing(k, {"loaded"}) => file[m][n] = cmd[k].claim \/ n \in mishap
       /\ Doing(k, {"creating", "changing"}) => file[m][n] = Torn \/ n \in mishap

IInv ==
  /\ TypeOK
  /\ DiskInv /\ DaemonInv /\ WireInv /\ LinkInv /\ CommandInv /\ MintInv
  /\ LookedInv /\ GrantInv /\ SaveInv
  /\ ClaimIsKept /\ NoStealing
-----------------------------------------------------------------------------
(* Facts about the operators.                                              *)

\* A sequence over a set is one over a larger set.
LEMMA SeqGrows ==
  ASSUME NEW S, NEW T, S \subseteq T
  PROVE  Seq(S) \subseteq Seq(T)
  OBVIOUS

\* What Append adds to a function on 1 .. n.
LEMMA AppendFacts ==
  ASSUME NEW S, NEW n \in Nat, NEW f \in [1 .. n -> S], NEW x \in S
  PROVE  /\ Append(f, x) \in [1 .. n + 1 -> S] /\ Append(f, x)[n + 1] = x
         /\ \A i \in 1 .. n : Append(f, x)[i] = f[i]
<1>1. f \in Seq(S) /\ Len(f) = n
  OBVIOUS
<1>2. /\ Append(f, x) \in Seq(S) /\ Len(Append(f, x)) = n + 1
      /\ \A i \in 1 .. n : Append(f, x)[i] = f[i]
      /\ Append(f, x)[n + 1] = x
  BY <1>1, AppendProperties
<1>3. Append(f, x) \in [1 .. n + 1 -> S]
  BY <1>2, LenProperties
<1> QED BY <1>2, <1>3

\* What Append adds to queues when it is an empty one.
LEMMA EmptyAppended ==
  ASSUME NEW S, NEW n \in Nat, NEW f \in [1 .. n -> Seq(S)]
  PROVE  Append(f, <<>>)[n + 1] = <<>> /\ \A i \in 1 .. n : Append(f, <<>>)[i] = f[i]
<1> DEFINE Q == Seq(S)
           e == <<>>
<1>1. f \in [1 .. n -> Q] /\ e \in Q
  OBVIOUS
<1> HIDE DEF Q, e
<1>2. Append(f, e)[n + 1] = e
  BY <1>1, AppendFacts
<1>3. \A i \in 1 .. n : Append(f, e)[i] = f[i]
  BY <1>1, AppendFacts
<1> QED BY <1>2, <1>3 DEF e

\* The same for short queues.
LEMMA AppendQueue ==
  ASSUME NEW S, NEW n \in Nat, NEW f \in [1 .. n -> Seq(S)], \A i \in 1 .. n : Len(f[i]) <= 1
  PROVE  /\ Append(f, <<>>) \in [1 .. n + 1 -> Seq(S)]
         /\ \A i \in 1 .. n + 1 : Len(Append(f, <<>>)[i]) <= 1
<1> DEFINE Q == Seq(S)
           e == <<>>
           g == Append(f, e)
<1>1. f \in [1 .. n -> Q] /\ e \in Q /\ Len(e) = 0
  OBVIOUS
<1> HIDE DEF Q, e
<1>2. g \in [1 .. n + 1 -> Q]
  BY <1>1, AppendFacts
<1>3. g[n + 1] = e
  BY <1>1, AppendFacts
<1>4. \A i \in 1 .. n : g[i] = f[i]
  BY <1>1, AppendFacts
<1> HIDE DEF g
<1>5. \A i \in 1 .. n + 1 : Len(g[i]) <= 1
  BY <1>1, <1>3, <1>4
<1> QED BY <1>2, <1>5 DEF g, Q, e

\* Queues of one and of none.
LEMMA ShortQueues ==
  ASSUME NEW S
  PROVE  <<>> \in Seq(S) /\ \A x \in S : <<x>> \in Seq(S)
  OBVIOUS

\* A queue without its head, and its head.
LEMMA TailFacts ==
  ASSUME NEW S, NEW q \in Seq(S), q # <<>>
  PROVE  /\ Head(q) \in S /\ Tail(q) \in Seq(S) /\ Len(Tail(q)) = Len(q) - 1
  OBVIOUS

\* A command is idle, or it has a step, a machine, a name, a claim and a listing.
LEMMA CommandFacts ==
  ASSUME TypeOK, NEW k \in Commands
  PROVE  /\ cmd[k] = Idle <=> Doing(k, {"idle"})
         /\ cmd[k] # Idle => /\ cmd[k] \in Busy /\ cmd[k].at \in Machines /\ cmd[k].name \in Names
                             /\ cmd[k].claim \in Entry /\ cmd[k].list \in Hello
  BY DEF TypeOK, Idle, Busy, Doing

\* A command that goes on to its next step stays about the same claim.
LEMMA GotoFacts ==
  ASSUME TypeOK, NEW k \in Commands, cmd[k] # Idle,
         NEW s \in {"creating", "changing", "changed", "asking", "listed", "stored", "made"}, Goto(k, s)
  PROVE  /\ cmd' \in [Commands -> Busy \cup {Idle}] /\ cmd'[k] # Idle /\ cmd'[k].step = s
         /\ cmd'[k].at = cmd[k].at /\ cmd'[k].name = cmd[k].name
         /\ cmd'[k].claim = cmd[k].claim /\ cmd'[k].list = cmd[k].list
         /\ \A l \in Commands \ {k} : cmd'[l] = cmd[l]
<1> DEFINE b == [cmd[k] EXCEPT !.step = s]
<1>1. cmd[k] \in Busy
  BY DEF TypeOK
<1>2. b \in Busy /\ b.step = s /\ b.at = cmd[k].at /\ b.name = cmd[k].name
      /\ b.claim = cmd[k].claim /\ b.list = cmd[k].list
  BY <1>1 DEF Busy
<1>3. b # Idle
  BY <1>2 DEF Idle
<1>4. cmd \in [Commands -> Busy \cup {Idle}] /\ cmd' = [cmd EXCEPT ![k] = b]
  BY DEF TypeOK, Goto
<1> DEFINE B == Busy \cup {Idle}
<1>5. cmd \in [Commands -> B] /\ b \in B
  BY <1>2, <1>4
<1> HIDE DEF b, B
<1>6. cmd' \in [Commands -> B] /\ cmd'[k] = b /\ \A l \in Commands \ {k} : cmd'[l] = cmd[l]
  BY <1>4, <1>5
<1> QED BY <1>2, <1>3, <1>6 DEF B

\* A reload that goes on with a list.
Takes(k, s, h) == cmd' = [cmd EXCEPT ![k].step = s, ![k].list = h]
LEMMA ListFacts ==
  ASSUME TypeOK, NEW k \in Commands, cmd[k] # Idle, NEW s \in {"listed", "made"}, NEW h \in Hello,
         Takes(k, s, h)
  PROVE  /\ cmd' \in [Commands -> Busy \cup {Idle}] /\ cmd'[k] # Idle /\ cmd'[k].step = s
         /\ cmd'[k].at = cmd[k].at /\ cmd'[k].name = cmd[k].name
         /\ cmd'[k].claim = cmd[k].claim /\ cmd'[k].list = h
         /\ \A l \in Commands \ {k} : cmd'[l] = cmd[l]
<1> DEFINE b == [cmd[k] EXCEPT !.step = s, !.list = h]
<1>1. cmd[k] \in Busy
  BY DEF TypeOK
<1>2. b \in Busy /\ b.step = s /\ b.at = cmd[k].at /\ b.name = cmd[k].name
      /\ b.claim = cmd[k].claim /\ b.list = h
  BY <1>1 DEF Busy
<1>3. b # Idle
  BY <1>2 DEF Idle
<1>4. cmd \in [Commands -> Busy \cup {Idle}] /\ cmd' = [cmd EXCEPT ![k] = b]
  BY DEF TypeOK, Takes
<1> DEFINE B == Busy \cup {Idle}
<1>5. cmd \in [Commands -> B] /\ b \in B
  BY <1>2, <1>4
<1> HIDE DEF b, B
<1>6. cmd' \in [Commands -> B] /\ cmd'[k] = b /\ \A l \in Commands \ {k} : cmd'[l] = cmd[l]
  BY <1>4, <1>5
<1> QED BY <1>2, <1>3, <1>6 DEF B

\* A file that is written, and the others.
Writes(m, n, e) == file' = [file EXCEPT ![m][n] = e]
LEMMA FileFacts ==
  ASSUME TypeOK, NEW m \in Machines, NEW n \in Names, NEW e, Writes(m, n, e)
  PROVE  file'[m][n] = e /\ \A i \in Machines, x \in Names : i # m \/ x # n => file'[i][x] = file[i][x]
<1> DEFINE D == [file[m] EXCEPT ![n] = e]
<1>1. file \in [Machines -> [Names -> Entry \cup {Torn}]] /\ file' = [file EXCEPT ![m] = D]
  BY DEF TypeOK, Writes
<1>2. D[n] = e /\ \A x \in Names : x # n => D[x] = file[m][x]
  BY <1>1
<1> HIDE DEF D
<1>3. file'[m] = D /\ \A i \in Machines : i # m => file'[i] = file[i]
  BY <1>1
<1>4. ASSUME NEW i \in Machines, NEW x \in Names, i # m PROVE file'[i][x] = file[i][x]
  BY <1>3, <1>4
<1>5. ASSUME NEW x \in Names, x # n PROVE file'[m][x] = file[m][x]
  BY <1>2, <1>3, <1>5
<1> QED BY <1>2, <1>3, <1>4, <1>5

\* A command that begins.
LEMMA BeginFacts ==
  ASSUME TypeOK, NEW k \in Commands, NEW s \in {"granted", "loaded"}, NEW m \in Machines, NEW n \in Names,
         NEW e \in Entry, Begin(k, s, m, n, e)
  PROVE  /\ cmd' \in [Commands -> Busy \cup {Idle}] /\ cmd'[k] # Idle /\ cmd'[k].step = s
         /\ cmd'[k].at = m /\ cmd'[k].name = n /\ cmd'[k].claim = e /\ cmd'[k].list = Empty
         /\ cmd[k] = Idle /\ \A l \in Commands \ {k} : cmd'[l] = cmd[l]
<1> DEFINE b == [step |-> s, at |-> m, name |-> n, claim |-> e, list |-> Empty]
<1>1. b \in Busy /\ b # Idle
  BY DEF Busy, Idle, Empty, Hello, Entry
<1>2. cmd \in [Commands -> Busy \cup {Idle}] /\ cmd' = [cmd EXCEPT ![k] = b] /\ cmd[k] = Idle
  BY DEF TypeOK, Begin
<1>3. cmd' \in [Commands -> Busy \cup {Idle}] /\ cmd'[k] = b /\ \A l \in Commands \ {k} : cmd'[l] = cmd[l]
  BY <1>1, <1>2
<1> QED BY <1>1, <1>2, <1>3

\* What a machine may have it may keep: only the releases and the reservations
\* change the records, and a reservation mints a new claim.
LEMMA GoodGrows ==
  ASSUME TypeOK, [Next]_vars, NEW m \in Machines, NEW n \in Names
  PROVE  Good[m][n] \subseteq Good'[m][n]
<1>1. ASSUME UNCHANGED <<record, minted, holder>> PROVE Good' = Good
  BY <1>1 DEF Good
<1>2. ASSUME NEW k \in Commands, NEW i \in Machines, NEW x \in Names, Reserve(k, i, x)
      PROVE  Good[m][n] \subseteq Good'[m][n]
  BY <1>2 DEF Reserve, Good, TypeOK, Entry, Claim, Hello
<1>3. ASSUME NEW k \in Commands, Release(k)
      PROVE  Good[m][n] \subseteq Good'[m][n]
  BY <1>3 DEF Release, Good, TypeOK, Entry, Claim, Hello
<1>4. CASE ~UNCHANGED <<record, minted, holder>>
  BY <1>2, <1>3, <1>4 DEF Next, vars, Load, BeginSave, EndSave, Change, Fails, List, Store, MakeHello,
     Send, Boot, Halt, Connect, WriteHello, Break, LoseHello, LookUp, ServeLooked, Drop
<1> QED BY <1>1, <1>4

\* So it may keep the hellos it has sent, and the queues of them.
LEMMA GoodHelloGrows ==
  ASSUME TypeOK, [Next]_vars, NEW m \in Machines
  PROVE  /\ GoodHello[m] \subseteq GoodHello'[m]
         /\ Seq(GoodHello[m]) \subseteq Seq(GoodHello'[m])
<1>1. GoodHello[m] \subseteq GoodHello'[m]
  BY GoodGrows DEF GoodHello
<1> QED BY <1>1, SeqGrows

\* Nothing is a good hello.
LEMMA EmptyFacts ==
  ASSUME NEW m \in Machines
  PROVE  Empty \in GoodHello[m] /\ Empty \in GoodHello'[m]
  BY DEF Empty, GoodHello, Good, Hello, Entry

\* A directory that can be read makes a good hello.
LEMMA ReadableFacts ==
  ASSUME TypeOK, DiskInv, NEW m \in Machines, Readable(m)
  PROVE  file[m] \in GoodHello[m]
  BY DEF Readable, DiskInv, TypeOK, GoodHello, Hello
-----------------------------------------------------------------------------
(* The parts of TypeOK.                                                    *)

\* The server's records and the histories.
RecordType ==
  /\ record \in Hello /\ minted \in 0 .. MaxClaims /\ calls \in 0 .. MaxCalls
  /\ holder \in [1 .. minted -> Machines] /\ heard \in SUBSET (1 .. minted)
  /\ mishap \in SUBSET (Names \cup Machines) /\ late \in SUBSET Names
\* The connections and the routes.
NetType ==
  /\ machine \in Seq(Machines) /\ Len(machine) <= MaxConns
  /\ route \in [Names -> 0 .. Len(machine)] /\ link \in [Machines -> 0 .. Len(machine)]
  /\ open \in SUBSET DOMAIN machine
  /\ wire \in [DOMAIN machine -> Seq(Hello)]
  /\ looked \in [DOMAIN machine -> Seq(Hello)] /\ \A c \in DOMAIN machine : Len(looked[c]) <= 1
\* The files and the daemons.
DaemonType ==
  /\ file \in [Machines -> [Names -> Entry \cup {Torn}]]
  /\ up \in SUBSET Machines /\ copy \in [Machines -> Hello]
  /\ out \in [Machines -> Seq(Hello)] /\ \A m \in Machines : Len(out[m]) <= OutCap
\* The commands.
CommandType == cmd \in [Commands -> Busy \cup {Idle}]

\* Together they are TypeOK.
LEMMA TypeParts == TypeOK <=> RecordType /\ NetType /\ DaemonType /\ CommandType
  BY DEF TypeOK, RecordType, NetType, DaemonType, CommandType
-----------------------------------------------------------------------------
(* Which steps leave the commands as they are, but for their step.         *)

\* The command is over, or still about the same claim at the same machine.
SameCommand(l) ==
  cmd'[l] # Idle => /\ cmd[l] # Idle /\ cmd'[l].at = cmd[l].at /\ cmd'[l].name = cmd[l].name
                    /\ cmd'[l].claim = cmd[l].claim

\* A command that has a claim to save.
Saving(l) == cmd[l] # Idle /\ Doing(l, {"granted", "creating", "changing"})

\* These steps change one command, and of that nothing but its step.
LEMMA StepsOfCommands ==
  ASSUME TypeOK, NEW k \in Commands, BeginSave(k) \/ EndSave(k) \/ Change(k) \/ Release(k) \/ Store(k)
  PROVE  \A l \in Commands : SameCommand(l) /\ (cmd'[l] # Idle => cmd'[l].list = cmd[l].list)
<1>1. cmd[k] # Idle
  BY CommandFacts DEF BeginSave, EndSave, Change, Release, Store, Doing, Idle
<1>2. \/ \E s \in {"creating", "changing", "changed", "asking", "stored"} : Goto(k, s)
      \/ Done(k)
  BY DEF BeginSave, EndSave, Change, Release, Store
<1>3. ASSUME Done(k) PROVE \A l \in Commands : cmd'[l] = IF l = k THEN Idle ELSE cmd[l]
  BY <1>3 DEF Done, TypeOK
<1> QED BY <1>1, <1>2, <1>3, GotoFacts DEF SameCommand

\* These steps end commands and leave the others as they are.
LEMMA EndsOfCommands ==
  ASSUME TypeOK, (\E k \in Commands : Fails(k) \/ Send(k)) \/ (\E m \in Machines : Halt(m))
  PROVE  \A l \in Commands : cmd'[l] \in {cmd[l], Idle}
  BY DEF Fails, Send, Halt, Done, TypeOK

\* A reload that takes a list stays about the same claim, and saves nothing.
LEMMA ListSteps ==
  ASSUME IInv, NEW k \in Commands, List(k) \/ MakeHello(k)
  PROVE  \A l \in Commands : /\ SameCommand(l)
                             /\ \A S \in SUBSET {"granted", "loaded", "creating", "changing", "changed"} :
                                  Doing(l, S)' => Doing(l, S)
<1>1. TypeOK /\ cmd[k] # Idle
  BY CommandFacts DEF IInv, List, MakeHello, Doing, Idle
<1>2. ASSUME List(k) PROVE file[cmd[k].at] \in Hello
  BY <1>1, <1>2, ReadableFacts, CommandFacts DEF List, IInv, GoodHello
<1>3. copy[cmd[k].at] \in Hello
  BY <1>1, CommandFacts DEF TypeOK
<1>4. /\ cmd'[k].step \in {"listed", "made"} /\ cmd'[k] # Idle /\ cmd'[k].at = cmd[k].at
      /\ cmd'[k].name = cmd[k].name /\ cmd'[k].claim = cmd[k].claim
      /\ \A l \in Commands \ {k} : cmd'[l] = cmd[l]
  BY <1>1, <1>2, <1>3, ListFacts DEF Takes, List, MakeHello
<1> QED BY <1>1, <1>4 DEF SameCommand, Doing

-----------------------------------------------------------------------------
(* The invariant holds at first, and every step preserves it.              *)

\* It holds at first: nothing is anywhere.
LEMMA IInvInit == Init => IInv
  BY DirectoryAssumption DEF IInv, Init, TypeOK, DiskInv, DaemonInv, WireInv, LinkInv,
     CommandInv, MintInv, LookedInv, GrantInv,
     SaveInv, ClaimIsKept, NoStealing, Good, GoodHello, Hello, Empty, Entry, Claim, Doing, Idle

\* The records and the histories keep their types.
LEMMA RecordTypeStep == ASSUME IInv, [Next]_vars PROVE RecordType'
<1>0. TypeOK /\ RecordType
  BY TypeParts DEF IInv
<1> USE DirectoryAssumption, <1>0 DEF RecordType
<1>1. ASSUME NEW k \in Commands, NEW m \in Machines, NEW n \in Names,
              Load(k, m, n)
       PROVE  RecordType'
  BY <1>1 DEF Load, Begin, daemonVars, netVars
<1>2. ASSUME NEW k \in Commands,
              Change(k) \/ List(k) \/ MakeHello(k)
       PROVE  RecordType'
  BY <1>2 DEF Change, List, MakeHello, Goto, daemonVars, netVars
<1>3. ASSUME NEW k \in Commands, NEW m \in Machines, NEW n \in Names,
              Reserve(k, m, n)
       PROVE  RecordType'
  <2>1. minted + 1 \in Entry /\ minted' = minted + 1 /\ minted' \in 0 .. MaxClaims
    BY <1>3 DEF Reserve, Entry, Claim
  <2>2. holder' \in [1 .. minted' -> Machines]
    <3>1. minted \in Nat /\ holder \in [1 .. minted -> Machines] /\ holder' = Append(holder, m)
      BY <1>3 DEF Reserve
    <3> QED BY <3>1, <2>1, AppendFacts
  <2>3. record' \in Hello
    BY <1>3, <2>1 DEF Reserve, Hello
  <2> QED BY <1>3, <2>1, <2>2, <2>3 DEF Reserve, Begin, netVars, daemonVars
<1>4. ASSUME NEW k \in Commands,
              BeginSave(k)
       PROVE  RecordType'
  BY <1>4, CommandFacts DEF BeginSave, Goto, Collide, daemonVars, netVars, Doing, Idle
<1>5. ASSUME NEW k \in Commands,
              EndSave(k)
       PROVE  RecordType'
  BY <1>5, CommandFacts DEF EndSave, Goto, Done, Collide, daemonVars, netVars, Doing, Idle
<1>6. ASSUME NEW k \in Commands,
              Release(k)
       PROVE  RecordType'
  BY <1>6, CommandFacts DEF Release, Goto, daemonVars, netVars, Hello, Entry, Doing, Idle
<1>7. ASSUME NEW k \in Commands,
              Fails(k)
       PROVE  RecordType'
  BY <1>7, CommandFacts DEF Fails, Done, daemonVars, netVars, Doing, Idle
<1>8. ASSUME NEW k \in Commands,
              Store(k)
       PROVE  RecordType'
  BY <1>8, CommandFacts DEF Store, Goto, daemonVars, netVars, Doing, Idle
<1>9. ASSUME NEW k \in Commands,
              Send(k)
       PROVE  RecordType'
  BY <1>9, CommandFacts DEF Send, Done, daemonVars, netVars, Doing, Idle
<1>10. ASSUME NEW m \in Machines,
              Boot(m) \/ Halt(m) \/ Connect(m) \/ WriteHello(m) \/ Break(m)
                 \/ LoseHello(m)
       PROVE  RecordType'
  BY <1>10 DEF Boot, Halt, Connect, WriteHello, Break, LoseHello, daemonVars, netVars
<1>11. ASSUME NEW c \in DOMAIN machine,
              LookUp(c) \/ Drop(c)
       PROVE  RecordType'
  BY <1>11 DEF LookUp, Drop, Accepted, daemonVars, netVars
<1>12. ASSUME NEW c \in DOMAIN machine,
              ServeLooked(c)
       PROVE  RecordType'
  <2> DEFINE h == Head(looked[c])
  <2>1. h \in GoodHello[machine[c]] /\ machine[c] \in Machines
    <3>1. looked[c] \in Seq(GoodHello[machine[c]]) /\ looked[c] # <<>>
      BY <1>12 DEF IInv, WireInv, ServeLooked
    <3>2. machine[c] \in Machines
      BY DEF TypeOK
    <3> QED BY <3>1, <3>2, TailFacts
  <2>2. \A n \in Names : h[n] # 0 => h[n] \in 1 .. minted
    BY <2>1 DEF GoodHello, Good
  <2> HIDE DEF h
  <2>3. heard' \subseteq 1 .. minted
    BY <1>12, <2>2 DEF ServeLooked, h
  <2>4. mishap' \subseteq Names \cup Machines
    BY <1>12, <2>1 DEF ServeLooked
  <2> QED BY <1>12, <2>3, <2>4 DEF ServeLooked, netVars, daemonVars
<1>13. ASSUME UNCHANGED vars PROVE RecordType'
  BY <1>13 DEF vars, netVars, daemonVars
<1> QED BY <1>1, <1>2, <1>3, <1>4, <1>5, <1>6, <1>7, <1>8, <1>9, <1>10, <1>11, <1>12, <1>13 DEF Next

\* The connections keep their types.
LEMMA NetTypeStep == ASSUME IInv, [Next]_vars PROVE NetType'
<1>0. TypeOK /\ NetType
  BY TypeParts DEF IInv
<1> USE DirectoryAssumption, <1>0 DEF NetType
<1>1. ASSUME NEW k \in Commands, NEW m \in Machines, NEW n \in Names,
              Reserve(k, m, n) \/ Load(k, m, n)
       PROVE  NetType'
  BY <1>1 DEF Reserve, Load, Begin, daemonVars, netVars
<1>2. ASSUME NEW k \in Commands,
              BeginSave(k) \/ EndSave(k) \/ Change(k) \/ Release(k) \/ Fails(k)
                 \/ List(k) \/ Store(k) \/ MakeHello(k) \/ Send(k)
       PROVE  NetType'
  BY <1>2 DEF BeginSave, EndSave, Change, Release, Fails, List, Store, MakeHello, Send, Goto, Collide,
     Done, daemonVars, netVars
<1>3. ASSUME NEW m \in Machines,
              Boot(m) \/ LoseHello(m)
       PROVE  NetType'
  BY <1>3 DEF Boot, LoseHello, daemonVars, netVars
<1>4. ASSUME NEW m \in Machines,
              Halt(m)
       PROVE  NetType'
  BY <1>4 DEF Halt, daemonVars, netVars
<1>5. ASSUME NEW m \in Machines,
              Connect(m)
       PROVE  NetType'
  <2> DEFINE c == Len(machine) + 1
  <2>1. Len(machine) \in Nat /\ DOMAIN machine = 1 .. Len(machine) /\ Len(machine') = c
        /\ machine' \in Seq(Machines) /\ DOMAIN machine' = 1 .. c
    BY <1>5 DEF Connect
  <2>2. copy[m] \in Hello
    BY DEF IInv, TypeOK
  <2>3. <<copy[m]>> \in Seq(Hello) /\ <<>> \in Seq(Hello)
    BY <2>2
  <2>4. wire' \in [1 .. c -> Seq(Hello)]
    BY <1>5, <2>1, <2>3, AppendFacts DEF Connect
  <2>5. looked' \in [1 .. c -> Seq(Hello)] /\ \A i \in 1 .. c : Len(looked'[i]) <= 1
    <3>1. looked \in [1 .. Len(machine) -> Seq(Hello)] /\ \A i \in 1 .. Len(machine) : Len(looked[i]) <= 1
      BY <2>1
    <3>2. looked' = Append(looked, <<>>)
      BY <1>5 DEF Connect
    <3> QED BY <3>1, <3>2, <2>1, AppendQueue
  <2>6. route' \in [Names -> 0 .. c] /\ link' \in [Machines -> 0 .. c] /\ open' \subseteq 1 .. c /\ c <= MaxConns
    BY <1>5, <2>1 DEF Connect
  <2> QED BY <2>1, <2>4, <2>5, <2>6
<1>6. ASSUME NEW m \in Machines,
              WriteHello(m)
       PROVE  NetType'
  <2>1. link[m] \in DOMAIN machine
    <3>1. link[m] \in 0 .. Len(machine) /\ link[m] # 0
      BY <1>6 DEF WriteHello
    <3>2. DOMAIN machine = 1 .. Len(machine) /\ Len(machine) \in Nat
      OBVIOUS
    <3> QED BY <3>1, <3>2
  <2>0. Head(out[m]) \in Hello
    BY <1>6, TailFacts DEF WriteHello, TypeOK
  <2>2. wire' \in [DOMAIN machine -> Seq(Hello)]
    BY <1>6, <2>0, <2>1 DEF WriteHello
  <2> QED BY <1>6, <2>2 DEF WriteHello, netVars, daemonVars
<1>7. ASSUME NEW m \in Machines,
              Break(m)
       PROVE  NetType'
  BY <1>7 DEF Break, daemonVars, netVars
<1>8. ASSUME NEW c \in DOMAIN machine,
              LookUp(c)
       PROVE  NetType'
  <2>1. Tail(wire[c]) \in Seq(Hello) /\ Head(wire[c]) \in Hello
    BY <1>8, TailFacts DEF LookUp
  <2>2. Accepted(Head(wire[c])) \in Hello
    BY <2>1 DEF Accepted, Hello, Entry
  <2>3. <<Accepted(Head(wire[c]))>> \in Seq(Hello) /\ Len(<<Accepted(Head(wire[c]))>>) = 1
    BY <2>2
  <2>4. wire' \in [DOMAIN machine -> Seq(Hello)] /\ looked' \in [DOMAIN machine -> Seq(Hello)]
        /\ \A i \in DOMAIN machine : Len(looked'[i]) <= 1
    BY <1>8, <2>1, <2>3 DEF LookUp
  <2> QED BY <1>8, <2>4 DEF LookUp, netVars, daemonVars
<1>9. ASSUME NEW c \in DOMAIN machine,
              ServeLooked(c)
       PROVE  NetType'
  <2>1. looked' \in [DOMAIN machine -> Seq(Hello)] /\ \A i \in DOMAIN machine : Len(looked'[i]) <= 1
    BY <1>9 DEF ServeLooked
  <2>2. route' \in [Names -> 0 .. Len(machine)]
    <3> DEFINE S == {n \in Names : Head(looked[c])[n] # 0}
    <3>1. c \in 0 .. Len(machine)
      OBVIOUS
    <3>2. route' = [n \in Names |-> IF n \in S THEN c ELSE IF route[n] = c THEN 0 ELSE route[n]]
      BY <1>9 DEF ServeLooked, serve
    <3> HIDE DEF S
    <3> QED BY <3>1, <3>2
  <2> QED BY <1>9, <2>1, <2>2 DEF ServeLooked, netVars, daemonVars
<1>10. ASSUME NEW c \in DOMAIN machine,
              Drop(c)
       PROVE  NetType'
  BY <1>10 DEF Drop, daemonVars, netVars
<1>11. ASSUME UNCHANGED vars PROVE NetType'
  BY <1>11 DEF vars, netVars, daemonVars
<1> QED BY <1>1, <1>2, <1>3, <1>4, <1>5, <1>6, <1>7, <1>8, <1>9, <1>10, <1>11 DEF Next

\* The files and the daemons keep their types.
LEMMA DaemonTypeStep == ASSUME IInv, [Next]_vars PROVE DaemonType'
<1>0. TypeOK /\ DaemonType
  BY TypeParts DEF IInv
<1> USE DirectoryAssumption, <1>0 DEF DaemonType
<1>1. ASSUME NEW k \in Commands, NEW m \in Machines, NEW n \in Names,
              Reserve(k, m, n) \/ Load(k, m, n)
       PROVE  DaemonType'
  BY <1>1 DEF Reserve, Load, Begin, daemonVars, netVars
<1>2. ASSUME NEW k \in Commands,
              Change(k) \/ Release(k) \/ Fails(k) \/ List(k) \/ MakeHello(k)
       PROVE  DaemonType'
  BY <1>2 DEF Change, Release, Fails, List, MakeHello, Goto, Done, daemonVars, netVars
<1>3. ASSUME NEW k \in Commands,
              BeginSave(k)
       PROVE  DaemonType'
  BY <1>3, CommandFacts DEF BeginSave, Goto, Collide, daemonVars, netVars, Doing, Idle
<1>4. ASSUME NEW k \in Commands,
              EndSave(k)
       PROVE  DaemonType'
  BY <1>4, CommandFacts DEF EndSave, Goto, Done, Collide, daemonVars, netVars, Doing, Idle
<1>5. ASSUME NEW k \in Commands,
              Store(k)
       PROVE  DaemonType'
  <2> DEFINE i == cmd[k].at
             h == [n \in Names |-> IF cmd[k].list[n] # 0 THEN cmd[k].list[n] ELSE copy[i][n]]
  <2>1. i \in Machines /\ cmd[k].list \in Hello
    BY <1>5, CommandFacts DEF Store, Doing, Idle
  <2>2. h \in Hello
    BY <2>1 DEF Hello
  <2>3. copy' = [copy EXCEPT ![i] = h]
    BY <1>5, <2>1 DEF Store
  <2> QED BY <1>5, <2>1, <2>2, <2>3 DEF Store, netVars, daemonVars
<1>6. ASSUME NEW k \in Commands,
              Send(k)
       PROVE  DaemonType'
  BY <1>6, CommandFacts DEF Send, Done, daemonVars, netVars, Doing, Idle
<1>7. ASSUME NEW m \in Machines,
              Connect(m) \/ Break(m)
       PROVE  DaemonType'
  BY <1>7 DEF Connect, Break, daemonVars, netVars
<1>8. ASSUME NEW m \in Machines,
              Boot(m)
       PROVE  DaemonType'
  BY <1>8 DEF Boot, daemonVars, netVars, Readable, Hello
<1>9. ASSUME NEW m \in Machines,
              Halt(m)
       PROVE  DaemonType'
  BY <1>9 DEF Halt, daemonVars, netVars, Empty, Hello, Entry
<1>10. ASSUME NEW m \in Machines,
              WriteHello(m)
       PROVE  DaemonType'
  BY <1>10 DEF WriteHello, daemonVars, netVars
<1>11. ASSUME NEW m \in Machines,
              LoseHello(m)
       PROVE  DaemonType'
  BY <1>11 DEF LoseHello, daemonVars, netVars
<1>12. ASSUME NEW c \in DOMAIN machine,
              LookUp(c) \/ ServeLooked(c) \/ Drop(c)
       PROVE  DaemonType'
  BY <1>12 DEF LookUp, ServeLooked, Drop, Accepted, serve, daemonVars, netVars
<1>13. ASSUME UNCHANGED vars PROVE DaemonType'
  BY <1>13 DEF vars, netVars, daemonVars
<1> QED BY <1>1, <1>2, <1>3, <1>4, <1>5, <1>6, <1>7, <1>8, <1>9, <1>10, <1>11, <1>12, <1>13 DEF Next

\* The commands keep their types.
LEMMA CommandTypeStep == ASSUME IInv, [Next]_vars PROVE CommandType'
<1>0. TypeOK /\ CommandType
  BY TypeParts DEF IInv
<1> USE DirectoryAssumption, <1>0 DEF CommandType
<1>1. ASSUME NEW k \in Commands, NEW m \in Machines, NEW n \in Names,
              Reserve(k, m, n)
       PROVE  CommandType'
  <2>1. minted + 1 \in Entry
    BY <1>1 DEF Reserve, TypeOK, Entry, Claim
  <2> QED BY <1>1, <2>1, BeginFacts DEF Reserve
<1>2. ASSUME NEW k \in Commands, NEW m \in Machines, NEW n \in Names,
              Load(k, m, n)
       PROVE  CommandType'
  <2>1. file[m][n] \in Entry
    BY <1>2 DEF Load, Entry
  <2> QED BY <1>2, <2>1, BeginFacts DEF Load
<1>3. ASSUME NEW k \in Commands,
              BeginSave(k)
       PROVE  CommandType'
  BY <1>3, CommandFacts, GotoFacts DEF BeginSave, Goto, Collide, daemonVars, netVars, Doing, Idle
<1>4. ASSUME NEW k \in Commands,
              EndSave(k)
       PROVE  CommandType'
  BY <1>4, CommandFacts, GotoFacts DEF EndSave, Goto, Done, Collide, daemonVars, netVars, Doing, Idle
<1>5. ASSUME NEW k \in Commands,
              Change(k)
       PROVE  CommandType'
  BY <1>5, CommandFacts, GotoFacts DEF Change, Goto, daemonVars, netVars, Doing, Idle
<1>6. ASSUME NEW k \in Commands,
              Release(k)
       PROVE  CommandType'
  BY <1>6, CommandFacts, GotoFacts DEF Release, Goto, daemonVars, netVars, Doing, Idle
<1>7. ASSUME NEW k \in Commands,
              Fails(k)
       PROVE  CommandType'
  BY <1>7 DEF Fails, Done, daemonVars, netVars
<1>8. ASSUME NEW k \in Commands,
              List(k)
       PROVE  CommandType'
  <2>1. cmd[k] # Idle /\ cmd[k].at \in Machines
    BY <1>8, CommandFacts DEF List, Doing, Idle
  <2>2. file[cmd[k].at] \in Hello
    BY <1>8, <2>1 DEF List, Readable, Hello, TypeOK
  <2> QED BY <1>8, <2>1, <2>2, ListFacts DEF Takes, List, netVars, daemonVars
<1>9. ASSUME NEW k \in Commands,
              Store(k)
       PROVE  CommandType'
  BY <1>9, CommandFacts, GotoFacts DEF Store, Goto, daemonVars, netVars, Doing, Idle
<1>10. ASSUME NEW k \in Commands,
              MakeHello(k)
       PROVE  CommandType'
  <2>1. cmd[k] # Idle /\ cmd[k].at \in Machines
    BY <1>10, CommandFacts DEF MakeHello, Doing, Idle
  <2>2. copy[cmd[k].at] \in Hello
    BY <2>1 DEF TypeOK
  <2> QED BY <1>10, <2>1, <2>2, ListFacts DEF Takes, MakeHello, netVars, daemonVars
<1>11. ASSUME NEW k \in Commands,
              Send(k)
       PROVE  CommandType'
  BY <1>11 DEF Send, Done, daemonVars, netVars
<1>12. ASSUME NEW m \in Machines,
              Boot(m) \/ Connect(m) \/ WriteHello(m) \/ Break(m) \/ LoseHello(m)
       PROVE  CommandType'
  BY <1>12 DEF Boot, Connect, WriteHello, Break, LoseHello, daemonVars, netVars
<1>13. ASSUME NEW m \in Machines,
              Halt(m)
       PROVE  CommandType'
  BY <1>13 DEF Halt, daemonVars, netVars
<1>14. ASSUME NEW c \in DOMAIN machine,
              LookUp(c) \/ ServeLooked(c) \/ Drop(c)
       PROVE  CommandType'
  BY <1>14 DEF LookUp, ServeLooked, Drop, Accepted, serve, daemonVars, netVars
<1>15. ASSUME UNCHANGED vars PROVE CommandType'
  BY <1>15 DEF vars, netVars, daemonVars
<1> QED BY <1>1, <1>2, <1>3, <1>4, <1>5, <1>6, <1>7, <1>8, <1>9, <1>10, <1>11, <1>12, <1>13,
           <1>14, <1>15 DEF Next

\* So every step keeps TypeOK.
LEMMA TypeStep == ASSUME IInv, [Next]_vars PROVE TypeOK'
<1>1. (RecordType /\ NetType /\ DaemonType /\ CommandType)'
  BY RecordTypeStep, NetTypeStep, DaemonTypeStep, CommandTypeStep
<1> QED BY <1>1, TypeParts, PTL

\* Claims are minted before they are recorded.
LEMMA MintInvStep == ASSUME IInv, [Next]_vars PROVE MintInv'
<1>0. TypeOK /\ TypeOK' /\ MintInv
  BY TypeStep DEF IInv
<1> USE <1>0 DEF MintInv
<1>1. ASSUME NEW k \in Commands, NEW m \in Machines, NEW n \in Names,
              Load(k, m, n)
       PROVE  MintInv'
  BY <1>1 DEF Load, Begin, daemonVars, netVars
<1>2. ASSUME NEW k \in Commands,
              BeginSave(k) \/ EndSave(k) \/ Change(k) \/ Fails(k) \/ List(k) \/ Store(k)
                 \/ MakeHello(k) \/ Send(k)
       PROVE  MintInv'
  BY <1>2 DEF BeginSave, EndSave, Change, Fails, List, Store, MakeHello, Send, Goto, Collide, Done,
     daemonVars, netVars
<1>3. ASSUME NEW k \in Commands, NEW m \in Machines, NEW n \in Names,
              Reserve(k, m, n)
       PROVE  MintInv'
  <2>1. minted \in Nat /\ minted' = minted + 1 /\ record \in [Names -> Entry]
    BY <1>3 DEF Reserve, TypeOK, Hello
  <2>2. \A x \in Names : record[x] \in Int /\ record'[x] \in {record[x], minted + 1}
    BY <1>3, <2>1 DEF Reserve, Entry, Claim
  <2> QED BY <2>1, <2>2
<1>4. ASSUME NEW k \in Commands,
              Release(k)
       PROVE  MintInv'
  BY <1>4 DEF Release, Goto, daemonVars, netVars, TypeOK, Hello
<1>5. ASSUME NEW m \in Machines,
              Boot(m) \/ Halt(m) \/ Connect(m) \/ WriteHello(m) \/ Break(m)
                 \/ LoseHello(m)
       PROVE  MintInv'
  BY <1>5 DEF Boot, Halt, Connect, WriteHello, Break, LoseHello, daemonVars, netVars
<1>6. ASSUME NEW c \in DOMAIN machine,
              LookUp(c) \/ ServeLooked(c) \/ Drop(c)
       PROVE  MintInv'
  BY <1>6 DEF LookUp, ServeLooked, Drop, Accepted, serve, daemonVars, netVars
<1>7. ASSUME UNCHANGED vars PROVE MintInv'
  BY <1>7 DEF vars, netVars, daemonVars
<1> QED BY <1>1, <1>2, <1>3, <1>4, <1>5, <1>6, <1>7 DEF Next

\* What is on disk belongs there.
LEMMA DiskInvStep == ASSUME IInv, [Next]_vars PROVE DiskInv'
<1>0. TypeOK /\ TypeOK' /\ DiskInv /\ CommandInv
  BY TypeStep DEF IInv
<1>a. \A m \in Machines, n \in Names : Good[m][n] \subseteq Good'[m][n]
  BY <1>0, GoodGrows
<1> USE <1>0 DEF DiskInv
<1>1. ASSUME NEW k \in Commands, NEW m \in Machines, NEW n \in Names,
              Reserve(k, m, n) \/ Load(k, m, n)
       PROVE  DiskInv'
  BY <1>1, <1>a DEF Reserve, Load, Begin, daemonVars, netVars
<1>2. ASSUME NEW k \in Commands,
              Change(k) \/ Release(k) \/ Fails(k) \/ List(k) \/ Store(k) \/ MakeHello(k)
                 \/ Send(k)
       PROVE  DiskInv'
  BY <1>2, <1>a DEF Change, Release, Fails, List, Store, MakeHello, Send, Goto, Done, daemonVars, netVars
<1>3. ASSUME NEW k \in Commands,
              BeginSave(k)
       PROVE  DiskInv'
  BY <1>3, CommandFacts, <1>a DEF BeginSave, Goto, Collide, daemonVars, netVars, TypeOK, Doing, Idle
<1>4. ASSUME NEW k \in Commands,
              EndSave(k)
       PROVE  DiskInv'
  <2>1. cmd[k] # Idle /\ cmd[k].at \in Machines /\ cmd[k].name \in Names
    BY <1>4, CommandFacts DEF EndSave, Doing, Idle
  <2>2. cmd[k].claim \in Good'[cmd[k].at][cmd[k].name]
    BY <2>1, <1>a DEF CommandInv
  <2>3. file \in [Machines -> [Names -> Entry \cup {Torn}]]
    BY DEF TypeOK
  <2>4. file' = [file EXCEPT ![cmd[k].at][cmd[k].name] = cmd[k].claim]
    BY <1>4 DEF EndSave
  <2> QED BY <2>1, <2>2, <2>3, <2>4, <1>a
<1>5. ASSUME NEW m \in Machines,
              Boot(m) \/ Halt(m) \/ Connect(m) \/ WriteHello(m) \/ Break(m)
                 \/ LoseHello(m)
       PROVE  DiskInv'
  BY <1>5, <1>a DEF Boot, Halt, Connect, WriteHello, Break, LoseHello, daemonVars, netVars
<1>6. ASSUME NEW c \in DOMAIN machine,
              LookUp(c) \/ ServeLooked(c) \/ Drop(c)
       PROVE  DiskInv'
  BY <1>6, <1>a DEF LookUp, ServeLooked, Drop, Accepted, serve, daemonVars, netVars
<1>7. ASSUME UNCHANGED vars PROVE DiskInv'
  BY <1>7, <1>a DEF vars, netVars, daemonVars
<1> QED BY <1>1, <1>2, <1>3, <1>4, <1>5, <1>6, <1>7 DEF Next

\* What a daemon has belongs to its machine.
LEMMA DaemonInvStep == ASSUME IInv, [Next]_vars PROVE DaemonInv'
<1>0. TypeOK /\ TypeOK' /\ DaemonInv /\ CommandInv /\ DiskInv
  BY TypeStep DEF IInv
<1>a. \A m \in Machines : GoodHello[m] \subseteq GoodHello'[m] /\ Seq(GoodHello[m]) \subseteq Seq(GoodHello'[m])
  BY <1>0, GoodHelloGrows
<1> USE <1>0 DEF DaemonInv
<1>1. ASSUME NEW k \in Commands, NEW m \in Machines, NEW n \in Names,
              Reserve(k, m, n) \/ Load(k, m, n)
       PROVE  DaemonInv'
  BY <1>1, <1>a DEF Reserve, Load, Begin, daemonVars, netVars
<1>2. ASSUME NEW k \in Commands,
              BeginSave(k) \/ EndSave(k) \/ Change(k) \/ Release(k) \/ Fails(k)
                 \/ List(k) \/ MakeHello(k)
       PROVE  DaemonInv'
  BY <1>2, <1>a DEF BeginSave, EndSave, Change, Release, Fails, List, MakeHello, Goto, Collide, Done,
     daemonVars, netVars
<1>3. ASSUME NEW k \in Commands,
              Store(k)
       PROVE  DaemonInv'
  <2> DEFINE i == cmd[k].at
             h == [n \in Names |-> IF cmd[k].list[n] # 0 THEN cmd[k].list[n] ELSE copy[i][n]]
  <2>1. cmd[k] # Idle /\ i \in Machines
    BY <1>3, CommandFacts DEF Store, Doing, Idle
  <2>2. cmd[k].list \in GoodHello[i] /\ copy[i] \in GoodHello[i]
    BY <2>1 DEF CommandInv
  <2>3. h \in GoodHello[i]
    BY <2>1, <2>2 DEF GoodHello, Hello
  <2>4. copy' = [copy EXCEPT ![i] = h] /\ UNCHANGED out
    BY <1>3, <2>1 DEF Store
  <2>5. copy \in [Machines -> Hello]
    BY DEF TypeOK
  <2> HIDE DEF h
  <2> QED BY <2>1, <2>3, <2>4, <2>5, <1>a
<1>4. ASSUME NEW k \in Commands,
              Send(k)
       PROVE  DaemonInv'
  <2> DEFINE i == cmd[k].at
  <2>1. cmd[k] # Idle /\ i \in Machines
    BY <1>4, CommandFacts DEF Send, Doing, Idle
  <2>2. out[i] \in Seq(GoodHello'[i]) /\ cmd[k].list \in GoodHello'[i]
    BY <2>1, <1>a DEF CommandInv
  <2>3. Append(out[i], cmd[k].list) \in Seq(GoodHello'[i])
    BY <2>2, AppendProperties
  <2>4. /\ \A m \in Machines : out'[m] \in {out[m]} \cup {Append(out[i], cmd[k].list) : x \in {m} \cap {i}}
        /\ UNCHANGED copy
    BY <1>4, <2>1 DEF Send, TypeOK
  <2> QED BY <2>2, <2>3, <2>4, <1>a
<1>5. ASSUME NEW m \in Machines,
              Connect(m) \/ Break(m)
       PROVE  DaemonInv'
  BY <1>5, <1>a DEF Connect, Break, daemonVars, netVars
<1>6. ASSUME NEW m \in Machines,
              Boot(m)
       PROVE  DaemonInv'
  <2>1. file[m] \in GoodHello[m]
    BY <1>6, ReadableFacts DEF Boot
  <2> QED BY <1>6, <2>1, <1>a DEF Boot, TypeOK
<1>7. ASSUME NEW m \in Machines,
              Halt(m)
       PROVE  DaemonInv'
  <2>1. <<>> \in Seq(GoodHello'[m])
    OBVIOUS
  <2> QED BY <1>7, <2>1, <1>a, EmptyFacts DEF Halt, TypeOK
<1>8. ASSUME NEW m \in Machines,
              WriteHello(m)
       PROVE  DaemonInv'
  <2>1. Tail(out[m]) \in Seq(GoodHello[m])
    BY <1>8, TailFacts DEF WriteHello
  <2> QED BY <1>8, <2>1, <1>a DEF WriteHello, TypeOK
<1>9. ASSUME NEW m \in Machines,
              LoseHello(m)
       PROVE  DaemonInv'
  <2>1. Tail(out[m]) \in Seq(GoodHello[m])
    BY <1>9, TailFacts DEF LoseHello
  <2> QED BY <1>9, <2>1, <1>a DEF LoseHello, TypeOK
<1>10. ASSUME NEW c \in DOMAIN machine,
              LookUp(c) \/ ServeLooked(c) \/ Drop(c)
       PROVE  DaemonInv'
  BY <1>10, <1>a DEF LookUp, ServeLooked, Drop, Accepted, serve, daemonVars, netVars
<1>11. ASSUME UNCHANGED vars PROVE DaemonInv'
  BY <1>11, <1>a DEF vars, netVars, daemonVars
<1> QED BY <1>1, <1>2, <1>3, <1>4, <1>5, <1>6, <1>7, <1>8, <1>9, <1>10, <1>11 DEF Next

\* A daemon has a connection of its own.
LEMMA LinkInvStep == ASSUME IInv, [Next]_vars PROVE LinkInv'
<1>0. TypeOK /\ TypeOK' /\ LinkInv
  BY TypeStep DEF IInv
<1> USE <1>0 DEF LinkInv
<1>1. ASSUME NEW k \in Commands, NEW m \in Machines, NEW n \in Names,
              Reserve(k, m, n) \/ Load(k, m, n)
       PROVE  LinkInv'
  BY <1>1 DEF Reserve, Load, Begin, daemonVars, netVars
<1>2. ASSUME NEW k \in Commands,
              BeginSave(k) \/ EndSave(k) \/ Change(k) \/ Release(k) \/ Fails(k)
                 \/ List(k) \/ Store(k) \/ MakeHello(k) \/ Send(k)
       PROVE  LinkInv'
  BY <1>2 DEF BeginSave, EndSave, Change, Release, Fails, List, Store, MakeHello, Send, Goto, Collide,
     Done, daemonVars, netVars
<1>3. ASSUME NEW m \in Machines,
              Boot(m) \/ WriteHello(m) \/ LoseHello(m)
       PROVE  LinkInv'
  BY <1>3 DEF Boot, WriteHello, LoseHello, daemonVars, netVars
<1>4. ASSUME NEW m \in Machines,
              Halt(m)
       PROVE  LinkInv'
  BY <1>4 DEF Halt, daemonVars, netVars, TypeOK
<1>5. ASSUME NEW m \in Machines,
              Connect(m)
       PROVE  LinkInv'
  <2>1. machine \in Seq(Machines) /\ machine' = Append(machine, m)
    BY <1>5 DEF Connect, TypeOK
  <2>2. machine'[Len(machine) + 1] = m /\ \A c \in 1 .. Len(machine) : machine'[c] = machine[c]
    BY <2>1, AppendProperties
  <2>3. link \in [Machines -> 0 .. Len(machine)] /\ link' = [link EXCEPT ![m] = Len(machine) + 1]
    BY <1>5 DEF Connect, TypeOK
  <2>4. \A i \in Machines : link[i] # 0 => link[i] \in 1 .. Len(machine)
    BY <2>3
  <2> QED BY <2>2, <2>3, <2>4
<1>6. ASSUME NEW m \in Machines,
              Break(m)
       PROVE  LinkInv'
  BY <1>6 DEF Break, daemonVars, netVars, TypeOK
<1>7. ASSUME NEW c \in DOMAIN machine,
              LookUp(c) \/ ServeLooked(c) \/ Drop(c)
       PROVE  LinkInv'
  BY <1>7 DEF LookUp, ServeLooked, Drop, Accepted, serve, daemonVars, netVars
<1>8. ASSUME UNCHANGED vars PROVE LinkInv'
  BY <1>8 DEF vars, netVars, daemonVars
<1> QED BY <1>1, <1>2, <1>3, <1>4, <1>5, <1>6, <1>7, <1>8 DEF Next

\* What is on its way on a connection belongs to the machine behind it.
LEMMA WireInvStep == ASSUME IInv, [Next]_vars PROVE WireInv'
<1>0. TypeOK /\ TypeOK' /\ WireInv /\ LinkInv /\ DaemonInv
  BY TypeStep DEF IInv
<1>a. \A m \in Machines : GoodHello[m] \subseteq GoodHello'[m] /\ Seq(GoodHello[m]) \subseteq Seq(GoodHello'[m])
  BY <1>0, GoodHelloGrows
<1>m. \A c \in DOMAIN machine : machine[c] \in Machines
  BY <1>0 DEF TypeOK
<1> USE <1>0 DEF WireInv
<1>1. ASSUME NEW k \in Commands, NEW m \in Machines, NEW n \in Names,
              Reserve(k, m, n) \/ Load(k, m, n)
       PROVE  WireInv'
  BY <1>1, <1>a, <1>m DEF Reserve, Load, Begin, daemonVars, netVars
<1>2. ASSUME NEW k \in Commands,
              BeginSave(k) \/ EndSave(k) \/ Change(k) \/ Release(k) \/ Fails(k)
                 \/ List(k) \/ Store(k) \/ MakeHello(k) \/ Send(k)
       PROVE  WireInv'
  BY <1>2, <1>a, <1>m DEF BeginSave, EndSave, Change, Release, Fails, List, Store, MakeHello, Send, Goto, Collide,
     Done, daemonVars, netVars
<1>3. ASSUME NEW m \in Machines,
              Boot(m) \/ Halt(m) \/ Break(m) \/ LoseHello(m)
       PROVE  WireInv'
  BY <1>3, <1>a, <1>m DEF Boot, Halt, Break, LoseHello, daemonVars, netVars
<1>4. ASSUME NEW m \in Machines,
              Connect(m)
       PROVE  WireInv'
  <2> DEFINE d == Len(machine) + 1
  <2>1. /\ machine \in Seq(Machines) /\ machine' = Append(machine, m) /\ DOMAIN machine = 1 .. Len(machine)
        /\ DOMAIN machine' = 1 .. d /\ Len(machine) \in Nat
    BY <1>4 DEF Connect, TypeOK
  <2>2. machine'[d] = m /\ \A c \in 1 .. Len(machine) : machine'[c] = machine[c]
    BY <2>1, AppendProperties
  <2>3. wire'[d] = <<copy[m]>> /\ \A c \in 1 .. Len(machine) : wire'[c] = wire[c]
    <3>1. <<copy[m]>> \in Seq(Hello) /\ wire \in [1 .. Len(machine) -> Seq(Hello)]
      BY <2>1 DEF TypeOK
    <3>2. wire' = Append(wire, <<copy[m]>>)
      BY <1>4 DEF Connect
    <3> QED BY <3>1, <3>2, <2>1, AppendFacts
  <2>4. looked'[d] = <<>> /\ \A c \in 1 .. Len(machine) : looked'[c] = looked[c]
    <3>1. looked \in [1 .. Len(machine) -> Seq(Hello)]
      BY <2>1 DEF TypeOK
    <3>2. looked' = Append(looked, <<>>)
      BY <1>4 DEF Connect
    <3> QED BY <3>1, <3>2, <2>1, EmptyAppended
  <2>5. <<copy[m]>> \in Seq(GoodHello'[m]) /\ <<>> \in Seq(GoodHello'[m])
    BY <1>a, ShortQueues DEF DaemonInv
  <2>6. \A c \in 1 .. Len(machine) : wire[c] \in Seq(GoodHello'[machine[c]]) /\ looked[c] \in Seq(GoodHello'[machine[c]])
    BY <1>a, <1>m, <2>1
  <2>7. \A c \in 1 .. d : c = d \/ c \in 1 .. Len(machine)
    BY <2>1
  <2> HIDE DEF d
  <2> SUFFICES ASSUME NEW e \in 1 .. d
               PROVE  wire'[e] \in Seq(GoodHello'[machine'[e]]) /\ looked'[e] \in Seq(GoodHello'[machine'[e]])
    BY <2>1
  <2>8. CASE e = d
    BY <2>2, <2>3, <2>4, <2>5, <2>8
  <2>9. CASE e \in 1 .. Len(machine)
    BY <2>2, <2>3, <2>4, <2>6, <2>9
  <2> QED BY <2>7, <2>8, <2>9
<1>5. ASSUME NEW m \in Machines,
              WriteHello(m)
       PROVE  WireInv'
  <2> DEFINE d == link[m]
  <2>1. d \in DOMAIN machine /\ machine[d] = m
    BY <1>5 DEF WriteHello, TypeOK, LinkInv
  <2>2. Head(out[m]) \in GoodHello[m] /\ wire[d] \in Seq(GoodHello[m])
    BY <1>5, <2>1, TailFacts DEF WriteHello, DaemonInv
  <2>3. Append(wire[d], Head(out[m])) \in Seq(GoodHello'[m])
    BY <2>2, <1>a, AppendProperties
  <2>4. /\ UNCHANGED <<machine, looked>> /\ wire'[d] = Append(wire[d], Head(out[m]))
        /\ \A c \in DOMAIN machine : c # d => wire'[c] = wire[c]
    BY <1>5, <2>1 DEF WriteHello, TypeOK
  <2> SUFFICES ASSUME NEW e \in DOMAIN machine
               PROVE  wire'[e] \in Seq(GoodHello'[machine[e]]) /\ looked'[e] \in Seq(GoodHello'[machine[e]])
    BY <2>4
  <2>5. wire[e] \in Seq(GoodHello'[machine[e]]) /\ looked[e] \in Seq(GoodHello'[machine[e]])
    BY <1>a, <1>m
  <2>6. CASE e = d
    BY <2>1, <2>3, <2>4, <2>5, <2>6
  <2>7. CASE e # d
    BY <2>4, <2>5, <2>7
  <2> QED BY <2>6, <2>7
<1>6. ASSUME NEW c \in DOMAIN machine,
              LookUp(c)
       PROVE  WireInv'
  <2> DEFINE h == Head(wire[c])
             i == machine[c]
  <2>1. h \in GoodHello[i] /\ Tail(wire[c]) \in Seq(GoodHello[i]) /\ i \in Machines
    BY <1>6, <1>m, TailFacts DEF LookUp
  <2>2. Accepted(h) \in GoodHello[i]
    BY <2>1 DEF Accepted, GoodHello, Hello, Good, Entry
  <2>3. <<Accepted(h)>> \in Seq(GoodHello'[i]) /\ Tail(wire[c]) \in Seq(GoodHello'[i])
    BY <2>1, <2>2, <1>a, ShortQueues
  <2>4. /\ UNCHANGED machine /\ wire'[c] = Tail(wire[c]) /\ looked'[c] = <<Accepted(h)>>
        /\ \A d \in DOMAIN machine : d # c => wire'[d] = wire[d] /\ looked'[d] = looked[d]
    BY <1>6 DEF LookUp, TypeOK
  <2> HIDE DEF h
  <2> SUFFICES ASSUME NEW e \in DOMAIN machine
               PROVE  wire'[e] \in Seq(GoodHello'[machine[e]]) /\ looked'[e] \in Seq(GoodHello'[machine[e]])
    BY <2>4
  <2>5. wire[e] \in Seq(GoodHello'[machine[e]]) /\ looked[e] \in Seq(GoodHello'[machine[e]])
    BY <1>a, <1>m
  <2>6. CASE e = c
    BY <2>1, <2>3, <2>4, <2>5, <2>6
  <2>7. CASE e # c
    BY <2>4, <2>5, <2>7
  <2> QED BY <2>6, <2>7
<1>7. ASSUME NEW c \in DOMAIN machine,
              ServeLooked(c)
       PROVE  WireInv'
  <2>1. /\ UNCHANGED <<machine, wire>> /\ looked'[c] = <<>>
        /\ \A d \in DOMAIN machine : d # c => looked'[d] = looked[d]
    BY <1>7 DEF ServeLooked, TypeOK
  <2>2. <<>> \in Seq(GoodHello'[machine[c]])
    OBVIOUS
  <2> SUFFICES ASSUME NEW e \in DOMAIN machine
               PROVE  wire'[e] \in Seq(GoodHello'[machine[e]]) /\ looked'[e] \in Seq(GoodHello'[machine[e]])
    BY <2>1 DEF WireInv
  <2>3. wire[e] \in Seq(GoodHello'[machine[e]]) /\ looked[e] \in Seq(GoodHello'[machine[e]])
    BY <1>a, <1>m
  <2>4. CASE e = c
    BY <2>1, <2>2, <2>3, <2>4
  <2>5. CASE e # c
    BY <2>1, <2>3, <2>5
  <2> QED BY <2>4, <2>5
<1>8. ASSUME NEW c \in DOMAIN machine,
              Drop(c)
       PROVE  WireInv'
  <2>1. /\ UNCHANGED <<machine, looked>> /\ wire'[c] = <<>>
        /\ \A d \in DOMAIN machine : d # c => wire'[d] = wire[d]
    BY <1>8 DEF Drop, TypeOK
  <2>2. <<>> \in Seq(GoodHello'[machine[c]])
    OBVIOUS
  <2> SUFFICES ASSUME NEW e \in DOMAIN machine
               PROVE  wire'[e] \in Seq(GoodHello'[machine[e]]) /\ looked'[e] \in Seq(GoodHello'[machine[e]])
    BY <2>1 DEF WireInv
  <2>3. wire[e] \in Seq(GoodHello'[machine[e]]) /\ looked[e] \in Seq(GoodHello'[machine[e]])
    BY <1>a, <1>m
  <2>4. CASE e = c
    BY <2>1, <2>2, <2>3, <2>4
  <2>5. CASE e # c
    BY <2>1, <2>3, <2>5
  <2> QED BY <2>4, <2>5
<1>9. ASSUME UNCHANGED vars PROVE WireInv'
  BY <1>9, <1>a, <1>m DEF vars, netVars, daemonVars
<1> QED BY <1>1, <1>2, <1>3, <1>4, <1>5, <1>6, <1>7, <1>8, <1>9 DEF Next

\* What a command is about belongs to its machine.
LEMMA CommandInvStep == ASSUME IInv, [Next]_vars PROVE CommandInv'
<1>0. TypeOK /\ TypeOK' /\ CommandInv /\ MintInv /\ DiskInv /\ DaemonInv
  BY TypeStep DEF IInv
<1>a. \A m \in Machines, n \in Names : Good[m][n] \subseteq Good'[m][n]
  BY <1>0, GoodGrows
<1>b. \A m \in Machines : GoodHello[m] \subseteq GoodHello'[m] /\ Seq(GoodHello[m]) \subseteq Seq(GoodHello'[m])
  BY <1>0, GoodHelloGrows
<1>k. \A l \in Commands : cmd[l] # Idle => /\ cmd[l].claim \in Good'[cmd[l].at][cmd[l].name]
                                           /\ cmd[l].list \in GoodHello'[cmd[l].at]
  BY <1>0, <1>a, <1>b, CommandFacts DEF CommandInv
<1>c. ASSUME \A l \in Commands : \/ cmd'[l] \in {cmd[l], Idle}
                                 \/ SameCommand(l) /\ (cmd'[l] # Idle => cmd'[l].list = cmd[l].list)
      PROVE  CommandInv'
  BY <1>c, <1>k DEF CommandInv, SameCommand
<1> USE <1>0 DEF CommandInv
<1>1. ASSUME NEW k \in Commands, NEW m \in Machines, NEW n \in Names,
              Reserve(k, m, n)
       PROVE  CommandInv'
  <2>1. minted + 1 \in Entry
    BY <1>1 DEF Reserve, TypeOK, Entry, Claim
  <2>2. minted + 1 \in Good'[m][n]
    <3>1. minted \in Nat /\ holder \in [1 .. minted -> Machines] /\ holder' = Append(holder, m) /\ minted' = minted + 1
      BY <1>1 DEF Reserve, TypeOK
    <3>2. holder'[minted + 1] = m
      BY <3>1, AppendFacts
    <3>3. \A x \in Names : record'[x] = minted + 1 => x = n
      <4>1. \A x \in Names : record[x] \in Int
        BY DEF TypeOK, Hello, Entry, Claim
      <4>2. \A x \in Names : record[x] <= minted
        BY DEF MintInv
      <4>3. \A x \in Names : x # n => record'[x] = record[x]
        BY <1>1 DEF Reserve, TypeOK, Hello
      <4> QED BY <3>1, <4>1, <4>2, <4>3
    <3> QED BY <3>1, <3>2, <3>3 DEF Good
  <2>3. /\ cmd'[k].at = m /\ cmd'[k].name = n /\ cmd'[k].claim = minted + 1 /\ cmd'[k].list = Empty
        /\ \A l \in Commands \ {k} : cmd'[l] = cmd[l]
    BY <1>1, <2>1, BeginFacts DEF Reserve
  <2> QED BY <2>2, <2>3, <1>k, EmptyFacts
<1>2. ASSUME NEW k \in Commands, NEW m \in Machines, NEW n \in Names,
              Load(k, m, n)
       PROVE  CommandInv'
  <2>1. file[m][n] \in Entry /\ file[m][n] \in Good'[m][n]
    BY <1>2, <1>a, <1>0 DEF Load, Entry, Claim, Torn, DiskInv
  <2>3. /\ cmd'[k].at = m /\ cmd'[k].name = n /\ cmd'[k].claim = file[m][n] /\ cmd'[k].list = Empty
        /\ \A l \in Commands \ {k} : cmd'[l] = cmd[l]
    BY <1>2, <2>1, BeginFacts DEF Load
  <2> QED BY <2>1, <2>3, <1>k, EmptyFacts
<1>3. ASSUME NEW k \in Commands,
              BeginSave(k)
       PROVE  CommandInv'
  BY <1>3, StepsOfCommands, <1>c, <1>k
<1>4. ASSUME NEW k \in Commands,
              EndSave(k)
       PROVE  CommandInv'
  BY <1>4, StepsOfCommands, <1>c, <1>k
<1>5. ASSUME NEW k \in Commands,
              Change(k)
       PROVE  CommandInv'
  BY <1>5, StepsOfCommands, <1>c, <1>k
<1>6. ASSUME NEW k \in Commands,
              Release(k)
       PROVE  CommandInv'
  BY <1>6, StepsOfCommands, <1>c, <1>k
<1>7. ASSUME NEW k \in Commands,
              Fails(k)
       PROVE  CommandInv'
  BY <1>7, EndsOfCommands, <1>c, <1>k
<1>8. ASSUME NEW k \in Commands,
              List(k)
       PROVE  CommandInv'
  <2>1. cmd[k] # Idle /\ cmd[k].at \in Machines
    BY <1>8, CommandFacts DEF List, Doing, Idle
  <2>2. file[cmd[k].at] \in GoodHello[cmd[k].at]
    BY <1>8, <2>1, <1>0, ReadableFacts DEF List
  <2>3. file[cmd[k].at] \in Hello
    BY <2>2, <2>1 DEF GoodHello
  <2>4. /\ cmd'[k].at = cmd[k].at /\ cmd'[k].name = cmd[k].name /\ cmd'[k].claim = cmd[k].claim
        /\ cmd'[k].list = file[cmd[k].at] /\ \A l \in Commands \ {k} : cmd'[l] = cmd[l]
    <3>1. Takes(k, "listed", file[cmd[k].at])
      BY <1>8 DEF List, Takes
    <3>2. /\ cmd'[k].at = cmd[k].at /\ cmd'[k].name = cmd[k].name /\ cmd'[k].claim = cmd[k].claim
          /\ cmd'[k].list = file[cmd[k].at]
      BY <2>1, <2>3, <3>1, ListFacts
    <3>3. \A l \in Commands \ {k} : cmd'[l] = cmd[l]
      BY <2>1, <2>3, <3>1, ListFacts
    <3> QED BY <3>2, <3>3
  <2>5. cmd[k].claim \in Good'[cmd[k].at][cmd[k].name] /\ cmd'[k].list \in GoodHello'[cmd[k].at]
    BY <2>1, <2>2, <2>4, <1>a, <1>b, CommandFacts
  <2> SUFFICES ASSUME NEW l \in Commands, l # k, cmd'[l] # Idle
               PROVE  /\ cmd'[l].claim \in Good'[cmd'[l].at][cmd'[l].name]
                      /\ cmd'[l].list \in GoodHello'[cmd'[l].at]
    BY <2>4, <2>5
  <2> QED BY <2>4, <1>k
<1>9. ASSUME NEW k \in Commands,
              Store(k)
       PROVE  CommandInv'
  BY <1>9, StepsOfCommands, <1>c, <1>k
<1>10. ASSUME NEW k \in Commands,
              MakeHello(k)
       PROVE  CommandInv'
  <2>1. cmd[k] # Idle /\ cmd[k].at \in Machines
    BY <1>10, CommandFacts DEF MakeHello, Doing, Idle
  <2>2. copy[cmd[k].at] \in GoodHello[cmd[k].at]
    BY <1>10, <2>1, <1>0 DEF MakeHello, DaemonInv
  <2>3. copy[cmd[k].at] \in Hello
    BY <2>2, <2>1 DEF GoodHello
  <2>4. /\ cmd'[k].at = cmd[k].at /\ cmd'[k].name = cmd[k].name /\ cmd'[k].claim = cmd[k].claim
        /\ cmd'[k].list = copy[cmd[k].at] /\ \A l \in Commands \ {k} : cmd'[l] = cmd[l]
    <3>1. Takes(k, "made", copy[cmd[k].at])
      BY <1>10 DEF MakeHello, Takes
    <3>2. /\ cmd'[k].at = cmd[k].at /\ cmd'[k].name = cmd[k].name /\ cmd'[k].claim = cmd[k].claim
          /\ cmd'[k].list = copy[cmd[k].at]
      BY <2>1, <2>3, <3>1, ListFacts
    <3>3. \A l \in Commands \ {k} : cmd'[l] = cmd[l]
      BY <2>1, <2>3, <3>1, ListFacts
    <3> QED BY <3>2, <3>3
  <2>5. cmd[k].claim \in Good'[cmd[k].at][cmd[k].name] /\ cmd'[k].list \in GoodHello'[cmd[k].at]
    BY <2>1, <2>2, <2>4, <1>a, <1>b, CommandFacts
  <2> SUFFICES ASSUME NEW l \in Commands, l # k, cmd'[l] # Idle
               PROVE  /\ cmd'[l].claim \in Good'[cmd'[l].at][cmd'[l].name]
                      /\ cmd'[l].list \in GoodHello'[cmd'[l].at]
    BY <2>4, <2>5
  <2> QED BY <2>4, <1>k
<1>11. ASSUME NEW k \in Commands,
              Send(k)
       PROVE  CommandInv'
  BY <1>11, EndsOfCommands, <1>c, <1>k
<1>12. ASSUME NEW m \in Machines,
              Boot(m) \/ Connect(m) \/ WriteHello(m) \/ Break(m) \/ LoseHello(m)
       PROVE  CommandInv'
  BY <1>12, <1>k DEF Boot, Connect, WriteHello, Break, LoseHello, daemonVars, netVars
<1>13. ASSUME NEW m \in Machines,
              Halt(m)
       PROVE  CommandInv'
  BY <1>13, EndsOfCommands, <1>c, <1>k
<1>14. ASSUME NEW c \in DOMAIN machine,
              LookUp(c) \/ ServeLooked(c) \/ Drop(c)
       PROVE  CommandInv'
  BY <1>14, <1>k DEF LookUp, ServeLooked, Drop, Accepted, serve, daemonVars, netVars
<1>15. ASSUME UNCHANGED vars PROVE CommandInv'
  BY <1>15, <1>k DEF vars, netVars, daemonVars
<1> QED BY <1>1, <1>2, <1>3, <1>4, <1>5, <1>6, <1>7, <1>8, <1>9, <1>10, <1>11, <1>12, <1>13,
           <1>14, <1>15 DEF Next

\* A claim that was looked up was good then.
LEMMA LookedInvStep == ASSUME IInv, [Next]_vars PROVE LookedInv'
<1>0. TypeOK /\ TypeOK' /\ LookedInv
  BY TypeStep DEF IInv
<1> USE <1>0 DEF LookedInv
<1>1. ASSUME NEW k \in Commands, NEW m \in Machines, NEW n \in Names,
              Load(k, m, n)
       PROVE  LookedInv'
  BY <1>1 DEF Load, Begin, daemonVars, netVars
<1>2. ASSUME NEW k \in Commands,
              BeginSave(k) \/ EndSave(k) \/ Change(k) \/ Fails(k) \/ List(k) \/ Store(k)
                 \/ MakeHello(k) \/ Send(k)
       PROVE  LookedInv'
  BY <1>2 DEF BeginSave, EndSave, Change, Fails, List, Store, MakeHello, Send, Goto, Collide, Done,
     daemonVars, netVars
<1>3. ASSUME NEW k \in Commands, NEW m \in Machines, NEW n \in Names,
              Reserve(k, m, n)
       PROVE  LookedInv'
  <2>1. UNCHANGED <<machine, looked, late>> /\ record[n] = 0
        /\ \A x \in Names : x # n => record'[x] = record[x]
    BY <1>3 DEF Reserve, netVars, TypeOK, Hello
  <2> QED BY <2>1
<1>4. ASSUME NEW k \in Commands,
              Release(k)
       PROVE  LookedInv'
  <2>1. UNCHANGED <<machine, looked>> /\ record \in [Names -> Entry]
    BY <1>4 DEF Release, netVars, TypeOK, Hello
  <2>2. \A n \in Names : \/ record'[n] = record[n]
                         \/ /\ n = cmd[k].name /\ record'[n] = 0
                            /\ \A c \in DOMAIN machine : looked[c] # <<>> /\ Head(looked[c])[n] = record[n] => n \in late'
    BY <1>4, <2>1 DEF Release
  <2>3. late \subseteq late'
    BY <1>4 DEF Release
  <2> QED BY <2>1, <2>2, <2>3
<1>5. ASSUME NEW m \in Machines,
              Boot(m) \/ Halt(m) \/ WriteHello(m) \/ Break(m) \/ LoseHello(m)
       PROVE  LookedInv'
  BY <1>5 DEF Boot, Halt, WriteHello, Break, LoseHello, daemonVars, netVars
<1>6. ASSUME NEW m \in Machines,
              Connect(m)
       PROVE  LookedInv'
  <2>1. /\ DOMAIN machine = 1 .. Len(machine) /\ DOMAIN machine' = 1 .. Len(machine) + 1 /\ Len(machine) \in Nat
        /\ looked \in [1 .. Len(machine) -> Seq(Hello)] /\ looked' = Append(looked, <<>>)
    BY <1>6 DEF Connect, TypeOK
  <2>2. looked'[Len(machine) + 1] = <<>> /\ \A d \in 1 .. Len(machine) : looked'[d] = looked[d]
    BY <2>1, EmptyAppended
  <2>3. \A d \in DOMAIN machine' : d \in DOMAIN machine \/ d = Len(machine) + 1
    BY <2>1
  <2>4. UNCHANGED <<record, late>>
    BY <1>6 DEF Connect
  <2> QED BY <2>1, <2>2, <2>3, <2>4
<1>7. ASSUME NEW c \in DOMAIN machine,
              Drop(c)
       PROVE  LookedInv'
  BY <1>7 DEF Drop, daemonVars, netVars
<1>8. ASSUME NEW c \in DOMAIN machine,
              LookUp(c)
       PROVE  LookedInv'
  <2> DEFINE h == Accepted(Head(wire[c]))
  <2>1. \A n \in Names : h[n] \in {0, record[n]}
    BY DEF Accepted
  <2>2. Head(<<h>>) = h
    OBVIOUS
  <2>3. /\ looked'[c] = <<h>> /\ \A d \in DOMAIN machine : d # c => looked'[d] = looked[d]
        /\ UNCHANGED <<machine, record, late>>
    BY <1>8 DEF LookUp, TypeOK
  <2> HIDE DEF h
  <2> QED BY <2>1, <2>2, <2>3
<1>9. ASSUME NEW c \in DOMAIN machine,
              ServeLooked(c)
       PROVE  LookedInv'
  <2>1. /\ looked'[c] = <<>> /\ \A d \in DOMAIN machine : d # c => looked'[d] = looked[d]
        /\ UNCHANGED <<machine, record, late>>
    BY <1>9 DEF ServeLooked, TypeOK
  <2> QED BY <2>1
<1>10. ASSUME UNCHANGED vars PROVE LookedInv'
  BY <1>10 DEF vars, netVars, daemonVars
<1> QED BY <1>1, <1>2, <1>3, <1>4, <1>5, <1>6, <1>7, <1>8, <1>9, <1>10 DEF Next

\* A claim that has not been saved is nowhere else.
LEMMA GrantInvStep == ASSUME IInv, [Next]_vars PROVE GrantInv'
<1>0. TypeOK /\ TypeOK' /\ GrantInv /\ DiskInv /\ CommandInv /\ MintInv
  BY TypeStep DEF IInv
<1>g. \A m \in Machines, n \in Names : \A e \in Good[m][n] : e <= minted
  BY <1>0 DEF Good, TypeOK
<1>c. ASSUME UNCHANGED <<cmd, record, file>> PROVE GrantInv'
  BY <1>0, <1>c DEF GrantInv, Doing
<1>d. \A l \in Commands : /\ Doing(l, {"granted", "creating"}) => cmd[l] # Idle /\ cmd[l].name \in Names
                          /\ Doing(l, {"granted", "creating"})' => cmd'[l] # Idle
  <2>1. \A l \in Commands : Doing(l, {"granted", "creating"}) => cmd[l] # Idle
    BY DEF Doing, Idle
  <2>2. \A l \in Commands : Doing(l, {"granted", "creating"})' => cmd'[l] # Idle
    BY DEF Doing, Idle
  <2>3. \A l \in Commands : cmd[l] # Idle => cmd[l].name \in Names
    BY <1>0, CommandFacts
  <2> QED BY <2>1, <2>2, <2>3
<1> USE <1>0 DEF GrantInv, SameCommand
<1>1. ASSUME NEW k \in Commands, NEW m \in Machines, NEW n \in Names,
              Reserve(k, m, n)
       PROVE  GrantInv'
  <2>1. minted + 1 \in Entry /\ minted \in Nat
    BY <1>1 DEF Reserve, TypeOK, Entry, Claim
  <2>2. /\ cmd[k] = Idle /\ cmd'[k].name = n /\ cmd'[k].claim = minted + 1 /\ cmd'[k].step = "granted"
        /\ \A l \in Commands \ {k} : cmd'[l] = cmd[l]
    BY <1>1, <2>1, BeginFacts DEF Reserve
  <2>3. record[n] = 0 /\ record' = [record EXCEPT ![n] = minted + 1] /\ UNCHANGED file
    BY <1>1 DEF Reserve
  <2>4. \A i \in Machines, x \in Names : file[i][x] # minted + 1
    BY <2>1, <1>g DEF DiskInv, Torn
  <2>5. \A l \in Commands : cmd[l] # Idle => cmd[l].claim # minted + 1
    BY <2>1, <1>g, CommandFacts DEF CommandInv
  <2>6. \A l \in Commands : Doing(l, {"granted", "creating"}) => cmd[l] # Idle /\ cmd[l].name # n
    BY <2>3, CommandFacts DEF Doing, Idle
  <2>7. ASSUME NEW l \in Commands, l # k, Doing(l, {"granted", "creating"})'
        PROVE  /\ cmd'[l].claim # 0 /\ record'[cmd'[l].name] = cmd'[l].claim
               /\ \A i \in Machines, x \in Names : file'[i][x] # cmd'[l].claim
               /\ \A j \in Commands \ {l} : cmd'[j] # Idle => cmd'[j].claim # cmd'[l].claim
    <3>1. cmd'[l] = cmd[l] /\ Doing(l, {"granted", "creating"})
      BY <2>2, <2>7 DEF Doing
    <3>2. record'[cmd[l].name] = cmd[l].claim /\ cmd[l].claim # 0 /\ cmd[l] # Idle
      BY <2>3, <2>6, <3>1, CommandFacts DEF TypeOK, Hello
    <3>3. \A j \in Commands \ {l} : cmd'[j] # Idle => cmd'[j].claim # cmd[l].claim
      BY <2>2, <2>5, <3>1, <3>2
    <3> QED BY <2>3, <3>1, <3>2, <3>3
  <2>8. record'[n] = minted + 1 /\ minted + 1 # 0
    BY <2>1, <2>3 DEF TypeOK, Hello
  <2> QED BY <2>2, <2>3, <2>4, <2>5, <2>7, <2>8 DEF Doing
<1>2. ASSUME NEW k \in Commands, NEW m \in Machines, NEW n \in Names,
              Load(k, m, n)
       PROVE  GrantInv'
  <2>1. file[m][n] \in Entry
    BY <1>2 DEF Load, Entry
  <2>2. /\ cmd[k] = Idle /\ cmd'[k].claim = file[m][n] /\ cmd'[k].step = "loaded"
        /\ \A l \in Commands \ {k} : cmd'[l] = cmd[l]
    BY <1>2, <2>1, BeginFacts DEF Load
  <2>3. UNCHANGED <<record, file>>
    BY <1>2 DEF Load
  <2> QED BY <2>2, <2>3 DEF Doing
<1>3. ASSUME NEW k \in Commands,
              BeginSave(k)
       PROVE  GrantInv'
  <2>1. cmd[k] # Idle /\ cmd[k].at \in Machines /\ cmd[k].name \in Names
    BY <1>3, CommandFacts DEF BeginSave, Doing, Idle
  <2>2. \A i \in Machines, x \in Names : file'[i][x] \in {file[i][x], Torn}
    <3>1. mishap \subseteq mishap' /\ UNCHANGED <<record, holder>>
      BY <1>3 DEF BeginSave
    <3>2. Writes(cmd[k].at, cmd[k].name, Torn)
      BY <1>3 DEF BeginSave, Writes
    <3>3. /\ file'[cmd[k].at][cmd[k].name] = Torn
          /\ \A i \in Machines, x \in Names :
               i # cmd[k].at \/ x # cmd[k].name => file'[i][x] = file[i][x]
      BY <2>1, <3>2, FileFacts
    <3> QED BY <3>1, <3>3
  <2>3. \A l \in Commands : Doing(l, {"granted", "creating"}) => cmd[l].claim # Torn /\ cmd[l] # Idle
    BY CommandFacts DEF Doing, Idle, Torn, Entry, Claim
  <2>4. \A l \in Commands : SameCommand(l) /\ (Doing(l, {"granted", "creating"})' => Doing(l, {"granted", "creating"}))
    <3>1. \/ Goto(k, "creating") /\ Doing(k, {"granted"})
          \/ Goto(k, "changing")
      BY <1>3 DEF BeginSave
    <3>2. \A l \in Commands : Doing(l, {"granted", "creating"})' => Doing(l, {"granted", "creating"})
      BY <3>1, <2>1, GotoFacts DEF Doing
    <3> QED BY <1>3, <3>2, StepsOfCommands
  <2>5. UNCHANGED record
    BY <1>3 DEF BeginSave
  <2> QED BY <2>2, <2>3, <2>4, <2>5, <1>d
<1>4. ASSUME NEW k \in Commands,
              EndSave(k)
       PROVE  GrantInv'
  <2>1. cmd[k] # Idle /\ cmd[k].at \in Machines /\ cmd[k].name \in Names
    BY <1>4, CommandFacts DEF EndSave, Doing, Idle
  <2>2. \A i \in Machines, x \in Names : file'[i][x] \in {file[i][x], cmd[k].claim}
    <3>1. mishap \subseteq mishap' /\ UNCHANGED <<record, holder>>
      BY <1>4 DEF EndSave
    <3>2. Writes(cmd[k].at, cmd[k].name, cmd[k].claim)
      BY <1>4 DEF EndSave, Writes
    <3>3. /\ file'[cmd[k].at][cmd[k].name] = cmd[k].claim
          /\ \A i \in Machines, x \in Names :
               i # cmd[k].at \/ x # cmd[k].name => file'[i][x] = file[i][x]
      BY <2>1, <3>2, FileFacts
    <3> QED BY <3>1, <3>3
  <2>3. \A l \in Commands : Doing(l, {"granted", "creating"})' => l # k /\ Doing(l, {"granted", "creating"})
    <3>1. Done(k) \/ Goto(k, "changed")
      BY <1>4 DEF EndSave
    <3>2. ASSUME Done(k) PROVE \A l \in Commands : cmd'[l] = IF l = k THEN Idle ELSE cmd[l]
      BY <3>2 DEF Done, TypeOK
    <3> QED BY <3>1, <3>2, <2>1, GotoFacts DEF Doing, Idle
  <2>4. \A l \in Commands : SameCommand(l)
    BY <1>4, StepsOfCommands
  <2>5. UNCHANGED record
    BY <1>4 DEF EndSave
  <2> QED BY <2>1, <2>2, <2>3, <2>4, <2>5, <1>d
<1>5. ASSUME NEW k \in Commands,
              Change(k)
       PROVE  GrantInv'
  <2>1. \A l \in Commands : SameCommand(l)
    BY <1>5, StepsOfCommands
  <2>2. \A l \in Commands : Doing(l, {"granted", "creating"})' => Doing(l, {"granted", "creating"})
    BY <1>5, CommandFacts, GotoFacts DEF Change, Doing, Idle
  <2>3. UNCHANGED <<record, file>>
    BY <1>5 DEF Change
  <2> QED BY <2>1, <2>2, <2>3, <1>d
<1>6. ASSUME NEW k \in Commands,
              Release(k)
       PROVE  GrantInv'
  <2>1. cmd[k] # Idle /\ cmd[k].name \in Names /\ Doing(k, {"loaded"}) /\ Goto(k, "asking")
    BY <1>6, CommandFacts DEF Release, Doing, Idle
  <2>2. \A l \in Commands : Doing(l, {"granted", "creating"})' => l # k /\ Doing(l, {"granted", "creating"})
    BY <2>1, GotoFacts DEF Doing
  <2>3. \A l \in Commands : SameCommand(l)
    BY <1>6, StepsOfCommands
  <2>4. record[cmd[k].name] = cmd[k].claim /\ UNCHANGED file
        /\ \A x \in Names : x # cmd[k].name => record'[x] = record[x]
    BY <1>6 DEF Release, TypeOK, Hello
  <2>5. \A l \in Commands : Doing(l, {"granted", "creating"}) /\ l # k => cmd[l].name # cmd[k].name
    BY <2>1, <2>4
  <2> QED BY <2>2, <2>3, <2>4, <2>5, <1>d
<1>7. ASSUME NEW k \in Commands,
              Fails(k)
       PROVE  GrantInv'
  <2>1. \A l \in Commands : SameCommand(l)
    BY <1>7, EndsOfCommands DEF SameCommand
  <2>2. \A l \in Commands : Doing(l, {"granted", "creating"})' => Doing(l, {"granted", "creating"})
    BY <1>7, EndsOfCommands DEF Doing, Idle
  <2>3. UNCHANGED <<record, file>>
    BY <1>7 DEF Fails
  <2> QED BY <2>1, <2>2, <2>3, <1>d
<1>8. ASSUME NEW k \in Commands,
              List(k)
       PROVE  GrantInv'
  <2>1. \A l \in Commands : SameCommand(l)
    BY <1>8, ListSteps DEF SameCommand
  <2>2. \A l \in Commands : Doing(l, {"granted", "creating"})' => Doing(l, {"granted", "creating"})
    BY <1>8, ListSteps
  <2>3. UNCHANGED <<record, file>>
    BY <1>8 DEF List
  <2> QED BY <2>1, <2>2, <2>3, <1>d
<1>9. ASSUME NEW k \in Commands,
              Store(k)
       PROVE  GrantInv'
  <2>1. \A l \in Commands : SameCommand(l)
    BY <1>9, StepsOfCommands
  <2>2. \A l \in Commands : Doing(l, {"granted", "creating"})' => Doing(l, {"granted", "creating"})
    BY <1>9, CommandFacts, GotoFacts DEF Store, Doing, Idle
  <2>3. UNCHANGED <<record, file>>
    BY <1>9 DEF Store
  <2> QED BY <2>1, <2>2, <2>3, <1>d
<1>10. ASSUME NEW k \in Commands,
              MakeHello(k)
       PROVE  GrantInv'
  <2>1. \A l \in Commands : SameCommand(l)
    BY <1>10, ListSteps DEF SameCommand
  <2>2. \A l \in Commands : Doing(l, {"granted", "creating"})' => Doing(l, {"granted", "creating"})
    BY <1>10, ListSteps
  <2>3. UNCHANGED <<record, file>>
    BY <1>10 DEF MakeHello
  <2> QED BY <2>1, <2>2, <2>3, <1>d
<1>11. ASSUME NEW k \in Commands,
              Send(k)
       PROVE  GrantInv'
  <2>1. \A l \in Commands : SameCommand(l)
    BY <1>11, EndsOfCommands DEF SameCommand
  <2>2. \A l \in Commands : Doing(l, {"granted", "creating"})' => Doing(l, {"granted", "creating"})
    BY <1>11, EndsOfCommands DEF Doing, Idle
  <2>3. UNCHANGED <<record, file>>
    BY <1>11 DEF Send
  <2> QED BY <2>1, <2>2, <2>3, <1>d
<1>12. ASSUME NEW m \in Machines,
              Boot(m) \/ Connect(m) \/ WriteHello(m) \/ Break(m) \/ LoseHello(m)
       PROVE  GrantInv'
  BY <1>12, <1>c DEF Boot, Connect, WriteHello, Break, LoseHello, daemonVars, netVars
<1>13. ASSUME NEW m \in Machines,
              Halt(m)
       PROVE  GrantInv'
  <2>1. \A l \in Commands : SameCommand(l)
    BY <1>13, EndsOfCommands DEF SameCommand
  <2>2. \A l \in Commands : Doing(l, {"granted", "creating"})' => Doing(l, {"granted", "creating"})
    BY <1>13, EndsOfCommands DEF Doing, Idle
  <2>3. UNCHANGED <<record, file>>
    BY <1>13 DEF Halt
  <2> QED BY <2>1, <2>2, <2>3, <1>d
<1>14. ASSUME NEW c \in DOMAIN machine,
              LookUp(c) \/ ServeLooked(c) \/ Drop(c)
       PROVE  GrantInv'
  BY <1>14, <1>c DEF LookUp, ServeLooked, Drop, Accepted, serve, daemonVars, netVars
<1>15. ASSUME UNCHANGED vars PROVE GrantInv'
  BY <1>15, <1>c DEF vars, netVars, daemonVars
<1> QED BY <1>1, <1>2, <1>3, <1>4, <1>5, <1>6, <1>7, <1>8, <1>9, <1>10, <1>11, <1>12, <1>13,
           <1>14, <1>15 DEF Next

\* What a command has loaded, or emptied, is there.
LEMMA SaveInvStep == ASSUME IInv, [Next]_vars PROVE SaveInv'
<1>0. TypeOK /\ TypeOK' /\ SaveInv
  BY TypeStep DEF IInv
<1>d. ASSUME file' = file, mishap \subseteq mishap', cmd' = cmd PROVE SaveInv'
  BY <1>0, <1>d DEF SaveInv, Doing
<1> USE <1>0
<1>1. ASSUME NEW k \in Commands, NEW m \in Machines, NEW n \in Names,
              Reserve(k, m, n)
       PROVE  SaveInv'
  <2>0. minted + 1 \in Entry
    BY <1>1 DEF Reserve, TypeOK, Entry, Claim
  <2>1. cmd'[k].step = "granted" /\ \A l \in Commands \ {k} : cmd'[l] = cmd[l]
    BY <1>1, <2>0, BeginFacts DEF Reserve
  <2>2. UNCHANGED <<file, mishap>>
    BY <1>1 DEF Reserve
  <2> QED BY <2>1, <2>2 DEF SaveInv, Doing
<1>2. ASSUME NEW k \in Commands, NEW m \in Machines, NEW n \in Names,
              Load(k, m, n)
       PROVE  SaveInv'
  <2>0. file[m][n] \in Entry
    BY <1>2 DEF Load, Entry
  <2>1. /\ cmd'[k].step = "loaded" /\ cmd'[k].at = m /\ cmd'[k].name = n /\ cmd'[k].claim = file[m][n]
        /\ \A l \in Commands \ {k} : cmd'[l] = cmd[l]
    BY <1>2, <2>0, BeginFacts DEF Load
  <2>2. UNCHANGED <<file, mishap>>
    BY <1>2 DEF Load
  <2> QED BY <2>1, <2>2 DEF SaveInv, Doing
<1>3. ASSUME NEW k \in Commands,
              BeginSave(k)
       PROVE  SaveInv'
  <2> DEFINE m == cmd[k].at
             n == cmd[k].name
  <2>1. cmd[k] # Idle /\ m \in Machines /\ n \in Names
    BY <1>3, CommandFacts DEF BeginSave, Doing, Idle
  <2>2. \A l \in Commands : SameCommand(l)
    BY <1>3, StepsOfCommands
  <2>3. Goto(k, "creating") \/ Goto(k, "changing")
    BY <1>3 DEF BeginSave
  <2>4. \A l \in Commands \ {k} : cmd'[l] = cmd[l]
    BY <2>1, <2>3, GotoFacts DEF Done, TypeOK
  <2>5. ~Doing(k, {"loaded"})'
    <3>1. ASSUME Done(k) PROVE cmd'[k].step = "idle"
      BY <3>1 DEF Done, Idle, TypeOK
    <3> QED BY <2>1, <2>3, <3>1, GotoFacts DEF Doing
  <2>6. /\ \A i \in Machines, x \in Names : i # m \/ x # n => file'[i][x] = file[i][x]
        /\ mishap \subseteq mishap' /\ file'[m][n] = Torn
    <3>1. mishap \subseteq mishap' /\ UNCHANGED <<record, holder>>
      BY <1>3 DEF BeginSave
    <3>2. Writes(cmd[k].at, cmd[k].name, Torn)
      BY <1>3 DEF BeginSave, Writes
    <3>3. /\ file'[cmd[k].at][cmd[k].name] = Torn
          /\ \A i \in Machines, x \in Names :
               i # cmd[k].at \/ x # cmd[k].name => file'[i][x] = file[i][x]
      BY <2>1, <3>2, FileFacts
    <3> QED BY <3>1, <3>3
  <2>7. ASSUME NEW l \in Commands \ {k}, cmd[l] # Idle, cmd[l].at = m, cmd[l].name = n PROVE n \in mishap'
    BY <1>3, <2>7 DEF BeginSave, Collide
  <2>8. ASSUME NEW l \in Commands \ {k}, cmd'[l] # Idle
        PROVE  /\ Doing(l, {"loaded"})' => file'[cmd'[l].at][cmd'[l].name] = cmd'[l].claim \/ cmd'[l].name \in mishap'
               /\ Doing(l, {"creating", "changing"})' => file'[cmd'[l].at][cmd'[l].name] = Torn \/ cmd'[l].name \in mishap'
    <3>1. /\ cmd'[l] = cmd[l] /\ cmd[l] # Idle /\ cmd[l].at \in Machines /\ cmd[l].name \in Names
          /\ \A S : Doing(l, S)' => Doing(l, S)
      BY <2>4, <2>8, CommandFacts DEF Doing
    <3>2. CASE cmd[l].at = m /\ cmd[l].name = n
      BY <2>7, <3>1, <3>2
    <3>3. CASE cmd[l].at # m \/ cmd[l].name # n
      BY <2>6, <3>1, <3>3 DEF SaveInv
    <3> QED BY <3>2, <3>3
  <2> HIDE DEF m, n
  <2>9. cmd'[k] # Idle => cmd'[k].at = m /\ cmd'[k].name = n
    BY <2>2 DEF SameCommand, m, n
  <2> QED BY <2>5, <2>6, <2>8, <2>9 DEF SaveInv
<1>4. ASSUME NEW k \in Commands,
              EndSave(k)
       PROVE  SaveInv'
  <2> DEFINE m == cmd[k].at
             n == cmd[k].name
  <2>1. cmd[k] # Idle /\ m \in Machines /\ n \in Names
    BY <1>4, CommandFacts DEF EndSave, Doing, Idle
  <2>2. \A l \in Commands : SameCommand(l)
    BY <1>4, StepsOfCommands
  <2>3. Goto(k, "changed") \/ Done(k)
    BY <1>4 DEF EndSave
  <2>4. \A l \in Commands \ {k} : cmd'[l] = cmd[l]
    BY <2>1, <2>3, GotoFacts DEF Done, TypeOK
  <2>5. ~Doing(k, {"loaded"})' /\ ~Doing(k, {"creating", "changing"})'
    <3>1. ASSUME Done(k) PROVE cmd'[k].step = "idle"
      BY <3>1 DEF Done, Idle, TypeOK
    <3> QED BY <2>1, <2>3, <3>1, GotoFacts DEF Doing
  <2>6. /\ \A i \in Machines, x \in Names : i # m \/ x # n => file'[i][x] = file[i][x]
        /\ mishap \subseteq mishap'
    <3>1. mishap \subseteq mishap' /\ UNCHANGED <<record, holder>>
      BY <1>4 DEF EndSave
    <3>2. Writes(cmd[k].at, cmd[k].name, cmd[k].claim)
      BY <1>4 DEF EndSave, Writes
    <3>3. /\ file'[cmd[k].at][cmd[k].name] = cmd[k].claim
          /\ \A i \in Machines, x \in Names :
               i # cmd[k].at \/ x # cmd[k].name => file'[i][x] = file[i][x]
      BY <2>1, <3>2, FileFacts
    <3> QED BY <3>1, <3>3
  <2>7. ASSUME NEW l \in Commands \ {k}, cmd[l] # Idle, cmd[l].at = m, cmd[l].name = n PROVE n \in mishap'
    BY <1>4, <2>7 DEF EndSave, Collide
  <2>8. ASSUME NEW l \in Commands \ {k}, cmd'[l] # Idle
        PROVE  /\ Doing(l, {"loaded"})' => file'[cmd'[l].at][cmd'[l].name] = cmd'[l].claim \/ cmd'[l].name \in mishap'
               /\ Doing(l, {"creating", "changing"})' => file'[cmd'[l].at][cmd'[l].name] = Torn \/ cmd'[l].name \in mishap'
    <3>1. /\ cmd'[l] = cmd[l] /\ cmd[l] # Idle /\ cmd[l].at \in Machines /\ cmd[l].name \in Names
          /\ \A S : Doing(l, S)' => Doing(l, S)
      BY <2>4, <2>8, CommandFacts DEF Doing
    <3>2. CASE cmd[l].at = m /\ cmd[l].name = n
      BY <2>7, <3>1, <3>2
    <3>3. CASE cmd[l].at # m \/ cmd[l].name # n
      BY <2>6, <3>1, <3>3 DEF SaveInv
    <3> QED BY <3>2, <3>3
  <2> HIDE DEF m, n
  <2>9. cmd'[k] # Idle => cmd'[k].at = m /\ cmd'[k].name = n
    BY <2>2 DEF SameCommand, m, n
  <2> QED BY <2>5, <2>6, <2>8, <2>9 DEF SaveInv
<1>5. ASSUME NEW k \in Commands,
              Change(k)
       PROVE  SaveInv'
  <2>1. \A l \in Commands : SameCommand(l)
    BY <1>5, StepsOfCommands
  <2>2. \A l \in Commands : /\ Doing(l, {"loaded"})' => Doing(l, {"loaded"})
                            /\ Doing(l, {"creating", "changing"})' => Doing(l, {"creating", "changing"})
    BY <1>5, CommandFacts, GotoFacts DEF Change, Doing, Idle
  <2>3. UNCHANGED file /\ mishap \subseteq mishap'
    BY <1>5 DEF Change
  <2> QED BY <2>1, <2>2, <2>3 DEF SaveInv, SameCommand
<1>6. ASSUME NEW k \in Commands,
              Release(k)
       PROVE  SaveInv'
  <2>1. \A l \in Commands : SameCommand(l)
    BY <1>6, StepsOfCommands
  <2>2. \A l \in Commands : /\ Doing(l, {"loaded"})' => Doing(l, {"loaded"})
                            /\ Doing(l, {"creating", "changing"})' => Doing(l, {"creating", "changing"})
    BY <1>6, CommandFacts, GotoFacts DEF Release, Doing, Idle
  <2>3. UNCHANGED file /\ mishap \subseteq mishap'
    BY <1>6 DEF Release
  <2> QED BY <2>1, <2>2, <2>3 DEF SaveInv, SameCommand
<1>7. ASSUME NEW k \in Commands,
              Fails(k)
       PROVE  SaveInv'
  <2>1. \A l \in Commands : SameCommand(l)
    BY <1>7, EndsOfCommands DEF SameCommand
  <2>2. \A l \in Commands : /\ Doing(l, {"loaded"})' => Doing(l, {"loaded"})
                            /\ Doing(l, {"creating", "changing"})' => Doing(l, {"creating", "changing"})
    BY <1>7, EndsOfCommands DEF Doing, Idle
  <2>3. UNCHANGED file /\ mishap \subseteq mishap'
    BY <1>7 DEF Fails
  <2> QED BY <2>1, <2>2, <2>3 DEF SaveInv, SameCommand
<1>8. ASSUME NEW k \in Commands,
              List(k)
       PROVE  SaveInv'
  <2>1. \A l \in Commands : SameCommand(l)
    BY <1>8, ListSteps
  <2>2. \A l \in Commands : /\ Doing(l, {"loaded"})' => Doing(l, {"loaded"})
                            /\ Doing(l, {"creating", "changing"})' => Doing(l, {"creating", "changing"})
    BY <1>8, ListSteps
  <2>3. UNCHANGED file /\ mishap \subseteq mishap'
    BY <1>8 DEF List
  <2> QED BY <2>1, <2>2, <2>3 DEF SaveInv, SameCommand
<1>9. ASSUME NEW k \in Commands,
              Store(k)
       PROVE  SaveInv'
  <2>1. \A l \in Commands : SameCommand(l)
    BY <1>9, StepsOfCommands
  <2>2. \A l \in Commands : /\ Doing(l, {"loaded"})' => Doing(l, {"loaded"})
                            /\ Doing(l, {"creating", "changing"})' => Doing(l, {"creating", "changing"})
    BY <1>9, CommandFacts, GotoFacts DEF Store, Doing, Idle
  <2>3. UNCHANGED file /\ mishap \subseteq mishap'
    BY <1>9 DEF Store
  <2> QED BY <2>1, <2>2, <2>3 DEF SaveInv, SameCommand
<1>10. ASSUME NEW k \in Commands,
              MakeHello(k)
       PROVE  SaveInv'
  <2>1. \A l \in Commands : SameCommand(l)
    BY <1>10, ListSteps
  <2>2. \A l \in Commands : /\ Doing(l, {"loaded"})' => Doing(l, {"loaded"})
                            /\ Doing(l, {"creating", "changing"})' => Doing(l, {"creating", "changing"})
    BY <1>10, ListSteps
  <2>3. UNCHANGED file /\ mishap \subseteq mishap'
    BY <1>10 DEF MakeHello
  <2> QED BY <2>1, <2>2, <2>3 DEF SaveInv, SameCommand
<1>11. ASSUME NEW k \in Commands,
              Send(k)
       PROVE  SaveInv'
  <2>1. \A l \in Commands : SameCommand(l)
    BY <1>11, EndsOfCommands DEF SameCommand
  <2>2. \A l \in Commands : /\ Doing(l, {"loaded"})' => Doing(l, {"loaded"})
                            /\ Doing(l, {"creating", "changing"})' => Doing(l, {"creating", "changing"})
    BY <1>11, EndsOfCommands DEF Doing, Idle
  <2>3. UNCHANGED file /\ mishap \subseteq mishap'
    BY <1>11 DEF Send
  <2> QED BY <2>1, <2>2, <2>3 DEF SaveInv, SameCommand
<1>12. ASSUME NEW m \in Machines,
              Boot(m) \/ Connect(m) \/ WriteHello(m) \/ Break(m) \/ LoseHello(m)
       PROVE  SaveInv'
  BY <1>12, <1>d DEF Boot, Connect, WriteHello, Break, LoseHello, daemonVars, netVars
<1>13. ASSUME NEW m \in Machines,
              Halt(m)
       PROVE  SaveInv'
  <2>1. \A l \in Commands : SameCommand(l)
    BY <1>13, EndsOfCommands DEF SameCommand
  <2>2. \A l \in Commands : /\ Doing(l, {"loaded"})' => Doing(l, {"loaded"})
                            /\ Doing(l, {"creating", "changing"})' => Doing(l, {"creating", "changing"})
    BY <1>13, EndsOfCommands DEF Doing, Idle
  <2>3. UNCHANGED file /\ mishap \subseteq mishap'
    BY <1>13 DEF Halt
  <2> QED BY <2>1, <2>2, <2>3 DEF SaveInv, SameCommand
<1>14. ASSUME NEW c \in DOMAIN machine,
              LookUp(c) \/ ServeLooked(c) \/ Drop(c)
       PROVE  SaveInv'
  BY <1>14, <1>d DEF LookUp, ServeLooked, Drop, Accepted, serve, daemonVars, netVars
<1>15. ASSUME UNCHANGED vars PROVE SaveInv'
  BY <1>15, <1>d DEF vars, netVars, daemonVars
<1> QED BY <1>1, <1>2, <1>3, <1>4, <1>5, <1>6, <1>7, <1>8, <1>9, <1>10, <1>11, <1>12, <1>13,
           <1>14, <1>15 DEF Next

\* No claim is lost without a mishap.
LEMMA ClaimIsKeptStep == ASSUME IInv, [Next]_vars PROVE ClaimIsKept'
<1>0. TypeOK /\ TypeOK' /\ ClaimIsKept /\ CommandInv /\ GrantInv /\ SaveInv /\ MintInv
  BY TypeStep DEF IInv
<1>h. \A x \in Names : record[x] # 0 => /\ record[x] \in 1 .. minted /\ holder[record[x]] \in Machines
                                        /\ record[x] # Torn
  BY <1>0 DEF TypeOK, Hello, Entry, Claim, MintInv, Torn
<1>u. \A x \in Names : record[x] # 0 =>
        \/ file[holder[record[x]]][x] = record[x]
        \/ \E l \in Commands : Saving(l) /\ cmd[l].name = x /\ cmd[l].claim = record[x]
        \/ x \in mishap
  BY <1>0 DEF ClaimIsKept, Saving
<1>t. ASSUME \A x \in Names : record'[x] # 0 =>
               \/ file'[holder'[record'[x]]][x] = record'[x]
               \/ \E l \in Commands : Saving(l)' /\ cmd'[l].name = x /\ cmd'[l].claim = record'[x]
               \/ x \in mishap'
      PROVE  ClaimIsKept'
  BY <1>t DEF ClaimIsKept, Saving
<1>s. ASSUME UNCHANGED <<file, holder>>, mishap \subseteq mishap', \A x \in Names : record'[x] \in {0, record[x]},
             \A l \in Commands : Saving(l) => cmd'[l] = cmd[l]
      PROVE  ClaimIsKept'
  <2>1. \A l \in Commands : Saving(l) => Saving(l)' /\ cmd'[l] = cmd[l]
    BY <1>s DEF Saving, Doing
  <2>2. \A x \in Names : record'[x] # 0 =>
               \/ file'[holder'[record'[x]]][x] = record'[x]
               \/ \E l \in Commands : Saving(l)' /\ cmd'[l].name = x /\ cmd'[l].claim = record'[x]
               \/ x \in mishap'
    BY <2>1, <1>s, <1>u
  <2> QED BY <2>2, <1>t
<1>q. ASSUME UNCHANGED <<file, holder, record, cmd>>, mishap \subseteq mishap' PROVE ClaimIsKept'
  BY <1>q, <1>s
<1> USE <1>0
<1>1. ASSUME NEW k \in Commands, NEW m \in Machines, NEW n \in Names,
              Reserve(k, m, n)
       PROVE  ClaimIsKept'
  <2>1. minted + 1 \in Entry /\ minted \in Nat /\ holder \in [1 .. minted -> Machines] /\ holder' = Append(holder, m)
    BY <1>1 DEF Reserve, TypeOK, Entry, Claim
  <2>2. /\ cmd[k] = Idle /\ cmd'[k] # Idle /\ cmd'[k].name = n /\ cmd'[k].claim = minted + 1 /\ cmd'[k].step = "granted"
        /\ \A l \in Commands \ {k} : cmd'[l] = cmd[l]
    BY <1>1, <2>1, BeginFacts DEF Reserve
  <2>3. /\ UNCHANGED <<file, mishap>> /\ record'[n] = minted + 1
        /\ \A x \in Names : x # n => record'[x] = record[x]
    BY <1>1 DEF Reserve, TypeOK, Hello
  <2>4. \A i \in 1 .. minted : holder'[i] = holder[i]
    BY <2>1, AppendFacts
  <2>5. ASSUME NEW x \in Names, x # n, record[x] # 0
        PROVE  \/ file'[holder'[record[x]]][x] = record[x]
               \/ \E l \in Commands : Saving(l)' /\ cmd'[l].name = x /\ cmd'[l].claim = record[x]
               \/ x \in mishap'
    <3>1. holder'[record[x]] = holder[record[x]]
      BY <2>4, <2>5, <1>h
    <3>2. \A l \in Commands : Saving(l) => l # k
      BY <2>2 DEF Saving
    <3>3. \A l \in Commands : Saving(l) => Saving(l)' /\ cmd'[l] = cmd[l]
      BY <2>2, <3>2 DEF Saving, Doing
    <3> QED BY <2>3, <2>5, <3>1, <3>3, <1>u
  <2>6. Saving(k)'
    BY <2>2 DEF Saving, Doing
  <2> QED BY <2>2, <2>3, <2>5, <2>6, <1>t
<1>2. ASSUME NEW k \in Commands, NEW m \in Machines, NEW n \in Names,
              Load(k, m, n)
       PROVE  ClaimIsKept'
  <2>0. file[m][n] \in Entry
    BY <1>2 DEF Load, Entry
  <2>1. cmd[k] = Idle /\ \A l \in Commands \ {k} : cmd'[l] = cmd[l]
    BY <1>2, <2>0, BeginFacts DEF Load
  <2>2. \A l \in Commands : Saving(l) => cmd'[l] = cmd[l]
    BY <2>1 DEF Saving
  <2>3. UNCHANGED <<file, holder, mishap, record>>
    BY <1>2 DEF Load
  <2> QED BY <2>2, <2>3, <1>s
<1>3. ASSUME NEW k \in Commands,
              BeginSave(k)
       PROVE  ClaimIsKept'
  <2> DEFINE m == cmd[k].at
             n == cmd[k].name
             e == cmd[k].claim
  <2>1. cmd[k] # Idle /\ m \in Machines /\ n \in Names /\ e \in Entry
    BY <1>3, CommandFacts DEF BeginSave, Doing, Idle
  <2>2. /\ \A i \in Machines, x \in Names : i # m \/ x # n => file'[i][x] = file[i][x]
        /\ mishap \subseteq mishap' /\ UNCHANGED <<record, holder>>
    <3>1. mishap \subseteq mishap' /\ UNCHANGED <<record, holder>>
      BY <1>3 DEF BeginSave
    <3>2. Writes(cmd[k].at, cmd[k].name, Torn)
      BY <1>3 DEF BeginSave, Writes
    <3>3. /\ file'[cmd[k].at][cmd[k].name] = Torn
          /\ \A i \in Machines, x \in Names :
               i # cmd[k].at \/ x # cmd[k].name => file'[i][x] = file[i][x]
      BY <2>1, <3>2, FileFacts
    <3> QED BY <3>1, <3>3
  <2>3. (Goto(k, "creating") /\ Doing(k, {"granted"})) \/ (Goto(k, "changing") /\ Doing(k, {"loaded"}))
    <3>1. CASE Doing(k, {"granted"})
      BY <1>3, <3>1 DEF BeginSave
    <3>2. CASE ~Doing(k, {"granted"})
      BY <1>3, <3>2 DEF BeginSave, Doing
    <3> QED BY <3>1, <3>2
  <2>4. \A l \in Commands \ {k} : cmd'[l] = cmd[l]
    BY <2>1, <2>3, GotoFacts DEF Done, TypeOK
  <2> SUFFICES ASSUME NEW x \in Names, record[x] # 0, x \notin mishap
               PROVE  \/ file'[holder[record[x]]][x] = record[x]
                      \/ \E l \in Commands : Saving(l)' /\ cmd'[l].name = x /\ cmd'[l].claim = record[x]
                      \/ x \in mishap'
    BY <2>2, <1>t
  <2>5. holder[record[x]] \in Machines
    BY <1>h
  <2>6. CASE \E l \in Commands \ {k} : Saving(l) /\ cmd[l].name = x /\ cmd[l].claim = record[x]
    BY <2>4, <2>6 DEF Saving, Doing
  <2>7. Saving(k)' /\ cmd'[k].name = n /\ cmd'[k].claim = e
    BY <2>1, <2>3, GotoFacts DEF Saving, Doing
  <2>8. CASE Saving(k) /\ n = x /\ e = record[x]
    BY <2>7, <2>8
  <2>9. CASE file[holder[record[x]]][x] = record[x]
    <3>1. CASE holder[record[x]] # m \/ x # n
      BY <2>2, <2>5, <2>9, <3>1
    <3>2. CASE holder[record[x]] = m /\ x = n /\ Doing(k, {"loaded"})
      BY <2>1, <2>7, <2>9, <3>2 DEF SaveInv
    <3>3. CASE holder[record[x]] = m /\ x = n /\ Doing(k, {"granted"})
      <4>1. Doing(k, {"granted", "creating"})
        BY <3>3 DEF Doing
      <4>2. record[n] = e /\ file[m][n] # e
        BY <2>1, <4>1 DEF GrantInv
      <4> QED BY <2>9, <3>3, <4>2
    <3> QED BY <2>3, <3>1, <3>2, <3>3
  <2> HIDE DEF m, n, e
  <2> QED BY <2>6, <2>8, <2>9, <1>u DEF m, n, e
<1>4. ASSUME NEW k \in Commands,
              EndSave(k)
       PROVE  ClaimIsKept'
  <2> DEFINE m == cmd[k].at
             n == cmd[k].name
             e == cmd[k].claim
  <2>1. cmd[k] # Idle /\ m \in Machines /\ n \in Names /\ e \in Entry
    BY <1>4, CommandFacts DEF EndSave, Doing, Idle
  <2>2. /\ \A i \in Machines, x \in Names : i # m \/ x # n => file'[i][x] = file[i][x]
        /\ mishap \subseteq mishap' /\ UNCHANGED <<record, holder>> /\ file'[m][n] = e
    <3>1. mishap \subseteq mishap' /\ UNCHANGED <<record, holder>>
      BY <1>4 DEF EndSave
    <3>2. Writes(cmd[k].at, cmd[k].name, cmd[k].claim)
      BY <1>4 DEF EndSave, Writes
    <3>3. /\ file'[cmd[k].at][cmd[k].name] = cmd[k].claim
          /\ \A i \in Machines, x \in Names :
               i # cmd[k].at \/ x # cmd[k].name => file'[i][x] = file[i][x]
      BY <2>1, <3>2, FileFacts
    <3> QED BY <3>1, <3>3
  <2>3. Goto(k, "changed") \/ Done(k)
    BY <1>4 DEF EndSave
  <2>4. \A l \in Commands \ {k} : cmd'[l] = cmd[l]
    BY <2>1, <2>3, GotoFacts DEF Done, TypeOK
  <2> SUFFICES ASSUME NEW x \in Names, record[x] # 0, x \notin mishap
               PROVE  \/ file'[holder[record[x]]][x] = record[x]
                      \/ \E l \in Commands : Saving(l)' /\ cmd'[l].name = x /\ cmd'[l].claim = record[x]
                      \/ x \in mishap'
    BY <2>2, <1>t
  <2>5. holder[record[x]] \in Machines
    BY <1>h
  <2>6. CASE \E l \in Commands \ {k} : Saving(l) /\ cmd[l].name = x /\ cmd[l].claim = record[x]
    BY <2>4, <2>6 DEF Saving, Doing
  <2>7. Doing(k, {"creating", "changing"}) /\ e \in Good[m][n]
    BY <1>4, <2>1 DEF EndSave, CommandInv
  <2>8. CASE n = x /\ e = record[x]
    <3>1. holder[e] = m
      BY <2>1, <2>7, <2>8 DEF Good
    <3> QED BY <2>2, <2>8, <3>1
  <2>9. CASE file[holder[record[x]]][x] = record[x]
    <3>1. CASE holder[record[x]] # m \/ x # n
      BY <2>2, <2>5, <2>9, <3>1
    <3>2. CASE holder[record[x]] = m /\ x = n
      <4>1. file[m][n] = Torn
        BY <2>1, <2>7, <3>2 DEF SaveInv
      <4> QED BY <2>9, <3>2, <4>1, <1>h
    <3> QED BY <3>1, <3>2
  <2> HIDE DEF m, n, e
  <2> QED BY <2>6, <2>8, <2>9, <1>u DEF m, n, e
<1>5. ASSUME NEW k \in Commands,
              Change(k)
       PROVE  ClaimIsKept'
  <2>1. \A l \in Commands : Saving(l) => cmd'[l] = cmd[l]
    <3>1. cmd[k] # Idle /\ ~Saving(k)
      BY <1>5, CommandFacts DEF Change, Saving, Doing, Idle
    <3>2. \A l \in Commands \ {k} : cmd'[l] = cmd[l]
      BY <1>5, <3>1, GotoFacts DEF Change
    <3> QED BY <3>1, <3>2
  <2>2. UNCHANGED <<file, holder>> /\ mishap \subseteq mishap' /\ \A n \in Names : record'[n] \in {0, record[n]}
    BY <1>5 DEF Change, TypeOK, Hello
  <2> QED BY <2>1, <2>2, <1>s
<1>6. ASSUME NEW k \in Commands,
              Release(k)
       PROVE  ClaimIsKept'
  <2>1. \A l \in Commands : Saving(l) => cmd'[l] = cmd[l]
    <3>1. cmd[k] # Idle /\ ~Saving(k)
      BY <1>6, CommandFacts DEF Release, Saving, Doing, Idle
    <3>2. \A l \in Commands \ {k} : cmd'[l] = cmd[l]
      BY <1>6, <3>1, GotoFacts DEF Release
    <3> QED BY <3>1, <3>2
  <2>2. UNCHANGED <<file, holder>> /\ mishap \subseteq mishap' /\ \A n \in Names : record'[n] \in {0, record[n]}
    BY <1>6 DEF Release, TypeOK, Hello
  <2> QED BY <2>1, <2>2, <1>s
<1>7. ASSUME NEW k \in Commands,
              Fails(k)
       PROVE  ClaimIsKept'
  <2>1. cmd[k].name \in Names /\ \A l \in Commands \ {k} : cmd'[l] = cmd[l]
    BY <1>7, CommandFacts DEF Fails, Done, TypeOK
  <2>2. /\ UNCHANGED <<file, holder, record>> /\ mishap \subseteq mishap'
        /\ Saving(k) => cmd[k].name \in mishap'
    BY <1>7 DEF Fails, Saving
  <2>3. \A l \in Commands \ {k} : Saving(l) => Saving(l)'
    BY <2>1 DEF Saving, Doing
  <2> SUFFICES ASSUME NEW x \in Names, record[x] # 0, x \notin mishap'
               PROVE  \/ file'[holder[record[x]]][x] = record[x]
                      \/ \E l \in Commands : Saving(l)' /\ cmd'[l].name = x /\ cmd'[l].claim = record[x]
    BY <2>2, <1>t
  <2> QED BY <2>1, <2>2, <2>3, <1>u
<1>8. ASSUME NEW k \in Commands,
              List(k)
       PROVE  ClaimIsKept'
  <2>1. \A l \in Commands : Saving(l) => cmd'[l] = cmd[l]
    <3>1. cmd[k] # Idle /\ ~Saving(k) /\ file[cmd[k].at] \in Hello
      BY <1>8, CommandFacts DEF List, Saving, Doing, Idle, Readable, TypeOK, Hello
    <3>2. \A l \in Commands \ {k} : cmd'[l] = cmd[l]
      BY <1>8, <3>1, ListFacts DEF Takes, List
    <3> QED BY <3>1, <3>2
  <2>2. UNCHANGED <<file, holder>> /\ mishap \subseteq mishap' /\ \A n \in Names : record'[n] \in {0, record[n]}
    BY <1>8 DEF List, TypeOK, Hello
  <2> QED BY <2>1, <2>2, <1>s
<1>9. ASSUME NEW k \in Commands,
              Store(k)
       PROVE  ClaimIsKept'
  <2>1. \A l \in Commands : Saving(l) => cmd'[l] = cmd[l]
    <3>1. cmd[k] # Idle /\ ~Saving(k)
      BY <1>9, CommandFacts DEF Store, Saving, Doing, Idle
    <3>2. \A l \in Commands \ {k} : cmd'[l] = cmd[l]
      BY <1>9, <3>1, GotoFacts DEF Store
    <3> QED BY <3>1, <3>2
  <2>2. UNCHANGED <<file, holder>> /\ mishap \subseteq mishap' /\ \A n \in Names : record'[n] \in {0, record[n]}
    BY <1>9 DEF Store, TypeOK, Hello
  <2> QED BY <2>1, <2>2, <1>s
<1>10. ASSUME NEW k \in Commands,
              MakeHello(k)
       PROVE  ClaimIsKept'
  <2>1. \A l \in Commands : Saving(l) => cmd'[l] = cmd[l]
    <3>1. cmd[k] # Idle /\ ~Saving(k) /\ copy[cmd[k].at] \in Hello
      BY <1>10, CommandFacts DEF MakeHello, Saving, Doing, Idle, TypeOK
    <3>2. \A l \in Commands \ {k} : cmd'[l] = cmd[l]
      BY <1>10, <3>1, ListFacts DEF Takes, MakeHello
    <3> QED BY <3>1, <3>2
  <2>2. UNCHANGED <<file, holder>> /\ mishap \subseteq mishap' /\ \A n \in Names : record'[n] \in {0, record[n]}
    BY <1>10 DEF MakeHello, TypeOK, Hello
  <2> QED BY <2>1, <2>2, <1>s
<1>11. ASSUME NEW k \in Commands,
              Send(k)
       PROVE  ClaimIsKept'
  <2>1. \A l \in Commands : Saving(l) => cmd'[l] = cmd[l]
    <3>1. ~Saving(k)
      BY <1>11 DEF Send, Saving, Doing
    <3>2. \A l \in Commands \ {k} : cmd'[l] = cmd[l]
      BY <1>11 DEF Send, Done, TypeOK
    <3> QED BY <3>1, <3>2
  <2>2. UNCHANGED <<file, holder>> /\ mishap \subseteq mishap' /\ \A n \in Names : record'[n] \in {0, record[n]}
    BY <1>11 DEF Send, TypeOK, Hello
  <2> QED BY <2>1, <2>2, <1>s
<1>12. ASSUME NEW m \in Machines,
              Boot(m) \/ Connect(m) \/ WriteHello(m) \/ Break(m) \/ LoseHello(m)
       PROVE  ClaimIsKept'
  BY <1>12, <1>q DEF Boot, Connect, WriteHello, Break, LoseHello, daemonVars, netVars
<1>13. ASSUME NEW m \in Machines,
              Halt(m)
       PROVE  ClaimIsKept'
  <2>1. \A l \in Commands : Saving(l) => cmd'[l] = cmd[l]
    <3> SUFFICES ASSUME NEW l \in Commands, Saving(l)
                 PROVE  cmd'[l] = cmd[l]
      OBVIOUS
    <3>1. ~Doing(l, Reloading)
      BY DEF Saving, Doing, Reloading
    <3>2. cmd'[l] = IF Doing(l, Reloading) /\ cmd[l].at = m THEN Idle ELSE cmd[l]
      BY <1>13 DEF Halt
    <3> QED BY <3>1, <3>2
  <2>2. UNCHANGED <<file, holder>> /\ mishap \subseteq mishap' /\ \A n \in Names : record'[n] \in {0, record[n]}
    BY <1>13 DEF Halt, TypeOK, Hello
  <2> QED BY <2>1, <2>2, <1>s
<1>14. ASSUME NEW c \in DOMAIN machine,
              LookUp(c) \/ ServeLooked(c) \/ Drop(c)
       PROVE  ClaimIsKept'
  BY <1>14, <1>q DEF LookUp, ServeLooked, Drop, Accepted, serve, daemonVars, netVars
<1>15. ASSUME UNCHANGED vars PROVE ClaimIsKept'
  BY <1>15, <1>q DEF vars, netVars, daemonVars
<1> QED BY <1>1, <1>2, <1>3, <1>4, <1>5, <1>6, <1>7, <1>8, <1>9, <1>10, <1>11, <1>12, <1>13,
           <1>14, <1>15 DEF Next

\* The routes of a name that its holder has served stay with the holder.
LEMMA NoStealingStep == ASSUME IInv, [Next]_vars PROVE NoStealing'
<1>0. TypeOK /\ NoStealing /\ MintInv /\ LookedInv /\ WireInv
  BY DEF IInv
<1>h. /\ 0 \notin heard
      /\ \A x \in Names : record[x] # 0 => record[x] \in 1 .. minted
  BY <1>0 DEF TypeOK, Hello, Entry, Claim, MintInv
<1>q. ASSUME UNCHANGED <<record, route, machine, holder, heard, late>> PROVE NoStealing'
  BY <1>0, <1>q DEF NoStealing
<1> USE <1>0
<1>1. ASSUME NEW k \in Commands, NEW m \in Machines, NEW n \in Names,
              Load(k, m, n)
       PROVE  NoStealing'
  BY <1>1, <1>q DEF Load, Begin, daemonVars, netVars
<1>2. ASSUME NEW k \in Commands,
              BeginSave(k) \/ EndSave(k) \/ Change(k) \/ Fails(k) \/ List(k) \/ Store(k)
                 \/ MakeHello(k) \/ Send(k)
       PROVE  NoStealing'
  BY <1>2, <1>q DEF BeginSave, EndSave, Change, Fails, List, Store, MakeHello, Send, Goto, Collide, Done,
     daemonVars, netVars
<1>3. ASSUME NEW k \in Commands, NEW m \in Machines, NEW n \in Names,
              Reserve(k, m, n)
       PROVE  NoStealing'
  <2>1. record'[n] = minted + 1 /\ \A x \in Names : x # n => record'[x] = record[x]
    BY <1>3 DEF Reserve, TypeOK, Hello
  <2>2. minted \in Nat /\ holder' = Append(holder, m) /\ UNCHANGED <<route, machine, heard, late>>
    BY <1>3 DEF Reserve, netVars, TypeOK
  <2>3. \A i \in 1 .. minted : holder'[i] = holder[i]
    BY <2>2, AppendFacts DEF TypeOK
  <2>4. minted + 1 \notin heard
    BY <2>2 DEF TypeOK
  <2> SUFFICES ASSUME NEW x \in Names \ late, record'[x] \in heard, route[x] # 0
               PROVE  machine[route[x]] = holder'[record'[x]]
    BY <2>2 DEF NoStealing
  <2>5. record'[x] = record[x]
    BY <2>1, <2>4
  <2>6. holder'[record[x]] = holder[record[x]]
    BY <2>3, <2>5, <1>h
  <2> QED BY <2>5, <2>6 DEF NoStealing
<1>4. ASSUME NEW k \in Commands,
              Release(k)
       PROVE  NoStealing'
  <2>1. /\ UNCHANGED <<route, machine, heard, holder>> /\ late \subseteq late'
        /\ \A x \in Names : record'[x] \in {0, record[x]}
    BY <1>4 DEF Release, netVars, TypeOK, Hello
  <2> QED BY <2>1, <1>h DEF NoStealing
<1>5. ASSUME NEW m \in Machines,
              Boot(m) \/ Halt(m) \/ WriteHello(m) \/ Break(m) \/ LoseHello(m)
       PROVE  NoStealing'
  BY <1>5, <1>q DEF Boot, Halt, WriteHello, Break, LoseHello, daemonVars, netVars
<1>6. ASSUME NEW m \in Machines,
              Connect(m)
       PROVE  NoStealing'
  <2>1. /\ UNCHANGED <<route, record, heard, holder, late>>
        /\ Len(machine) \in Nat /\ machine' = Append(machine, m) /\ machine \in [1 .. Len(machine) -> Machines]
    BY <1>6 DEF Connect, TypeOK
  <2>2. \A c \in 1 .. Len(machine) : machine'[c] = machine[c]
    BY <2>1, AppendFacts
  <2>3. \A n \in Names : route[n] # 0 => route[n] \in 1 .. Len(machine)
    BY <2>1 DEF TypeOK
  <2> QED BY <2>1, <2>2, <2>3 DEF NoStealing
<1>7. ASSUME NEW c \in DOMAIN machine,
              LookUp(c)
       PROVE  NoStealing'
  BY <1>7, <1>q DEF LookUp, Accepted, daemonVars, netVars
<1>8. ASSUME NEW c \in DOMAIN machine,
              ServeLooked(c)
       PROVE  NoStealing'
  <2> DEFINE h == Head(looked[c])
  <2>1. /\ UNCHANGED <<record, machine, holder, late>> /\ heard' = heard \cup {h[n] : n \in {x \in Names : h[x] # 0}}
        /\ \A n \in Names : route'[n] = IF h[n] # 0 THEN c ELSE IF route[n] = c THEN 0 ELSE route[n]
    BY <1>8 DEF ServeLooked, serve
  <2>2. h \in GoodHello[machine[c]] /\ machine[c] \in Machines
    <3>1. looked[c] \in Seq(GoodHello[machine[c]]) /\ looked[c] # <<>>
      BY <1>8 DEF WireInv, ServeLooked
    <3>2. machine[c] \in Machines
      BY DEF TypeOK
    <3> QED BY <3>1, <3>2, TailFacts
  <2>3. \A n \in Names : h[n] # 0 => /\ holder[h[n]] = machine[c]
                                     /\ \A x \in Names : record[x] = h[n] => x = n
    BY <2>2 DEF GoodHello, Good
  <2>4. \A n \in Names \ late : h[n] \in {0, record[n]}
    BY <1>8 DEF ServeLooked, LookedInv
  <2> HIDE DEF h
  <2> SUFFICES ASSUME NEW n \in Names \ late, record[n] \in heard', route'[n] # 0
               PROVE  machine[route'[n]] = holder[record[n]]
    BY <2>1 DEF NoStealing
  <2>5. CASE h[n] # 0
    BY <2>1, <2>3, <2>4, <2>5
  <2>6. CASE h[n] = 0
    <3>1. route'[n] = route[n] /\ route[n] # 0
      BY <2>1, <2>6
    <3>2. record[n] \in heard
      BY <2>1, <2>3, <2>6
    <3> QED BY <3>1, <3>2 DEF NoStealing
  <2> QED BY <2>5, <2>6
<1>9. ASSUME NEW c \in DOMAIN machine,
              Drop(c)
       PROVE  NoStealing'
  <2>1. /\ UNCHANGED <<record, machine, holder, heard, late>>
        /\ \A n \in Names : route'[n] \in {0, route[n]}
    BY <1>9 DEF Drop, TypeOK
  <2> QED BY <2>1 DEF NoStealing
<1>10. ASSUME UNCHANGED vars PROVE NoStealing'
  BY <1>10, <1>q DEF vars, netVars, daemonVars
<1> QED BY <1>1, <1>2, <1>3, <1>4, <1>5, <1>6, <1>7, <1>8, <1>9, <1>10 DEF Next

-----------------------------------------------------------------------------
(* The theorems.                                                           *)

\* The invariant holds at first and every step keeps it.
LEMMA Invariance == Spec => []IInv
<1>1. Init => IInv
  BY IInvInit
<1>2. IInv /\ [Next]_vars => IInv'
  <2> SUFFICES ASSUME IInv, [Next]_vars
               PROVE  IInv'
    OBVIOUS
  <2>1. (TypeOK /\ MintInv /\ DiskInv /\ DaemonInv /\ LinkInv /\ WireInv)'
    BY TypeStep, MintInvStep, DiskInvStep, DaemonInvStep, LinkInvStep, WireInvStep
  <2>2. (CommandInv /\ LookedInv /\ GrantInv /\ SaveInv /\ ClaimIsKept /\ NoStealing)'
    BY CommandInvStep, LookedInvStep, GrantInvStep, SaveInvStep, ClaimIsKeptStep, NoStealingStep
  <2> QED BY <2>1, <2>2 DEF IInv
<1> QED BY <1>1, <1>2, PTL DEF Spec

\* Every variable of the directory, its daemons and the server's routes keeps its
\* type, for any names and machines.
THEOREM TypeCorrect == Spec => []TypeOK
<1>1. IInv => TypeOK
  BY DEF IInv
<1> QED BY <1>1, Invariance, PTL

\* The claim on a reserved name stays with the machine it was given to, on disk
\* or in a command that is about to write it, whatever else is saved, released
\* and reserved again there meanwhile: unless a command was interrupted while it
\* saved the claim, or collided with another about the same name.
THEOREM ClaimsAreKept == Spec => []ClaimIsKept
<1>1. IInv => ClaimIsKept
  BY DEF IInv
<1> QED BY <1>1, Invariance, PTL

\* Once a name's holder has been heard, a hello of another machine never gets
\* its route, however old the hello is and on whichever connection it is read:
\* unless a claim was released between its look-up and its being served.
THEOREM NoRouteIsStolen == Spec => []NoStealing
<1>1. IInv => NoStealing
  BY DEF IInv
<1> QED BY <1>1, Invariance, PTL
=============================================================================
