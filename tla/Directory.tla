------------------------------ MODULE Directory ------------------------------
(***************************************************************************)
(* Claims, from the server's records to the agent.json files of the        *)
(* machines, from there by reloads to the daemons' copies, and by hellos   *)
(* to the routes of the server.  Each step works on what the one before    *)
(* has left, and may come late: commands are interrupted, a listing may be *)
(* older than the file when it is stored, hellos wait in a queue that      *)
(* outlives a connection, and a connection may still be read when another  *)
(* has taken its place.  Registry has the requests of the commands in      *)
(* detail, and Hub the connections.                                        *)
(***************************************************************************)
EXTENDS Integers, Sequences

CONSTANTS
  Names, Machines,
  MaxCommands, \* bound on the number of commands that run at the same time
  MaxClaims,  \* bound on the number of reservations
  MaxConns,   \* bound on the number of connections
  MaxCalls,   \* bound on the number of commands
  OutCap      \* how many hellos fit into Daemon.out

ASSUME DirectoryAssumption ==
  {MaxCommands, MaxClaims, MaxConns, MaxCalls} \subseteq Nat /\ OutCap \in Nat \ {0}

Commands == 1 .. MaxCommands
Claim == 1 .. MaxClaims
Torn  == -1                      \* an agent.json that has been written in part
Entry == Claim \cup {0}          \* 0: no record, no file, nothing known
Hello == [Names -> Entry]
Empty == [n \in Names |-> 0]

VARIABLES
  record,  \* the claims in the server's state
  minted,  \* how many claims there were
  route,   \* hub.agents: the number of a connection, or 0
  machine, \* the machine behind every connection there has been
  open,    \* the connections that the server reads
  wire,    \* the hellos on their way to it
  looked,  \* the hello whose claims a connection's reader has looked up, if any
  file,    \* the agent.json files
  up,      \* the machines whose daemon runs
  copy,    \* Daemon.agents
  out,     \* the hellos in Daemon.out
  link,    \* the connection that a daemon has, or 0
  cmd,     \* what each command is at
  calls,   \* how many commands there were
  holder,  \* the machine that a claim was minted for (history)
  heard,   \* the claims that were accepted in a hello (history)
  mishap,  \* names that a rare accident has happened to, and machines (history)
  late     \* names that were released when a claim had been looked up, but not served (history)

netVars    == <<route, machine, open, wire, looked>>
daemonVars == <<up, copy, out, link>>
vars == <<record, minted, netVars, file, daemonVars, cmd, calls, holder, heard, mishap, late>>

\* A command of machine at about name: the claim it has, and a reload's listing.
Idle == [step |-> "idle"]
Busy == [step : {"granted", "loaded", "creating", "changing", "changed", "asking",
                 "listed", "stored", "made"},
         at : Machines, name : Names, claim : Entry, list : Hello]
Reloading   == {"listed", "stored", "made"}
Doing(k, S) == cmd[k].step \in S
Goto(k, s)  == cmd' = [cmd EXCEPT ![k].step = s]
Done(k)     == cmd' = [cmd EXCEPT ![k] = Idle]

TypeOK ==
  /\ record \in Hello /\ minted \in 0 .. MaxClaims
  /\ route \in [Names -> 0 .. Len(machine)]
  /\ machine \in Seq(Machines) /\ Len(machine) <= MaxConns
  /\ open \in SUBSET DOMAIN machine
  /\ wire \in [DOMAIN machine -> Seq(Hello)]
  /\ looked \in [DOMAIN machine -> Seq(Hello)] /\ \A c \in DOMAIN machine : Len(looked[c]) <= 1
  /\ file \in [Machines -> [Names -> Entry \cup {Torn}]]
  /\ up \in SUBSET Machines
  /\ copy \in [Machines -> Hello]
  /\ out \in [Machines -> Seq(Hello)] /\ \A m \in Machines : Len(out[m]) <= OutCap
  /\ link \in [Machines -> 0 .. Len(machine)]
  /\ cmd \in [Commands -> Busy \cup {Idle}] /\ calls \in 0 .. MaxCalls
  /\ holder \in [1 .. minted -> Machines] /\ heard \in SUBSET (1 .. minted)
  /\ mishap \in SUBSET (Names \cup Machines) /\ late \in SUBSET Names

Init ==
  /\ record = Empty /\ minted = 0 /\ route = Empty
  /\ machine = <<>> /\ open = {} /\ wire = <<>> /\ looked = <<>>
  /\ file = [m \in Machines |-> Empty]
  /\ up = {} /\ copy = [m \in Machines |-> Empty]
  /\ out = [m \in Machines |-> <<>>] /\ link = [m \in Machines |-> 0]
  /\ cmd = [k \in Commands |-> Idle] /\ calls = 0
  /\ holder = <<>> /\ heard = {} /\ mishap = {} /\ late = {}
-----------------------------------------------------------------------------
(* The commands: init, register, deregister with and without --release.    *)

\* Two commands about one name at one machine at once: the second may save the
\* claim that it loaded over the first one's.
Collide(k) ==
  \E l \in Commands \ {k} : cmd[l] # Idle /\ cmd[l].at = cmd[k].at /\ cmd[l].name = cmd[k].name

\* A command takes the first free number.
Begin(k, s, m, n, c) ==
  /\ cmd[k] = Idle /\ calls < MaxCalls /\ \A l \in 1 .. k - 1 : cmd[l] # Idle
  /\ calls' = calls + 1
  /\ cmd' = [cmd EXCEPT ![k] = [step |-> s, at |-> m, name |-> n, claim |-> c, list |-> Empty]]

\* init: the name is reserved, and the reply brings the claim ...
Reserve(k, m, n) ==
  /\ record[n] = 0 /\ minted < MaxClaims
  /\ Begin(k, "granted", m, n, minted + 1)
  /\ record' = [record EXCEPT ![n] = minted + 1] /\ minted' = minted + 1
  /\ holder' = Append(holder, m)
  /\ UNCHANGED <<netVars, file, daemonVars, heard, mishap, late>>

\* register and deregister: agent.json is read.
Load(k, m, n) ==
  /\ file[m][n] \in Claim
  /\ Begin(k, "loaded", m, n, file[m][n])
  /\ UNCHANGED <<record, minted, netVars, file, daemonVars, holder, heard, mishap, late>>

\* Save opens agent.json, and with that empties it.
BeginSave(k) ==
  /\ Doing(k, {"granted", "loaded"})
  /\ file' = [file EXCEPT ![cmd[k].at][cmd[k].name] = Torn]
  /\ Goto(k, IF Doing(k, {"granted"}) THEN "creating" ELSE "changing")
  /\ mishap' = mishap \cup {n \in {cmd[k].name} : Collide(k)}
  /\ UNCHANGED <<record, minted, netVars, daemonVars, calls, holder, heard, late>>

\* Slip: register writes the command to be run and not the claim.
EndSave_NoClaim(k) ==
  /\ Doing(k, {"creating", "changing"})
  /\ file' = [file EXCEPT ![cmd[k].at][cmd[k].name] = IF Doing(k, {"creating"}) THEN cmd[k].claim ELSE 0]
  /\ IF Doing(k, {"creating"}) THEN Done(k) ELSE Goto(k, "changed")
  /\ mishap' = mishap \cup {n \in {cmd[k].name} : Collide(k)}
  /\ UNCHANGED <<record, minted, netVars, daemonVars, calls, holder, heard, late>>

\* It is written.  init is done; it does not tell the daemon.
EndSave(k) ==
  /\ Doing(k, {"creating", "changing"})
  /\ file' = [file EXCEPT ![cmd[k].at][cmd[k].name] = cmd[k].claim]
  /\ IF Doing(k, {"creating"}) THEN Done(k) ELSE Goto(k, "changed")
  /\ mishap' = mishap \cup {n \in {cmd[k].name} : Collide(k)}
  /\ UNCHANGED <<record, minted, netVars, daemonVars, calls, holder, heard, late>>

\* The server has the claim and turns the agent on, or off, ...
Change(k) ==
  /\ Doing(k, {"loaded", "changed"})
  /\ record[cmd[k].name] = cmd[k].claim
  /\ Goto(k, "asking")
  /\ UNCHANGED <<record, minted, netVars, file, daemonVars, calls, holder, heard, mishap, late>>

\* ... or frees the name, ...
Release(k) ==
  /\ Doing(k, {"loaded"})
  /\ record[cmd[k].name] = cmd[k].claim
  /\ record' = [record EXCEPT ![cmd[k].name] = 0]
  /\ Goto(k, "asking")
  /\ late' = late \cup {n \in {cmd[k].name} : \E c \in DOMAIN machine :
                                             looked[c] # <<>> /\ Head(looked[c])[n] = record[n]}
  /\ UNCHANGED <<minted, netVars, file, daemonVars, calls, holder, heard, mishap>>

\* ... or the command ends early: the claim is not the server's, a request or
\* its reply is lost, it is interrupted, or the disk is full.
Fails(k) ==
  /\ cmd[k] # Idle /\ ~Doing(k, Reloading)
  /\ Done(k)
  /\ mishap' = mishap \cup {n \in {cmd[k].name} : Doing(k, {"granted", "creating", "changing"})}
  /\ UNCHANGED <<record, minted, netVars, file, daemonVars, calls, holder, heard, late>>
-----------------------------------------------------------------------------
(* The daemon: reload and hello, starting, and its connections.            *)

Readable(m) == \A n \in Names : file[m][n] # Torn

\* reload lists the files, which fails if one cannot be read, ...
List(k) ==
  /\ Doing(k, {"asking"})
  /\ cmd[k].at \in up /\ Readable(cmd[k].at)
  /\ cmd' = [cmd EXCEPT ![k].step = "listed", ![k].list = file[cmd[k].at]]
  /\ UNCHANGED <<record, minted, netVars, file, daemonVars, calls, holder, heard, mishap, late>>

\* ... adds what it has found to the daemon's agents, ...
Store(k) ==
  LET m == cmd[k].at
  IN /\ Doing(k, {"listed"}) /\ Goto(k, "stored")
     /\ copy' = [copy EXCEPT ![m] = [n \in Names |-> IF cmd[k].list[n] # 0 THEN cmd[k].list[n] ELSE @[n]]]
     /\ mishap' = mishap \cup {i \in {m} : \E l \in Commands \ {k} :
                                             Doing(l, Reloading) /\ cmd[l].at = m}
     /\ UNCHANGED <<record, minted, netVars, file, up, out, link, calls, holder, heard, late>>

\* ... makes a hello of them, ...
MakeHello(k) ==
  /\ Doing(k, {"stored"})
  /\ cmd' = [cmd EXCEPT ![k].step = "made", ![k].list = copy[cmd[k].at]]
  /\ UNCHANGED <<record, minted, netVars, file, daemonVars, calls, holder, heard, mishap, late>>

\* Slip: the hello is queued whether there is room or not.
Send_Always(k) ==
  LET m == cmd[k].at
  IN /\ Doing(k, {"made"})
     /\ out' = [out EXCEPT ![m] = Append(@, cmd[k].list)]
     /\ Done(k)
     /\ UNCHANGED <<record, minted, netVars, file, up, copy, link, calls, holder, heard, mishap, late>>

\* ... and queues it, if there is room.
Send(k) ==
  LET m == cmd[k].at
      room == Len(out[m]) < OutCap
  IN /\ Doing(k, {"made"})
     /\ out' = [out EXCEPT ![m] = IF room THEN Append(@, cmd[k].list) ELSE @]
     /\ mishap' = mishap \cup {i \in {m} : ~room}
     /\ Done(k)
     /\ UNCHANGED <<record, minted, netVars, file, up, copy, link, calls, holder, heard, late>>

\* serve: the daemon starts, if there are agents and all can be read.
Boot(m) ==
  /\ m \notin up /\ Readable(m) /\ file[m] # Empty
  /\ up' = up \cup {m}
  /\ copy' = [copy EXCEPT ![m] = file[m]]
  /\ UNCHANGED <<record, minted, netVars, file, out, link, cmd, calls, holder, heard, mishap, late>>

\* The daemon ends, and with it the reloads and the queue.
Halt(m) ==
  /\ m \in up /\ up' = up \ {m}
  /\ copy' = [copy EXCEPT ![m] = Empty]
  /\ out' = [out EXCEPT ![m] = <<>>] /\ link' = [link EXCEPT ![m] = 0]
  /\ cmd' = [k \in Commands |-> IF Doing(k, Reloading) /\ cmd[k].at = m
                                THEN Idle ELSE cmd[k]]
  /\ UNCHANGED <<record, minted, netVars, file, calls, holder, heard, mishap, late>>

\* A session begins with a hello of its own.
Connect(m) ==
  /\ m \in up /\ link[m] = 0 /\ Len(machine) < MaxConns
  /\ machine' = Append(machine, m) /\ wire' = Append(wire, <<copy[m]>>) /\ looked' = Append(looked, <<>>)
  /\ open' = open \cup {Len(machine) + 1}
  /\ link' = [link EXCEPT ![m] = Len(machine) + 1]
  /\ UNCHANGED <<record, minted, route, file, up, copy, out, cmd, calls, holder, heard, mishap, late>>

\* The write pump takes a hello from the queue.
WriteHello(m) ==
  /\ link[m] # 0 /\ out[m] # <<>>
  /\ wire' = [wire EXCEPT ![link[m]] = Append(@, Head(out[m]))]
  /\ out' = [out EXCEPT ![m] = Tail(@)]
  /\ UNCHANGED <<record, minted, route, machine, open, looked, file, up, copy, link, cmd, calls, holder, heard, mishap, late>>

\* The daemon sees its connection end; the server may see it later, or earlier.
Break(m) ==
  /\ link[m] # 0 /\ link' = [link EXCEPT ![m] = 0]
  /\ UNCHANGED <<record, minted, netVars, file, up, copy, out, cmd, calls, holder, heard, mishap, late>>

\* The write pump of a session that is over has taken a hello, and cannot write
\* it.  It has ended when the next session begins.
LoseHello(m) ==
  /\ link[m] = 0 /\ out[m] # <<>>
  /\ out' = [out EXCEPT ![m] = Tail(@)]
  /\ UNCHANGED <<record, minted, netVars, file, up, copy, link, cmd, calls, holder, heard, mishap, late>>
-----------------------------------------------------------------------------
(* The server.                                                             *)

\* Slip: a name is accepted if it is reserved.
Accepted_Any(h) == [n \in Names |-> IF record[n] # 0 THEN h[n] ELSE 0]

\* onHello accepts the names whose claims are those of the records.
Accepted(h) == [n \in Names |-> IF record[n] = h[n] THEN h[n] ELSE 0]

\* A hello is read, and its claims are looked up, ...
LookUp(c) ==
  /\ c \in open /\ looked[c] = <<>> /\ wire[c] # <<>>
  /\ wire' = [wire EXCEPT ![c] = Tail(@)]
  /\ looked' = [looked EXCEPT ![c] = <<Accepted(Head(wire[c]))>>]
  /\ UNCHANGED <<record, minted, route, machine, open, file, daemonVars, cmd, calls, holder, heard, mishap, late>>

\* serve: the connection has the routes of these names, and no others.
serve(c, S) ==
  route' = [n \in Names |-> IF n \in S THEN c ELSE IF route[n] = c THEN 0 ELSE route[n]]

\* ... and the hub is told.  By then a name may have changed hands; or a newer
\* connection of the same machine has the routes already.
ServeLooked(c) ==
  /\ c \in open /\ looked[c] # <<>>
  /\ looked' = [looked EXCEPT ![c] = <<>>]
  /\ LET h == Head(looked[c])
         S == {n \in Names : h[n] # 0}
     IN /\ serve(c, S) /\ heard' = heard \cup {h[n] : n \in S}
        /\ mishap' = mishap \cup {m \in {machine[c]} : \E n \in S : route[n] > c /\ machine[route[n]] = m}
  /\ UNCHANGED <<record, minted, machine, open, wire, file, daemonVars, cmd, calls, holder, late>>

\* Slip: drop takes the routes of the machine, also those of a newer connection.
Drop_Machine(c) ==
  /\ c \in open /\ looked[c] = <<>> /\ open' = open \ {c}
  /\ route' = [n \in Names |-> IF route[n] # 0 /\ machine[route[n]] = machine[c] THEN 0 ELSE route[n]]
  /\ wire' = [wire EXCEPT ![c] = <<>>]
  /\ UNCHANGED <<record, minted, machine, looked, file, daemonVars, cmd, calls, holder, heard, mishap, late>>

\* The read pump ends: drop.
Drop(c) ==
  /\ c \in open /\ looked[c] = <<>> /\ open' = open \ {c}
  /\ route' = [n \in Names |-> IF route[n] = c THEN 0 ELSE route[n]]
  /\ wire' = [wire EXCEPT ![c] = <<>>]
  /\ UNCHANGED <<record, minted, machine, looked, file, daemonVars, cmd, calls, holder, heard, mishap, late>>

Next ==
  \/ \E k \in Commands :
       \/ \E m \in Machines, n \in Names : Reserve(k, m, n) \/ Load(k, m, n)
       \/ BeginSave(k) \/ EndSave(k) \/ Change(k) \/ Release(k) \/ Fails(k)
       \/ List(k) \/ Store(k) \/ MakeHello(k) \/ Send(k)
  \/ \E m \in Machines : Boot(m) \/ Halt(m) \/ Connect(m) \/ WriteHello(m) \/ Break(m) \/ LoseHello(m)
  \/ \E c \in DOMAIN machine : LookUp(c) \/ ServeLooked(c) \/ Drop(c)

Spec == Init /\ [][Next]_vars

\* A daemon connects, writes, and notices when the server has ended a connection;
\* the server reads, and notices when the daemon has.
Session(m) == Connect(m) \/ WriteHello(m) \/ (link[m] \notin open /\ Break(m))
Reader(c)  == LookUp(c) \/ ServeLooked(c) \/ (link[machine[c]] # c /\ Drop(c))
Fairness ==
  /\ \A m \in Machines : WF_vars(Session(m))
  /\ \A c \in 1 .. MaxConns : WF_vars(c \in DOMAIN machine /\ Reader(c))

FairSpec == Spec /\ Fairness
-----------------------------------------------------------------------------
(* Properties.                                                             *)

\* The claim on a reserved name is not lost: the machine it was given to has it
\* on disk, or a command there is about to write it.  Without it nobody could
\* serve the name, or free it.
ClaimIsKept ==
  \A n \in Names : record[n] # 0 =>
    \/ file[holder[record[n]]][n] = record[n]
    \/ \E k \in Commands : cmd[k] # Idle /\ cmd[k].name = n /\ cmd[k].claim = record[n]
                             /\ Doing(k, {"granted", "creating", "changing"})
    \/ n \in mishap

\* Once the holder of a name has been heard, the name is never routed to another
\* machine, whatever hellos of former holders are still read, unless the claims
\* of one of them were looked up while they were good and served after that.
NoStealing ==
  \A n \in Names \ late :
    record[n] \in heard /\ route[n] # 0 => machine[route[n]] = holder[record[n]]

\* A daemon that has found a claim when it started, or in a reload that is over,
\* is sent the agent's jobs in the end, on the connection it has then: whatever
\* was in the queue, whichever connections came and went.
Settled(m, n) ==
  /\ link[m] # 0 /\ record[n] # 0 /\ copy[m][n] = record[n]
  /\ \A k \in Commands : Doing(k, Reloading) => cmd[k].at # m
Converges ==
  \A m \in Machines, n \in Names :
    <>[]Settled(m, n) => <>[](route[n] = link[m] \/ m \in mishap \/ n \in late)
=============================================================================
