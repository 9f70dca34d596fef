------------------------------ MODULE Registry ------------------------------
(***************************************************************************)
(* Who holds an agent's name.  The server keeps a record of every name in  *)
(* memory and in state.json; a machine keeps the claim it was given in     *)
(* agent.json and presents it with every later command.  The commands of   *)
(* different machines are HTTP requests handled concurrently.  A handler   *)
(* first looks the name up, and changes the record only later, under the   *)
(* state's lock, where it also saves the whole file: a temporary file is   *)
(* written and renamed over the old one.  The server may crash between any *)
(* two steps, a save may fail, and a reply may be lost.                    *)
(***************************************************************************)
EXTENDS Naturals

CONSTANTS
  Machines,  \* client machines
  Names,     \* agent names, all well formed
  Claims,    \* the claim tokens that can be minted: the bound on reservations
  Calls,     \* slots for requests in flight: the bound on concurrency
  None,      \* no record, no claim, no file
  Torn       \* the content of a file that is being written

Record  == [status : {"reserved", "serving"}, claim : Claims]
File    == [Names -> Record \cup {None}]
Request == [op : {"reserve", "register", "deregister", "release"},
            machine : Machines, name : Names, claim : Claims \cup {None}]

ASSUME RegistryAssumption ==
  /\ None \notin Claims \cup Record \cup Request
  /\ Torn \notin File \cup {None}

VARIABLES
  up,        \* the server process runs
  agents,    \* State.agents: the records in memory
  disk,      \* state.json
  temp,      \* state.json.tmp
  accounts,  \* names with an account on the homeserver
  issued,    \* claims that have been minted
  store,     \* the claim in each machine's agent.json
  at,        \* where each call's handler is
  req,       \* each call's request: op, machine, name and claim
  doing,     \* the change of the record that a call is carrying out
  good,      \* no error so far: the call will be answered with success
  asked,     \* machines that asked to release a name since they got it (history)
  released,  \* names with the claim whose release succeeded (history)
  overlapped \* names for which two calls have been in flight at once (history)

callVars == <<at, req, doing, good>>
history  == <<asked, released, overlapped>>
vars     == <<up, agents, disk, temp, accounts, issued, store, callVars, history>>

Steps   == {"idle", "check", "account", "change", "save", "writing", "written",
            "free", "reply"}
Changes == {"put", "on", "off", "delete"}
Locked  == {"save", "writing", "written"}   \* the steps that hold State.mu

empty == [n \in Names |-> None]

Types ==
  /\ up \in BOOLEAN
  /\ agents \in File
  /\ disk \in File \cup {Torn}
  /\ temp \in File \cup {Torn, None}
  /\ accounts \in SUBSET Names
  /\ issued \in SUBSET Claims
  /\ store \in [Machines -> [Names -> Claims \cup {None}]]
  /\ at \in [Calls -> Steps]
  /\ req \in [Calls -> Request \cup {None}]
  /\ \A p \in Calls : at[p] = "idle" <=> req[p] = None
  /\ doing \in [Calls -> Changes \cup {None}]
  /\ good \in [Calls -> BOOLEAN]
  /\ asked \in SUBSET (Machines \X Names)
  /\ released \in SUBSET (Names \X Claims)
  /\ overlapped \in SUBSET Names

\* The variables have their types, and State.mu has one holder at a time: no two
\* calls change the records, or write the same temporary file, at once.
TypeOK == Types /\ \A p, q \in Calls : at[p] \in Locked /\ at[q] \in Locked => p = q

Init ==
  /\ up = TRUE
  /\ agents = empty
  /\ disk = empty
  /\ temp = None
  /\ accounts = {}
  /\ issued = {}
  /\ store = [m \in Machines |-> empty]
  /\ at = [p \in Calls |-> "idle"]
  /\ req = [p \in Calls |-> None]
  /\ doing = [p \in Calls |-> None]
  /\ good = [p \in Calls |-> TRUE]
  /\ asked = {}
  /\ released = {}
  /\ overlapped = {}

\* Slip: the lock is let go before the temporary file is renamed.
Unlocked_BeforeRename == \A p \in Calls : at[p] \notin Locked \ {"written"}

\* The state's lock is free: a read, or the start of a change, can go on.
Unlocked == \A p \in Calls : at[p] \notin Locked

\* The file or the map has a record of n, and it carries claim k.
Claimed(file, n, k) == file[n] # None /\ file[n].claim = k

Go(p, step) == at' = [at EXCEPT ![p] = step]
Fail(p) == Go(p, "reply") /\ good' = [good EXCEPT ![p] = FALSE]

\* The calls of P are over, and their slots can be used again.
End(P) ==
  /\ at' = [p \in Calls |-> IF p \in P THEN "idle" ELSE at[p]]
  /\ req' = [p \in Calls |-> IF p \in P THEN None ELSE req[p]]
  /\ doing' = [p \in Calls |-> IF p \in P THEN None ELSE doing[p]]
  /\ good' = [p \in Calls |-> IF p \in P THEN TRUE ELSE good[p]]
-----------------------------------------------------------------------------
(* The client's commands.                                                  *)

\* A request of machine m for name n arrives at the server.
Send(p, op, m, n, k) ==
  /\ up
  /\ at[p] = "idle"
  /\ Go(p, "check")
  /\ req' = [req EXCEPT ![p] = [op |-> op, machine |-> m, name |-> n, claim |-> k]]
  /\ overlapped' = IF \E q \in Calls : at[q] # "idle" /\ req[q].name = n
                   THEN overlapped \cup {n} ELSE overlapped
  /\ UNCHANGED <<up, agents, disk, temp, accounts, issued, store, doing, good, released>>

\* client init
SendReserve(p, m, n) == Send(p, "reserve", m, n, None) /\ UNCHANGED asked

\* client register, client deregister: the machine's own agent.json has the
\* claim.  What register writes there besides is no concern of the server.
SendClaimed(p, m, n, op) ==
  /\ store[m][n] # None
  /\ Send(p, op, m, n, store[m][n])
  /\ asked' = IF op = "release" THEN asked \cup {<<m, n>>} ELSE asked

\* The response to init arrives and Scaffold stores the claim, in place of an
\* older one.
GrantArrives(p) ==
  LET m == req[p].machine
      n == req[p].name
  IN /\ at[p] = "reply"
     /\ req[p].op = "reserve" /\ good[p]
     /\ End({p})
     /\ store' = [store EXCEPT ![m][n] = req[p].claim]
     /\ asked' = asked \ {<<m, n>>}
     /\ UNCHANGED <<up, agents, disk, temp, accounts, issued, released, overlapped>>

\* Every other response, and one that is lost, changes nothing on the machine.
ReplyEnds(p) ==
  /\ at[p] = "reply"
  /\ End({p})
  /\ released' = IF req[p].op = "release" /\ good[p]
                 THEN released \cup {<<req[p].name, req[p].claim>>} ELSE released
  /\ UNCHANGED <<up, agents, disk, temp, accounts, issued, store, asked, overlapped>>
-----------------------------------------------------------------------------
(* The handlers, up to the change.                                         *)

\* handleReserve: the name is free, and a claim is minted.
ReserveChecked(p, k) ==
  /\ at[p] = "check" /\ req[p].op = "reserve"
  /\ Unlocked
  /\ agents[req[p].name] = None
  /\ k \notin issued
  /\ issued' = issued \cup {k}
  /\ req' = [req EXCEPT ![p].claim = k]
  /\ Go(p, "account")
  /\ UNCHANGED <<up, agents, disk, temp, accounts, store, doing, good, history>>

ReserveConflict(p) ==
  /\ at[p] = "check" /\ req[p].op = "reserve"
  /\ Unlocked
  /\ agents[req[p].name] # None
  /\ Fail(p)
  /\ UNCHANGED <<up, agents, disk, temp, accounts, issued, store, req, doing, history>>

\* RegisterAgent: the homeserver has the account, from now on or from before,
\* or the call fails, possibly after the account was created.
RegisterAgent(p) ==
  /\ at[p] = "account"
  /\ \/ accounts' = accounts \cup {req[p].name} /\ Go(p, "change") /\ UNCHANGED good
     \/ accounts' \in {accounts, accounts \cup {req[p].name}} /\ Fail(p)
  /\ UNCHANGED <<up, agents, disk, temp, issued, store, req, doing, history>>

\* Slip: authorize only looks whether the name is known.
authorize_AnyClaim(p) ==
  /\ at[p] = "check" /\ req[p].op # "reserve"
  /\ Unlocked
  /\ IF agents[req[p].name] # None THEN Go(p, "change") /\ UNCHANGED good ELSE Fail(p)
  /\ UNCHANGED <<up, agents, disk, temp, accounts, issued, store, req, doing, history>>

\* authorize
authorize(p) ==
  /\ at[p] = "check" /\ req[p].op # "reserve"
  /\ Unlocked
  /\ IF Claimed(agents, req[p].name, req[p].claim) THEN Go(p, "change") /\ UNCHANGED good
                                              ELSE Fail(p)
  /\ UNCHANGED <<up, agents, disk, temp, accounts, issued, store, req, doing, history>>
-----------------------------------------------------------------------------
(* The change of the record and the save, under the lock.                  *)

\* The change is made in memory; save is yet to run.
Change(p, what, record) ==
  /\ Unlocked
  /\ agents' = [agents EXCEPT ![req[p].name] = record]
  /\ doing' = [doing EXCEPT ![p] = what]
  /\ Go(p, "save")
  /\ UNCHANGED <<up, disk, temp, accounts, issued, store, req, good, history>>

Reserve(p) ==
  /\ at[p] = "change" /\ req[p].op = "reserve"
  /\ Change(p, "put", [status |-> "reserved", claim |-> req[p].claim])

\* Where a handler goes on after one change: only a release has a second one.
Onward(p, what) == IF req[p].op = "release" /\ what = "off" THEN "free" ELSE "reply"

\* Slip: SetServing writes the record that was looked up before, also when the
\* name has been released since.
SetServing_Revives(p) ==
  LET serving == req[p].op = "register"
  IN /\ at[p] = "change" /\ req[p].op # "reserve"
     /\ Change(p, IF serving THEN "on" ELSE "off",
               [status |-> IF serving THEN "serving" ELSE "reserved", claim |-> req[p].claim])

\* SetServing: a name that is gone by now is left alone, and nothing is saved.
SetServing(p) ==
  LET n == req[p].name
      serving == req[p].op = "register"
      what == IF serving THEN "on" ELSE "off"
  IN /\ at[p] = "change" /\ req[p].op # "reserve"
     /\ \/ /\ agents[n] # None
           /\ Change(p, what, [agents[n] EXCEPT
                                 !.status = IF serving THEN "serving" ELSE "reserved"])
        \/ /\ agents[n] = None
           /\ Unlocked
           /\ Go(p, Onward(p, what))
           /\ UNCHANGED <<up, agents, disk, temp, accounts, issued, store, req, doing, good,
                          history>>

\* Release, whatever became of the SetServing before it
Release(p) ==
  /\ at[p] = "free"
  /\ Change(p, "delete", None)

BeginWrite(p) ==
  /\ at[p] = "save"
  /\ temp' = Torn
  /\ Go(p, "writing")
  /\ UNCHANGED <<up, agents, disk, accounts, issued, store, req, doing, good, history>>

EndWrite(p) ==
  /\ at[p] = "writing"
  /\ temp' = agents
  /\ Go(p, "written")
  /\ UNCHANGED <<up, agents, disk, accounts, issued, store, req, doing, good, history>>

\* The lock is released with this step.  The error of a release's first change
\* is overwritten by that of the second.
Rename(p) ==
  /\ at[p] = "written"
  /\ disk' = temp
  /\ temp' = None
  /\ Go(p, Onward(p, doing[p]))
  /\ good' = [good EXCEPT ![p] = TRUE]
  /\ UNCHANGED <<up, agents, accounts, issued, store, req, doing, history>>

\* Slip: the handler does not look at what save returned.
SaveFails_Unnoticed(p) ==
  /\ at[p] \in Locked
  /\ Go(p, Onward(p, doing[p]))
  /\ UNCHANGED <<up, agents, disk, temp, accounts, issued, store, req, doing, good, history>>

\* Creating, writing or renaming the file fails; the change stays in memory.
SaveFails(p) ==
  /\ at[p] \in Locked
  /\ Go(p, Onward(p, doing[p]))
  /\ good' = [good EXCEPT ![p] = FALSE]
  /\ UNCHANGED <<up, agents, disk, temp, accounts, issued, store, req, doing, history>>
-----------------------------------------------------------------------------
(* The process.                                                            *)

\* The process ends with every call in it; the clients see an error.
Crash ==
  /\ up
  /\ up' = FALSE
  /\ agents' = empty
  /\ End(Calls)
  /\ UNCHANGED <<disk, temp, accounts, issued, store, history>>

\* LoadState; a leftover temporary file is not looked at.
Start ==
  /\ ~up
  /\ disk # Torn
  /\ up' = TRUE
  /\ agents' = disk
  /\ UNCHANGED <<disk, temp, accounts, issued, store, callVars, history>>
-----------------------------------------------------------------------------
CallNext(p) ==
  \/ \E m \in Machines, n \in Names : SendReserve(p, m, n)
  \/ \E m \in Machines, n \in Names, op \in {"register", "deregister", "release"} :
       SendClaimed(p, m, n, op)
  \/ GrantArrives(p)
  \/ ReplyEnds(p)
  \/ \E k \in Claims : ReserveChecked(p, k)
  \/ ReserveConflict(p)
  \/ RegisterAgent(p)
  \/ authorize(p)
  \/ Reserve(p)
  \/ SetServing(p)
  \/ Release(p)
  \/ BeginWrite(p)
  \/ EndWrite(p)
  \/ Rename(p)
  \/ SaveFails(p)

Next ==
  \/ \E p \in Calls : CallNext(p)
  \/ Crash
  \/ Start

Spec == Init /\ [][Next]_vars
-----------------------------------------------------------------------------
(* Safety.                                                                 *)

\* Whenever the server dies, the state file it finds at the next start is whole.
DiskReadable == disk # Torn

\* A name that is reserved, in memory or in the file, has its Matrix account,
\* so that an agent that is put in service can post.
ReservedHasAccount ==
  \A n \in Names : agents[n] # None \/ disk[n] # None => n \in accounts

\* A claim that a machine was given and that the server recognises survives a
\* crash at any moment: it is in the file, whatever saves have failed since.
GrantIsDurable ==
  \A m \in Machines, n \in Names :
    store[m][n] # None /\ Claimed(agents, n, store[m][n]) => Claimed(disk, n, store[m][n])

\* A claim whose release has succeeded never opens the name again, neither after
\* a crash nor through a command that was authorized before the release.
ReleasedStaysReleased ==
  \A n \in Names, k \in Claims :
    <<n, k>> \in released => ~Claimed(agents, n, k) /\ ~Claimed(disk, n, k)

\* The machine was given the name and has not asked to release it since.
Holder(m, n) == store[m][n] # None /\ <<m, n>> \notin asked

\* As long as no two commands for a name are under way at once, a machine that
\* holds it and has not asked to release it keeps it, through failed saves,
\* lost replies, crashes and other machines' attempts.
HolderKeepsNameInSequence ==
  \A m \in Machines, n \in Names :
    up /\ n \notin overlapped /\ Holder(m, n) => Claimed(agents, n, store[m][n])

\* docs/04-element-agent.md: "a name reserved from one machine cannot be
\* registered, released, or served from another."  So a machine that was given
\* a name and has not asked to release it holds it, also when commands overlap.
HolderKeepsName ==
  \A m \in Machines, n \in Names :
    up /\ Holder(m, n) => Claimed(agents, n, store[m][n])
=============================================================================
