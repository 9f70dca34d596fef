--------------------------- MODULE RegistryProof ---------------------------
(***************************************************************************)
(* Registry's safety, proved for any number of machines, names, claims and *)
(* concurrent requests.                                                    *)
(***************************************************************************)
EXTENDS Registry, TLAPS

\* The lock is exclusive, what is about to be renamed is what is in memory, and
\* nothing outlives the process.
LockInv ==
  /\ \A p, q \in Calls : at[p] \in Locked /\ at[q] \in Locked => p = q
  /\ \A p \in Calls : at[p] = "written" => temp = agents
  /\ ~up => agents = empty /\ \A p \in Calls : at[p] = "idle"

\* What a handler has done so far.
StepInv ==
  \A p \in Calls :
    /\ at[p] = "account" => req[p].op = "reserve"
    /\ at[p] = "free" => req[p].op = "release"
    /\ at[p] \in Locked => doing[p] = "put" <=> req[p].op = "reserve"
    /\ at[p] \in Locked /\ req[p].op = "release" => doing[p] \in {"off", "delete"}
    /\ at[p] \in Locked /\ doing[p] = "delete" => agents[req[p].name] = None
    /\ at[p] \in {"account", "change", "free"} \cup Locked => req[p].claim # None
    /\ at[p] = "change" /\ req[p].op = "reserve" => req[p].name \in accounts
    /\ at[p] # "idle" /\ req[p].op # "reserve" => req[p].claim \in issued
    /\ at[p] = "check" /\ req[p].op = "reserve" => req[p].claim = None

\* A handler of a reservation whose claim is minted: the claim is its own.
Minted(p) == at[p] \notin {"idle", "check"} /\ req[p].op = "reserve" /\ req[p].claim # None

\* Claims are fresh when they are minted, and a claim is given to one machine.
ClaimInv ==
  /\ \A n \in Names, k \in Claims : Claimed(agents, n, k) \/ Claimed(disk, n, k) => k \in issued
  /\ \A m \in Machines, n \in Names : store[m][n] # None => store[m][n] \in issued
  /\ \A n \in Names, k \in Claims : <<n, k>> \in released => k \in issued
  /\ \A m, o \in Machines, n \in Names : store[m][n] # None /\ store[m][n] = store[o][n] => m = o
  /\ \A p \in Calls : Minted(p) =>
       /\ req[p].claim \in issued
       /\ \A m \in Machines, n \in Names : store[m][n] # req[p].claim
       /\ \A n \in Names : <<n, req[p].claim>> \notin released
       /\ \A q \in Calls : at[q] # "idle" /\ q # p => req[q].claim # req[p].claim
       /\ at[p] \in {"account", "change"} =>
            \A n \in Names : ~Claimed(agents, n, req[p].claim) /\ ~Claimed(disk, n, req[p].claim)

\* The reply of a reservation is under way: its claim is in the file, unless
\* the record has been changed again.
Granting(p) == at[p] = "reply" /\ req[p].op = "reserve" /\ good[p]

GrantInv ==
  \A p \in Calls :
    Granting(p) =>
      /\ req[p].claim # None
      /\ Claimed(agents, req[p].name, req[p].claim) => Claimed(disk, req[p].name, req[p].claim)

\* The reply of a release is under way: the claim is gone.
ReleaseInv ==
  \A p \in Calls :
    at[p] = "reply" /\ req[p].op = "release" /\ good[p] =>
      ~Claimed(agents, req[p].name, req[p].claim) /\ ~Claimed(disk, req[p].name, req[p].claim)

\* Two calls for the name are never in flight at once.
OneCall(n) ==
  \A p, q \in Calls :
    at[p] # "idle" /\ at[q] # "idle" /\ req[p].name = n /\ req[q].name = n => p = q

\* A machine's hold on the name is in the file, and in memory.
Held(n) ==
  \A m \in Machines : Holder(m, n) =>
    Claimed(disk, n, store[m][n]) /\ (up => Claimed(agents, n, store[m][n]))

\* The only call for the name has not been overtaken by another.
Undisturbed(p, n) ==
  /\ req[p].op = "reserve" /\ at[p] \in {"account", "change"} => agents[n] = None
  /\ req[p].op = "reserve" /\ at[p] \in Locked => Claimed(agents, n, req[p].claim)
  /\ Granting(p) => Claimed(agents, n, req[p].claim)
  /\ req[p].op = "release" =>
       <<req[p].machine, n>> \in asked /\ req[p].claim = store[req[p].machine][n]
  /\ req[p].op = "release" /\ at[p] \in {"change", "free"} \cup Locked =>
       \A m \in Machines : ~Holder(m, n)

\* What holds of a name as long as its commands come one at a time.
SequenceInv ==
  \A n \in Names : n \notin overlapped =>
    /\ OneCall(n)
    /\ Held(n)
    /\ \A p \in Calls : at[p] # "idle" /\ req[p].name = n => Undisturbed(p, n)

IInv ==
  /\ Types
  /\ DiskReadable
  /\ ReservedHasAccount
  /\ GrantIsDurable
  /\ ReleasedStaysReleased
  /\ LockInv
  /\ StepInv
  /\ ClaimInv
  /\ GrantInv
  /\ ReleaseInv
  /\ SequenceInv
-----------------------------------------------------------------------------
(* Every step keeps the invariant.                                        *)

LEMMA SendReserveKeeps ==
  ASSUME IInv, NEW p \in Calls, NEW m \in Machines, NEW n \in Names, SendReserve(p, m, n)
  PROVE  IInv'
PROOF
<1>1. Types'
  BY RegistryAssumption DEF IInv, Types, Steps, Request, SendReserve, Send, Go
<1>2. DiskReadable'
  BY DEF IInv, DiskReadable, SendReserve, Send
<1>3. ReservedHasAccount'
  BY DEF IInv, ReservedHasAccount, SendReserve, Send
<1>4. GrantIsDurable'
  BY DEF IInv, GrantIsDurable, SendReserve, Send
<1>5. ReleasedStaysReleased'
  BY DEF IInv, ReleasedStaysReleased, SendReserve, Send
<1>6. LockInv'
  BY DEF IInv, LockInv, Locked, SendReserve, Send, Go
<1>7. StepInv'
  BY DEF IInv, Types, StepInv, Locked, SendReserve, Send, Go
<1>8. ClaimInv'
  BY DEF IInv, Types, ClaimInv, Minted, SendReserve, Send, Go
<1>9. GrantInv'
  BY DEF IInv, GrantInv, Granting, SendReserve, Send, Go
<1>10. ReleaseInv'
  BY DEF IInv, ReleaseInv, SendReserve, Send, Go
<1>11. SequenceInv'
  BY DEF IInv, Types, SequenceInv, OneCall, Held, Undisturbed, Locked, Granting, Holder,
     SendReserve, Send, Go
<1> QED BY <1>1, <1>2, <1>3, <1>4, <1>5, <1>6, <1>7, <1>8, <1>9, <1>10, <1>11 DEF IInv

LEMMA SendClaimedKeeps ==
  ASSUME IInv, NEW p \in Calls, NEW m \in Machines, NEW n \in Names,
         NEW op \in {"register", "deregister", "release"}, SendClaimed(p, m, n, op)
  PROVE  IInv'
PROOF
<1>1. Types'
  BY RegistryAssumption DEF IInv, Types, Steps, Request, SendClaimed, Send, Go
<1>2. DiskReadable'
  BY DEF IInv, DiskReadable, SendClaimed, Send
<1>3. ReservedHasAccount'
  BY DEF IInv, ReservedHasAccount, SendClaimed, Send
<1>4. GrantIsDurable'
  BY DEF IInv, GrantIsDurable, SendClaimed, Send
<1>5. ReleasedStaysReleased'
  BY DEF IInv, ReleasedStaysReleased, SendClaimed, Send
<1>6. LockInv'
  BY DEF IInv, LockInv, Locked, SendClaimed, Send, Go
<1>7. StepInv'
  BY DEF IInv, Types, StepInv, ClaimInv, Locked, SendClaimed, Send, Go
<1>8. ClaimInv'
  BY DEF IInv, Types, ClaimInv, Minted, SendClaimed, Send, Go
<1>9. GrantInv'
  BY DEF IInv, GrantInv, Granting, SendClaimed, Send, Go
<1>10. ReleaseInv'
  BY DEF IInv, ReleaseInv, SendClaimed, Send, Go
<1>11. SequenceInv'
  BY DEF IInv, Types, SequenceInv, OneCall, Held, Undisturbed, Locked, Granting, Holder,
     SendClaimed, Send, Go
<1> QED BY <1>1, <1>2, <1>3, <1>4, <1>5, <1>6, <1>7, <1>8, <1>9, <1>10, <1>11 DEF IInv

LEMMA GrantArrivesKeeps ==
  ASSUME IInv, NEW p \in Calls, GrantArrives(p)
  PROVE  IInv'
PROOF
<1>a. /\ req[p].machine \in Machines /\ req[p].name \in Names /\ req[p].claim # None
      /\ \A m \in Machines, n \in Names :
           store'[m][n] = IF m = req[p].machine /\ n = req[p].name THEN req[p].claim ELSE store[m][n]
  <2>1. req[p] \in Request /\ req[p].claim # None
    BY DEF IInv, Types, GrantArrives, GrantInv, Granting
  <2> QED BY <2>1 DEF IInv, Types, Request, GrantArrives
<1>1. Types'
  BY RegistryAssumption DEF IInv, Types, LockInv, Steps, Changes, Locked, File, Record,
     Request, GrantArrives, End
<1>2. DiskReadable'
  BY DEF IInv, DiskReadable, GrantArrives
<1>3. ReservedHasAccount'
  BY DEF IInv, ReservedHasAccount, GrantArrives
<1>4. GrantIsDurable'
  BY <1>a DEF IInv, GrantIsDurable, GrantInv, Granting, GrantArrives
<1>5. ReleasedStaysReleased'
  BY DEF IInv, ReleasedStaysReleased, GrantArrives
<1>6. LockInv'
  BY DEF IInv, LockInv, Locked, GrantArrives, End
<1>7. StepInv'
  BY DEF IInv, StepInv, Locked, GrantArrives, End
<1>8. ClaimInv'
  BY DEF IInv, ClaimInv, Minted, GrantArrives, End
<1>9. GrantInv'
  BY DEF IInv, GrantInv, Granting, GrantArrives, End
<1>10. ReleaseInv'
  BY DEF IInv, ReleaseInv, GrantArrives, End
<1>11. SequenceInv'
  <2>1. \A q \in Calls : at'[q] # "idle" => q # p /\ at[q] # "idle" /\ at'[q] = at[q]
                                           /\ req'[q] = req[q] /\ good'[q] = good[q]
    BY DEF IInv, GrantArrives, End
  <2>2. at[p] = "reply" /\ req[p].op = "reserve" /\ up /\ Granting(p)
    BY DEF GrantArrives, IInv, LockInv, Granting
  <2>3. /\ asked' = asked \ {<<req[p].machine, req[p].name>>}
        /\ UNCHANGED <<up, agents, disk, overlapped>>
    BY DEF GrantArrives
  <2> SUFFICES ASSUME NEW n \in Names, n \notin overlapped
               PROVE  /\ OneCall(n)' /\ Held(n)'
                      /\ \A q \in Calls : at'[q] # "idle" /\ req'[q].name = n => Undisturbed(q, n)'
    BY <2>3 DEF SequenceInv
  <2>4. OneCall(n) /\ Held(n) /\ \A q \in Calls : at[q] # "idle" /\ req[q].name = n => Undisturbed(q, n)
    BY DEF IInv, SequenceInv
  <2>5. OneCall(n)'
    BY <2>1, <2>4 DEF OneCall
  <2>6. Held(n)'
    <3> SUFFICES ASSUME NEW m \in Machines, Holder(m, n)'
                 PROVE  (Claimed(disk, n, store[m][n]) /\ (up => Claimed(agents, n, store[m][n])))'
      BY DEF Held
    <3>1. CASE m = req[p].machine /\ n = req[p].name
      <4>1. Claimed(agents, n, req[p].claim)
        BY <2>2, <2>4, <3>1 DEF Undisturbed
      <4>2. Claimed(disk, n, req[p].claim)
        BY <2>2, <3>1, <4>1 DEF IInv, GrantInv
      <4> QED BY <1>a, <2>3, <3>1, <4>1, <4>2
    <3>2. CASE ~(m = req[p].machine /\ n = req[p].name)
      <4>1. Holder(m, n)
        BY <1>a, <2>3, <3>2 DEF Holder
      <4> QED BY <1>a, <2>3, <2>4, <3>2, <4>1 DEF Held
    <3> QED BY <3>1, <3>2
  <2>7. ASSUME NEW q \in Calls, at'[q] # "idle", req'[q].name = n
        PROVE  Undisturbed(q, n)'
    <3>1. q # p /\ at[q] # "idle" /\ req[q].name = n /\ Undisturbed(q, n)
      BY <2>1, <2>4, <2>7
    <3>2. n # req[p].name
      BY <2>2, <2>4, <3>1 DEF OneCall
    <3>3. req[q].op = "release" => req[q].machine \in Machines
      BY <3>1 DEF IInv, Types, Request
    <3> QED BY <1>a, <2>1, <2>3, <2>7, <3>1, <3>2, <3>3 DEF Undisturbed, Granting, Holder
  <2> QED BY <2>5, <2>6, <2>7
<1> QED BY <1>1, <1>2, <1>3, <1>4, <1>5, <1>6, <1>7, <1>8, <1>9, <1>10, <1>11 DEF IInv

LEMMA ReplyEndsKeeps ==
  ASSUME IInv, NEW p \in Calls, ReplyEnds(p)
  PROVE  IInv'
PROOF
<1>1. Types'
  <2>1. released' \in SUBSET (Names \X Claims)
    <3>1. CASE req[p].op = "release" /\ good[p]
      <4>1. req[p].claim \in issued /\ issued \subseteq Claims
        BY <3>1 DEF IInv, Types, StepInv, ReplyEnds
      <4>2. req[p].name \in Names
        BY DEF IInv, Types, Request, ReplyEnds
      <4> QED BY <3>1, <4>1, <4>2 DEF IInv, Types, ReplyEnds
    <3>2. CASE ~(req[p].op = "release" /\ good[p])
      BY <3>2 DEF IInv, Types, ReplyEnds
    <3> QED BY <3>1, <3>2
  <2>2. at' \in [Calls -> Steps] /\ req' \in [Calls -> Request \cup {None}]
        /\ \A q \in Calls : at'[q] = "idle" <=> req'[q] = None
    BY DEF IInv, Types, ReplyEnds, End, Steps
  <2>3. doing' \in [Calls -> Changes \cup {None}] /\ good' \in [Calls -> BOOLEAN]
    BY DEF IInv, Types, ReplyEnds, End
  <2> QED BY <2>1, <2>2, <2>3 DEF IInv, Types, ReplyEnds
<1>2. DiskReadable'
  BY DEF IInv, DiskReadable, ReplyEnds
<1>3. ReservedHasAccount'
  BY DEF IInv, ReservedHasAccount, ReplyEnds
<1>4. GrantIsDurable'
  BY DEF IInv, GrantIsDurable, ReplyEnds
<1>5. ReleasedStaysReleased'
  BY DEF IInv, ReleasedStaysReleased, ReleaseInv, ReplyEnds
<1>6. LockInv'
  BY DEF IInv, LockInv, Locked, ReplyEnds, End
<1>7. StepInv'
  BY DEF IInv, StepInv, Locked, ReplyEnds, End
<1>8. ClaimInv'
  BY DEF IInv, ClaimInv, StepInv, Minted, ReplyEnds, End
<1>9. GrantInv'
  BY DEF IInv, GrantInv, Granting, ReplyEnds, End
<1>10. ReleaseInv'
  BY DEF IInv, ReleaseInv, ReplyEnds, End
<1>11. SequenceInv'
  BY DEF IInv, SequenceInv, OneCall, Held, Undisturbed, Granting, Holder, ReplyEnds, End
<1> QED BY <1>1, <1>2, <1>3, <1>4, <1>5, <1>6, <1>7, <1>8, <1>9, <1>10, <1>11 DEF IInv

LEMMA ReserveCheckedKeeps ==
  ASSUME IInv, NEW p \in Calls, NEW k \in Claims, ReserveChecked(p, k)
  PROVE  IInv'
PROOF
<1>1. Types'
  BY RegistryAssumption DEF IInv, Types, Steps, Request, ReserveChecked, Go, history
<1>2. DiskReadable'
  BY DEF IInv, DiskReadable, ReserveChecked
<1>3. ReservedHasAccount'
  BY DEF IInv, ReservedHasAccount, ReserveChecked
<1>4. GrantIsDurable'
  BY DEF IInv, GrantIsDurable, ReserveChecked
<1>5. ReleasedStaysReleased'
  BY DEF IInv, ReleasedStaysReleased, ReserveChecked, history
<1>6. LockInv'
  BY DEF IInv, LockInv, Locked, ReserveChecked, Go
<1>7. StepInv'
  BY RegistryAssumption DEF IInv, Types, StepInv, Locked, ReserveChecked, Go
<1>8. ClaimInv'
  BY DEF IInv, ClaimInv, StepInv, Minted, ReserveChecked, Go, history
<1>9. GrantInv'
  BY DEF IInv, GrantInv, Granting, ReserveChecked, Go
<1>10. ReleaseInv'
  BY DEF IInv, ReleaseInv, ReserveChecked, Go
<1>11. SequenceInv'
  BY SMTT(30) DEF IInv, SequenceInv, OneCall, Held, Undisturbed, Locked, Granting, Holder,
     ReserveChecked, Go, history
<1> QED BY <1>1, <1>2, <1>3, <1>4, <1>5, <1>6, <1>7, <1>8, <1>9, <1>10, <1>11 DEF IInv

LEMMA ReserveConflictKeeps ==
  ASSUME IInv, NEW p \in Calls, ReserveConflict(p)
  PROVE  IInv'
PROOF
<1>1. Types'
  BY DEF IInv, Types, Steps, ReserveConflict, Go, Fail, history
<1>2. DiskReadable'
  BY DEF IInv, DiskReadable, ReserveConflict
<1>3. ReservedHasAccount'
  BY DEF IInv, ReservedHasAccount, ReserveConflict
<1>4. GrantIsDurable'
  BY DEF IInv, GrantIsDurable, ReserveConflict
<1>5. ReleasedStaysReleased'
  BY DEF IInv, ReleasedStaysReleased, ReserveConflict, history
<1>6. LockInv'
  BY DEF IInv, LockInv, Locked, ReserveConflict, Go, Fail
<1>7. StepInv'
  BY DEF IInv, StepInv, Locked, ReserveConflict, Go, Fail
<1>8. ClaimInv'
  BY DEF IInv, ClaimInv, StepInv, Minted, ReserveConflict, Go, Fail, history
<1>9. GrantInv'
  BY DEF IInv, Types, GrantInv, Granting, ReserveConflict, Go, Fail
<1>10. ReleaseInv'
  BY DEF IInv, ReleaseInv, ReserveConflict, Go, Fail
<1>11. SequenceInv'
  BY DEF IInv, Types, SequenceInv, OneCall, Held, Undisturbed, Locked, Granting, Holder,
     ReserveConflict, Go, Fail, history
<1> QED BY <1>1, <1>2, <1>3, <1>4, <1>5, <1>6, <1>7, <1>8, <1>9, <1>10, <1>11 DEF IInv

LEMMA RegisterAgentKeeps ==
  ASSUME IInv, NEW p \in Calls, RegisterAgent(p)
  PROVE  IInv'
PROOF
<1>a. /\ at[p] = "account"
      /\ \/ at' = [at EXCEPT ![p] = "change"] /\ good' = good
         \/ at' = [at EXCEPT ![p] = "reply"] /\ good' = [good EXCEPT ![p] = FALSE]
  BY DEF RegisterAgent, Go, Fail
<1>1. Types'
  <2>1. accounts' \in SUBSET Names
    BY DEF IInv, Types, Request, RegisterAgent
  <2>2. at' \in [Calls -> Steps] /\ good' \in [Calls -> BOOLEAN]
        /\ \A q \in Calls : at'[q] = "idle" <=> at[q] = "idle"
    BY <1>a DEF IInv, Types, Steps
  <2> QED BY <2>1, <2>2 DEF IInv, Types, RegisterAgent, history
<1>2. DiskReadable'
  BY DEF IInv, DiskReadable, RegisterAgent
<1>3. ReservedHasAccount'
  BY DEF IInv, ReservedHasAccount, RegisterAgent
<1>4. GrantIsDurable'
  BY DEF IInv, GrantIsDurable, RegisterAgent
<1>5. ReleasedStaysReleased'
  BY DEF IInv, ReleasedStaysReleased, RegisterAgent, history
<1>6. LockInv'
  BY DEF IInv, Types, LockInv, Locked, RegisterAgent, Go, Fail
<1>7. StepInv'
  <2>1. /\ UNCHANGED <<agents, doing, req, issued>>
        /\ at'[p] = "change" => accounts' = accounts \cup {req[p].name}
        /\ accounts \subseteq accounts'
    BY DEF RegisterAgent, Go, Fail, IInv, Types
  <2>2. req[p].op = "reserve" /\ req[p].claim # None
    BY <1>a DEF IInv, StepInv
  <2> QED BY <1>a, <2>1, <2>2 DEF IInv, Types, StepInv, Locked
<1>8. ClaimInv'
  BY DEF IInv, Types, ClaimInv, Minted, RegisterAgent, Go, Fail, history
<1>9. GrantInv'
  BY DEF IInv, Types, GrantInv, Granting, RegisterAgent, Go, Fail
<1>10. ReleaseInv'
  BY DEF IInv, Types, ReleaseInv, RegisterAgent, Go, Fail
<1>11. SequenceInv'
  BY DEF IInv, Types, SequenceInv, StepInv, OneCall, Held, Undisturbed, Locked, Granting,
     Holder, RegisterAgent, Go, Fail, history
<1> QED BY <1>1, <1>2, <1>3, <1>4, <1>5, <1>6, <1>7, <1>8, <1>9, <1>10, <1>11 DEF IInv

LEMMA authorizeKeeps ==
  ASSUME IInv, NEW p \in Calls, authorize(p)
  PROVE  IInv'
PROOF
<1>a. /\ at[p] = "check"
      /\ \/ at' = [at EXCEPT ![p] = "change"] /\ good' = good
         \/ at' = [at EXCEPT ![p] = "reply"] /\ good' = [good EXCEPT ![p] = FALSE]
  BY DEF authorize, Go, Fail
<1>1. Types'
  <2>1. at' \in [Calls -> Steps] /\ good' \in [Calls -> BOOLEAN]
        /\ \A q \in Calls : at'[q] = "idle" <=> at[q] = "idle"
    BY <1>a DEF IInv, Types, Steps
  <2> QED BY <2>1 DEF IInv, Types, authorize, history
<1>2. DiskReadable'
  BY DEF IInv, DiskReadable, authorize
<1>3. ReservedHasAccount'
  BY DEF IInv, ReservedHasAccount, authorize
<1>4. GrantIsDurable'
  BY DEF IInv, GrantIsDurable, authorize
<1>5. ReleasedStaysReleased'
  BY DEF IInv, ReleasedStaysReleased, authorize, history
<1>6. LockInv'
  BY DEF IInv, Types, LockInv, Locked, authorize, Go, Fail
<1>7. StepInv'
  BY RegistryAssumption DEF IInv, Types, StepInv, Locked, authorize, Go, Fail
<1>8. ClaimInv'
  BY DEF IInv, Types, ClaimInv, Minted, authorize, Go, Fail, history
<1>9. GrantInv'
  BY DEF IInv, Types, GrantInv, Granting, authorize, Go, Fail
<1>10. ReleaseInv'
  BY DEF IInv, Types, ReleaseInv, authorize, Go, Fail
<1>11. SequenceInv'
  <2>1. UNCHANGED <<up, agents, disk, store, req, asked, overlapped>>
    BY DEF authorize, history
  <2>2. req[p].op # "reserve" /\ (at'[p] = "change" => Claimed(agents, req[p].name, req[p].claim))
    BY DEF authorize, Go, Fail, IInv, Types
  <2>3. up
    BY <1>a DEF IInv, LockInv
  <2> SUFFICES ASSUME NEW n \in Names, n \notin overlapped
               PROVE  /\ OneCall(n)' /\ Held(n)'
                      /\ \A q \in Calls : at'[q] # "idle" /\ req'[q].name = n => Undisturbed(q, n)'
    BY <2>1 DEF SequenceInv
  <2>4. OneCall(n) /\ Held(n) /\ \A q \in Calls : at[q] # "idle" /\ req[q].name = n => Undisturbed(q, n)
    BY DEF IInv, SequenceInv
  <2>5. OneCall(n)' /\ Held(n)'
    BY <1>a, <2>1, <2>4 DEF OneCall, Held, Holder, IInv, Types
  <2>6. ASSUME NEW q \in Calls, q # p, at'[q] # "idle", req'[q].name = n
        PROVE  Undisturbed(q, n)'
    BY <1>a, <2>1, <2>4, <2>6 DEF Undisturbed, Granting, Holder, IInv, Types
  <2>7. ASSUME req[p].name = n PROVE Undisturbed(p, n)'
    <3>1. Undisturbed(p, n)
      BY <1>a, <2>4, <2>7
    <3>2. ASSUME req[p].op = "release", at'[p] = "change", NEW m \in Machines PROVE ~Holder(m, n)
      <4>1. SUFFICES ASSUME Holder(m, n) PROVE FALSE
        OBVIOUS
      <4>2. Claimed(agents, n, store[m][n]) /\ store[m][n] # None
        BY <2>3, <2>4, <4>1 DEF Held, Holder
      <4>3. store[req[p].machine][n] = store[m][n] /\ <<req[p].machine, n>> \in asked
        BY <2>2, <2>7, <3>1, <3>2, <4>2 DEF Undisturbed, Claimed
      <4>4. req[p].machine = m
        BY <4>2, <4>3, <1>a DEF IInv, ClaimInv, Types
      <4> QED BY <4>1, <4>3, <4>4 DEF Holder
    <3> QED BY <1>a, <2>1, <2>2, <3>1, <3>2 DEF Undisturbed, Granting, Holder, Locked, IInv,
               Types
  <2> QED BY <2>1, <2>5, <2>6, <2>7
<1> QED BY <1>1, <1>2, <1>3, <1>4, <1>5, <1>6, <1>7, <1>8, <1>9, <1>10, <1>11 DEF IInv

LEMMA ReserveKeeps ==
  ASSUME IInv, NEW p \in Calls, Reserve(p)
  PROVE  IInv'
PROOF
<1>1. Types'
  BY DEF IInv, Types, StepInv, Steps, Changes, File, Record, Request, Reserve, Change, Go,
     history
<1>2. DiskReadable'
  BY DEF IInv, DiskReadable, Reserve, Change
<1>3. ReservedHasAccount'
  BY DEF IInv, ReservedHasAccount, StepInv, Reserve, Change
<1>4. GrantIsDurable'
  BY DEF IInv, GrantIsDurable, ClaimInv, Minted, Claimed, Reserve, Change
<1>5. ReleasedStaysReleased'
  BY DEF IInv, ReleasedStaysReleased, ClaimInv, Minted, StepInv, Claimed, Reserve, Change,
     history
<1>6. LockInv'
  BY DEF IInv, LockInv, Locked, Reserve, Change, Go, Unlocked
<1>7. StepInv'
  BY DEF IInv, Types, StepInv, Reserve, Change, Go, Unlocked
<1>8. ClaimInv'
  BY DEF IInv, Types, ClaimInv, StepInv, Claimed, Minted, Reserve, Change, Go, history
<1>9. GrantInv'
  BY DEF IInv, GrantInv, ClaimInv, Minted, Granting, Claimed, Reserve, Change, Go
<1>10. ReleaseInv'
  BY DEF IInv, ReleaseInv, ClaimInv, StepInv, Minted, Claimed, Reserve, Change, Go
<1>11. SequenceInv'
  <2>1. /\ at[p] = "change" /\ req[p].op = "reserve" /\ req[p].name \in Names
        /\ at' = [at EXCEPT ![p] = "save"] /\ up
        /\ \A n \in Names : n # req[p].name => agents'[n] = agents[n]
        /\ Claimed(agents, req[p].name, req[p].claim)'
        /\ UNCHANGED <<up, disk, store, req, good, asked, overlapped>>
    <3>1. req[p] \in Request /\ req[p].claim \in Claims /\ up
      BY DEF IInv, Types, StepInv, LockInv, Request, Reserve
    <3>2. [status |-> "reserved", claim |-> req[p].claim] # None
      BY <3>1, RegistryAssumption DEF Record
    <3> QED BY <3>1, <3>2 DEF IInv, Types, File, Request, Reserve, Change, Go, Claimed,
               history
  <2> SUFFICES ASSUME NEW n \in Names, n \notin overlapped
               PROVE  /\ OneCall(n)' /\ Held(n)'
                      /\ \A q \in Calls : at'[q] # "idle" /\ req'[q].name = n => Undisturbed(q, n)'
    BY <2>1 DEF SequenceInv
  <2>2. OneCall(n) /\ Held(n) /\ \A q \in Calls : at[q] # "idle" /\ req[q].name = n => Undisturbed(q, n)
    BY DEF IInv, SequenceInv
  <2>3. OneCall(n)'
    BY <2>1, <2>2 DEF OneCall, IInv
  <2>4. CASE n # req[p].name
    BY <2>1, <2>2, <2>3, <2>4 DEF Held, Undisturbed, Claimed, Granting, Holder, IInv
  <2>5. CASE n = req[p].name
    <3>1. agents[n] = None /\ \A m \in Machines : ~Holder(m, n)
      BY <2>1, <2>2, <2>5 DEF Undisturbed, Held, Claimed
    <3>2. Held(n)'
      BY <2>1, <3>1 DEF Held, Holder
    <3>3. \A q \in Calls : at'[q] # "idle" /\ req'[q].name = n => q = p
      BY <2>1, <2>2, <2>5 DEF OneCall, IInv
    <3>4. Undisturbed(p, n)'
      BY <2>1, <2>5 DEF Undisturbed, IInv, Types
    <3> QED BY <2>3, <3>2, <3>3, <3>4
  <2> QED BY <2>4, <2>5
<1> QED BY <1>1, <1>2, <1>3, <1>4, <1>5, <1>6, <1>7, <1>8, <1>9, <1>10, <1>11 DEF IInv

LEMMA SetServingKeeps ==
  ASSUME IInv, NEW p \in Calls, SetServing(p)
  PROVE  IInv'
PROOF
<1>a. /\ \A n \in Names, k \in Claims : Claimed(agents, n, k)' <=> Claimed(agents, n, k)
      /\ \A n \in Names : agents'[n] = None <=> agents[n] = None
      /\ agents' \in File
  <2>1. CASE agents[req[p].name] = None
    <3>1. agents' = agents
      BY <2>1 DEF SetServing
    <3> QED BY <3>1 DEF IInv, Types
  <2>2. CASE agents[req[p].name] # None
    <3> DEFINE n == req[p].name
               r == [agents[n] EXCEPT !.status = IF req[p].op = "register" THEN "serving"
                                                                           ELSE "reserved"]
    <3>1. n \in Names /\ agents[n] \in Record
      BY <2>2 DEF IInv, Types, File, Request, SetServing
    <3>2. r \in Record /\ r.claim = agents[n].claim /\ r # None
      BY <3>1, RegistryAssumption DEF Record
    <3>3. agents' = [agents EXCEPT ![n] = r]
      BY <2>2 DEF SetServing, Change
    <3>4. agents[n] # None
      BY <2>2
    <3> HIDE DEF n, r
    <3>5. agents' \in File
      BY <3>1, <3>2, <3>3 DEF IInv, Types, File
    <3>6. \A o \in Names : agents'[o] = IF o = n THEN r ELSE agents[o]
      BY <3>1, <3>3 DEF IInv, Types, File
    <3> QED BY <3>1, <3>2, <3>4, <3>5, <3>6 DEF Claimed
  <2> QED BY <2>1, <2>2
<1>b. /\ at[p] = "change" /\ req[p].op # "reserve"
      /\ \E step \in {"save", "free", "reply"} :
           /\ at' = [at EXCEPT ![p] = step]
           /\ step = "free" => req[p].op = "release"
           /\ step = "save" => doing'[p] = IF req[p].op = "register" THEN "on" ELSE "off"
           /\ step = "reply" => req[p].op # "release"
      /\ \A q \in Calls : q # p => doing'[q] = doing[q]
      /\ doing' \in [Calls -> Changes \cup {None}]
      /\ \A q \in Calls : at[q] \notin Locked
      /\ UNCHANGED <<up, disk, temp, accounts, issued, store, req, good, history>>
  <2>1. doing' \in [Calls -> Changes \cup {None}] /\ \A q \in Calls : q # p => doing'[q] = doing[q]
    BY DEF SetServing, Change, IInv, Types, Changes
  <2>2. \E step \in {"save", "free", "reply"} :
            /\ at' = [at EXCEPT ![p] = step]
            /\ step = "free" => req[p].op = "release"
            /\ step = "save" => doing'[p] = IF req[p].op = "register" THEN "on" ELSE "off"
            /\ step = "reply" => req[p].op # "release"
    BY DEF SetServing, Change, Go, Onward, IInv, Types
  <2> QED BY <2>1, <2>2 DEF SetServing, Change, Unlocked
<1>c. /\ \A n \in Names, k \in Claims : Claimed(disk, n, k)' <=> Claimed(disk, n, k)
      /\ \A q \in Calls : at[q] # "idle" =>
           req[q].name \in Names /\ req[q].machine \in Machines /\ req[q].claim \in Claims \cup {None}
      /\ \A q \in Calls : at[q] # "idle" /\ req[q].op = "release" => req[q].claim \in Claims
      /\ \A q \in Calls : at'[q] = "idle" <=> at[q] = "idle"
  <2>1. \A q \in Calls : at[q] # "idle" => req[q] \in Request
    BY DEF IInv, Types
  <2>2. \A q \in Calls : at[q] # "idle" /\ req[q].op = "release" => req[q].claim \in Claims
    BY DEF IInv, Types, StepInv
  <2>3. \A q \in Calls : at'[q] = "idle" <=> at[q] = "idle"
    BY <1>b DEF IInv
  <2> QED BY <1>b, <2>1, <2>2, <2>3 DEF Request
<1>1. Types'
  <2>1. at' \in [Calls -> Steps]
    BY <1>b DEF IInv, Types, Steps
  <2> QED BY <1>a, <1>b, <1>c, <2>1 DEF IInv, Types, history
<1>2. DiskReadable'
  BY <1>a, <1>b DEF IInv, DiskReadable
<1>3. ReservedHasAccount'
  BY <1>a, <1>b DEF IInv, ReservedHasAccount
<1>4. GrantIsDurable'
  BY <1>a, <1>b DEF IInv, Types, GrantIsDurable
<1>5. ReleasedStaysReleased'
  BY <1>a, <1>b DEF IInv, ReleasedStaysReleased, history
<1>6. LockInv'
  BY <1>a, <1>b DEF IInv, LockInv, Locked
<1>7. StepInv'
  BY <1>a, <1>b DEF IInv, StepInv, Locked
<1>8. ClaimInv'
  BY <1>a, <1>b DEF IInv, Types, ClaimInv, Minted, history
<1>9. GrantInv'
  <2>1. \A q \in Calls : Granting(q)' => Granting(q) /\ at[q] # "idle"
    BY <1>b DEF IInv, Granting
  <2> QED BY <1>a, <1>b, <1>c, <2>1 DEF IInv, GrantInv
<1>10. ReleaseInv'
  <2>1. \A q \in Calls : at'[q] = "reply" /\ req[q].op = "release" => at[q] = "reply"
    BY <1>b DEF IInv
  <2> QED BY <1>a, <1>b, <1>c, <2>1 DEF IInv, ReleaseInv
<1>11. SequenceInv'
  <2>1. \A m \in Machines, n \in Names : /\ Holder(m, n)' <=> Holder(m, n)
                                         /\ Holder(m, n) => store[m][n] \in Claims
    BY <1>b DEF Holder, IInv, Types, history
  <2>2. \A q \in Calls : Granting(q)' => Granting(q) /\ at[q] # "idle"
    BY <1>b DEF IInv, Granting
  <2>3. \A q \in Calls : /\ at'[q] \in {"account", "change"} => at[q] = at'[q]
                         /\ at'[q] \in Locked => at[q] \in Locked \/ q = p
                         /\ at'[q] = "free" => at[q] = "free" \/ q = p
                         /\ Granting(q) => req[q].claim \in Claims
                         /\ at[q] \in Locked => req[q].claim \in Claims
    BY <1>b, <1>c DEF IInv, GrantInv, Granting
  <2> SUFFICES ASSUME NEW n \in Names, n \notin overlapped
               PROVE  /\ OneCall(n)' /\ Held(n)'
                      /\ \A q \in Calls : at'[q] # "idle" /\ req'[q].name = n => Undisturbed(q, n)'
    BY <1>b DEF SequenceInv, history
  <2>4. OneCall(n) /\ Held(n) /\ \A q \in Calls : at[q] # "idle" /\ req[q].name = n => Undisturbed(q, n)
    BY DEF IInv, SequenceInv
  <2>5. OneCall(n)'
    BY <1>b, <1>c, <2>4 DEF OneCall
  <2>6. Held(n)'
    BY <1>a, <1>b, <1>c, <2>1, <2>4 DEF Held
  <2>7. ASSUME NEW q \in Calls, at[q] # "idle", req[q].name = n PROVE Undisturbed(q, n)'
    <3>1. Undisturbed(q, n)
      BY <2>4, <2>7
    <3> QED BY <1>a, <1>b, <2>1, <2>2, <2>3, <3>1 DEF Undisturbed, history
  <2> QED BY <1>b, <1>c, <2>5, <2>6, <2>7
<1> QED BY <1>1, <1>2, <1>3, <1>4, <1>5, <1>6, <1>7, <1>8, <1>9, <1>10, <1>11 DEF IInv

LEMMA ReleaseKeeps ==
  ASSUME IInv, NEW p \in Calls, Release(p)
  PROVE  IInv'
PROOF
<1>1. Types'
  BY DEF IInv, Types, Steps, Changes, File, Release, Change, Go, history
<1>2. DiskReadable'
  BY DEF IInv, DiskReadable, Release, Change
<1>3. ReservedHasAccount'
  BY DEF IInv, ReservedHasAccount, Release, Change
<1>4. GrantIsDurable'
  BY DEF IInv, GrantIsDurable, Claimed, Release, Change
<1>5. ReleasedStaysReleased'
  BY DEF IInv, ReleasedStaysReleased, Claimed, Release, Change, history
<1>6. LockInv'
  BY DEF IInv, LockInv, Locked, Release, Change, Go, Unlocked
<1>7. StepInv'
  <2>1. /\ at[p] = "free" /\ at' = [at EXCEPT ![p] = "save"]
        /\ doing' = [doing EXCEPT ![p] = "delete"] /\ agents' = [agents EXCEPT ![req[p].name] = None]
        /\ \A q \in Calls : at[q] \notin Locked
        /\ UNCHANGED <<accounts, issued, req>>
    BY DEF Release, Change, Go, Unlocked
  <2>2. req[p].op = "release" /\ req[p].claim # None /\ req[p].name \in Names
    BY <2>1 DEF IInv, Types, StepInv, Request
  <2> QED BY <2>1, <2>2 DEF IInv, Types, StepInv, File
<1>8. ClaimInv'
  BY DEF IInv, ClaimInv, Claimed, Minted, Release, Change, Go, history
<1>9. GrantInv'
  BY RegistryAssumption DEF IInv, GrantInv, Granting, Claimed, Release, Change, Go, Unlocked
<1>10. ReleaseInv'
  BY DEF IInv, ReleaseInv, Claimed, Release, Change, Go
<1>11. SequenceInv'
  <2>1. /\ at[p] = "free" /\ req[p].op = "release" /\ req[p].name \in Names
        /\ at' = [at EXCEPT ![p] = "save"] /\ up
        /\ \A n \in Names : n # req[p].name => agents'[n] = agents[n]
        /\ UNCHANGED <<up, disk, store, req, good, asked, overlapped>>
    BY DEF IInv, Types, StepInv, LockInv, Request, Release, Change, Go, history
  <2> SUFFICES ASSUME NEW n \in Names, n \notin overlapped
               PROVE  /\ OneCall(n)' /\ Held(n)'
                      /\ \A q \in Calls : at'[q] # "idle" /\ req'[q].name = n => Undisturbed(q, n)'
    BY <2>1 DEF SequenceInv
  <2>2. OneCall(n) /\ Held(n) /\ \A q \in Calls : at[q] # "idle" /\ req[q].name = n => Undisturbed(q, n)
    BY DEF IInv, SequenceInv
  <2>3. OneCall(n)'
    BY <2>1, <2>2 DEF OneCall, IInv
  <2>4. CASE n # req[p].name
    BY <2>1, <2>2, <2>3, <2>4 DEF Held, Undisturbed, Claimed, Granting, Holder, IInv
  <2>5. CASE n = req[p].name
    <3>1. Undisturbed(p, n) /\ \A m \in Machines : ~Holder(m, n)
      BY <2>1, <2>2, <2>5 DEF Undisturbed
    <3>2. Held(n)'
      BY <2>1, <3>1 DEF Held, Holder
    <3>3. \A q \in Calls : at'[q] # "idle" /\ req'[q].name = n => q = p
      BY <2>1, <2>2, <2>5 DEF OneCall, IInv
    <3>4. Undisturbed(p, n)'
      BY <2>1, <2>5, <3>1 DEF Undisturbed, Granting, Holder, IInv
    <3> QED BY <2>3, <3>2, <3>3, <3>4
  <2> QED BY <2>4, <2>5
<1> QED BY <1>1, <1>2, <1>3, <1>4, <1>5, <1>6, <1>7, <1>8, <1>9, <1>10, <1>11 DEF IInv

LEMMA BeginWriteKeeps ==
  ASSUME IInv, NEW p \in Calls, BeginWrite(p)
  PROVE  IInv'
PROOF
<1>1. Types'
  BY DEF IInv, Types, Steps, BeginWrite, Go, history
<1>2. DiskReadable'
  BY DEF IInv, DiskReadable, BeginWrite
<1>3. ReservedHasAccount'
  BY DEF IInv, ReservedHasAccount, BeginWrite
<1>4. GrantIsDurable'
  BY DEF IInv, GrantIsDurable, BeginWrite
<1>5. ReleasedStaysReleased'
  BY DEF IInv, ReleasedStaysReleased, BeginWrite, history
<1>6. LockInv'
  BY DEF IInv, LockInv, Locked, BeginWrite, Go
<1>7. StepInv'
  BY DEF IInv, StepInv, Locked, BeginWrite, Go
<1>8. ClaimInv'
  BY DEF IInv, ClaimInv, Minted, BeginWrite, Go, history
<1>9. GrantInv'
  BY DEF IInv, GrantInv, Granting, BeginWrite, Go
<1>10. ReleaseInv'
  BY DEF IInv, ReleaseInv, BeginWrite, Go
<1>11. SequenceInv'
  BY DEF IInv, SequenceInv, OneCall, Held, Undisturbed, Locked, Granting, Holder,
     BeginWrite, Go, history
<1> QED BY <1>1, <1>2, <1>3, <1>4, <1>5, <1>6, <1>7, <1>8, <1>9, <1>10, <1>11 DEF IInv

LEMMA EndWriteKeeps ==
  ASSUME IInv, NEW p \in Calls, EndWrite(p)
  PROVE  IInv'
PROOF
<1>1. Types'
  BY DEF IInv, Types, Steps, EndWrite, Go, history
<1>2. DiskReadable'
  BY DEF IInv, DiskReadable, EndWrite
<1>3. ReservedHasAccount'
  BY DEF IInv, ReservedHasAccount, EndWrite
<1>4. GrantIsDurable'
  BY DEF IInv, GrantIsDurable, EndWrite
<1>5. ReleasedStaysReleased'
  BY DEF IInv, ReleasedStaysReleased, EndWrite, history
<1>6. LockInv'
  BY DEF IInv, LockInv, Locked, EndWrite, Go
<1>7. StepInv'
  BY DEF IInv, StepInv, Locked, EndWrite, Go
<1>8. ClaimInv'
  BY DEF IInv, ClaimInv, Minted, EndWrite, Go, history
<1>9. GrantInv'
  BY DEF IInv, GrantInv, Granting, EndWrite, Go
<1>10. ReleaseInv'
  BY DEF IInv, ReleaseInv, EndWrite, Go
<1>11. SequenceInv'
  BY DEF IInv, SequenceInv, OneCall, Held, Undisturbed, Locked, Granting, Holder, EndWrite,
     Go, history
<1> QED BY <1>1, <1>2, <1>3, <1>4, <1>5, <1>6, <1>7, <1>8, <1>9, <1>10, <1>11 DEF IInv

LEMMA RenameKeeps ==
  ASSUME IInv, NEW p \in Calls, Rename(p)
  PROVE  IInv'
PROOF
<1>1. Types'
  BY DEF IInv, Types, LockInv, Steps, Rename, Go, Onward, history
<1>2. DiskReadable'
  BY RegistryAssumption DEF IInv, DiskReadable, LockInv, Types, Rename
<1>3. ReservedHasAccount'
  BY DEF IInv, ReservedHasAccount, LockInv, Rename
<1>4. GrantIsDurable'
  BY DEF IInv, GrantIsDurable, LockInv, Rename
<1>5. ReleasedStaysReleased'
  BY DEF IInv, ReleasedStaysReleased, LockInv, Rename, history
<1>6. LockInv'
  BY DEF IInv, Types, LockInv, Locked, Rename, Go, Onward
<1>7. StepInv'
  BY DEF IInv, StepInv, Locked, Rename, Go, Onward
<1>8. ClaimInv'
  BY DEF IInv, ClaimInv, LockInv, Minted, Rename, Go, Onward, history
<1>9. GrantInv'
  <2>1. at[p] = "written" /\ disk' = agents /\ at' = [at EXCEPT ![p] = Onward(p, doing[p])]
        /\ UNCHANGED <<agents, req, doing>> /\ \A q \in Calls : q # p => good'[q] = good[q]
    BY DEF IInv, LockInv, Rename, Go
  <2>2. req[p].claim # None
    BY <2>1 DEF IInv, StepInv, Locked
  <2> QED BY <2>1, <2>2 DEF IInv, GrantInv, Granting
<1>10. ReleaseInv'
  <2>1. at[p] = "written" /\ disk' = agents /\ at' = [at EXCEPT ![p] = Onward(p, doing[p])]
        /\ UNCHANGED <<agents, req, doing>> /\ \A q \in Calls : q # p => good'[q] = good[q]
    BY DEF IInv, LockInv, Rename, Go
  <2>2. ASSUME at'[p] = "reply", req[p].op = "release"
        PROVE  agents[req[p].name] = None
    <3>1. doing[p] # "off" /\ doing[p] # "put"
      BY <2>1, <2>2 DEF IInv, StepInv, Onward, Locked
    <3> QED BY <2>1, <2>2, <3>1 DEF IInv, StepInv, Locked
  <2> QED BY <2>1, <2>2 DEF IInv, ReleaseInv, Claimed
<1>11. SequenceInv'
  BY DEF IInv, SequenceInv, LockInv, OneCall, Held, Undisturbed, Locked, Granting, Holder,
     Rename, Go, Onward, history
<1> QED BY <1>1, <1>2, <1>3, <1>4, <1>5, <1>6, <1>7, <1>8, <1>9, <1>10, <1>11 DEF IInv

LEMMA SaveFailsKeeps ==
  ASSUME IInv, NEW p \in Calls, SaveFails(p)
  PROVE  IInv'
PROOF
<1>1. Types'
  BY DEF IInv, Types, Steps, Locked, SaveFails, Go, Onward, history
<1>2. DiskReadable'
  BY DEF IInv, DiskReadable, SaveFails
<1>3. ReservedHasAccount'
  BY DEF IInv, ReservedHasAccount, SaveFails
<1>4. GrantIsDurable'
  BY DEF IInv, GrantIsDurable, SaveFails
<1>5. ReleasedStaysReleased'
  BY DEF IInv, ReleasedStaysReleased, SaveFails, history
<1>6. LockInv'
  BY DEF IInv, LockInv, Locked, SaveFails, Go, Onward
<1>7. StepInv'
  BY DEF IInv, StepInv, Locked, SaveFails, Go, Onward
<1>8. ClaimInv'
  <2>1. /\ at' = [at EXCEPT ![p] = Onward(p, doing[p])] /\ at[p] \in Locked
        /\ UNCHANGED <<agents, disk, store, issued, req, released>>
    BY DEF SaveFails, Go, history
  <2>2. at'[p] \in {"free", "reply"} /\ at[p] \notin {"idle", "check"}
    BY <2>1 DEF IInv, Types, Onward, Locked
  <2>3. \A q \in Calls : /\ Minted(q)' => Minted(q)
                         /\ at'[q] = "idle" <=> at[q] = "idle"
                         /\ at'[q] \in {"account", "change"} => at[q] = at'[q]
    BY <2>1, <2>2 DEF IInv, Minted
  <2> QED BY <2>1, <2>3 DEF IInv, ClaimInv
<1>9. GrantInv'
  BY DEF IInv, Types, GrantInv, Granting, SaveFails, Go
<1>10. ReleaseInv'
  BY DEF IInv, Types, ReleaseInv, SaveFails, Go
<1>11. SequenceInv'
  BY DEF IInv, SequenceInv, OneCall, Held, Undisturbed, Locked, Granting, Holder, SaveFails,
     Go, Onward, history
<1> QED BY <1>1, <1>2, <1>3, <1>4, <1>5, <1>6, <1>7, <1>8, <1>9, <1>10, <1>11 DEF IInv

LEMMA CrashKeeps ==
  ASSUME IInv, Crash
  PROVE  IInv'
PROOF
<1>1. Types'
  BY DEF IInv, Types, Steps, File, Crash, End, empty, history
<1>2. DiskReadable'
  BY DEF IInv, DiskReadable, Crash
<1>3. ReservedHasAccount'
  BY DEF IInv, ReservedHasAccount, Crash, empty
<1>4. GrantIsDurable'
  BY DEF IInv, GrantIsDurable, Claimed, Crash, empty
<1>5. ReleasedStaysReleased'
  BY DEF IInv, ReleasedStaysReleased, Claimed, Crash, empty, history
<1>6. LockInv'
  BY DEF IInv, LockInv, Locked, Crash, End
<1>7. StepInv'
  BY DEF IInv, StepInv, Locked, Crash, End
<1>8. ClaimInv'
  BY DEF IInv, ClaimInv, Claimed, Minted, Crash, End, empty, history
<1>9. GrantInv'
  BY DEF IInv, GrantInv, Granting, Crash, End
<1>10. ReleaseInv'
  BY DEF IInv, ReleaseInv, Crash, End
<1>11. SequenceInv'
  BY DEF IInv, SequenceInv, OneCall, Held, Holder, Crash, End, history
<1> QED BY <1>1, <1>2, <1>3, <1>4, <1>5, <1>6, <1>7, <1>8, <1>9, <1>10, <1>11 DEF IInv

LEMMA StartKeeps ==
  ASSUME IInv, Start
  PROVE  IInv'
PROOF
<1>1. Types'
  BY DEF IInv, Types, Start, callVars, history
<1>2. DiskReadable'
  BY DEF IInv, DiskReadable, Start
<1>3. ReservedHasAccount'
  BY DEF IInv, ReservedHasAccount, Start
<1>4. GrantIsDurable'
  BY DEF IInv, GrantIsDurable, Start
<1>5. ReleasedStaysReleased'
  BY DEF IInv, ReleasedStaysReleased, Start, history
<1>6. LockInv'
  BY DEF IInv, LockInv, Start, callVars
<1>7. StepInv'
  BY DEF IInv, StepInv, LockInv, Locked, Start, callVars
<1>8. ClaimInv'
  BY DEF IInv, ClaimInv, Minted, Start, callVars, history
<1>9. GrantInv'
  BY DEF IInv, GrantInv, Granting, Start, callVars
<1>10. ReleaseInv'
  BY DEF IInv, ReleaseInv, Start, callVars
<1>11. SequenceInv'
  BY DEF IInv, SequenceInv, LockInv, OneCall, Held, Holder, Start, callVars, history
<1> QED BY <1>1, <1>2, <1>3, <1>4, <1>5, <1>6, <1>7, <1>8, <1>9, <1>10, <1>11 DEF IInv
-----------------------------------------------------------------------------
(* The invariant, and what follows from it.                                *)

LEMMA InitIInv == Init => IInv
PROOF
<1> SUFFICES ASSUME Init PROVE IInv
  OBVIOUS
<1>1. Types /\ DiskReadable
  BY RegistryAssumption DEF Init, Types, DiskReadable, File, Steps, empty
<1>2. ReservedHasAccount /\ GrantIsDurable /\ ReleasedStaysReleased
  BY DEF Init, ReservedHasAccount, GrantIsDurable, ReleasedStaysReleased, empty
<1>3. LockInv /\ StepInv /\ GrantInv /\ ReleaseInv
  BY DEF Init, LockInv, StepInv, GrantInv, Granting, ReleaseInv, Locked
<1>4. ClaimInv /\ SequenceInv
  BY DEF Init, ClaimInv, Minted, Claimed, SequenceInv, OneCall, Held, Holder, empty
<1> QED BY <1>1, <1>2, <1>3, <1>4 DEF IInv

LEMMA NextIInv == IInv /\ [Next]_vars => IInv'
PROOF
<1> SUFFICES ASSUME IInv, [Next]_vars PROVE IInv'
  OBVIOUS
<1>1. ASSUME NEW p \in Calls, CallNext(p) PROVE IInv'
  BY <1>1, SendReserveKeeps, SendClaimedKeeps, GrantArrivesKeeps, ReplyEndsKeeps,
     ReserveCheckedKeeps, ReserveConflictKeeps, RegisterAgentKeeps, authorizeKeeps,
     ReserveKeeps, SetServingKeeps, ReleaseKeeps, BeginWriteKeeps, EndWriteKeeps, RenameKeeps,
     SaveFailsKeeps DEF CallNext
<1>2. CASE UNCHANGED vars
  BY <1>2 DEF vars, callVars, history, IInv, Types, DiskReadable, ReservedHasAccount,
     GrantIsDurable, ReleasedStaysReleased, LockInv, StepInv, ClaimInv, Minted, GrantInv,
     Granting, ReleaseInv, SequenceInv, OneCall, Held, Undisturbed, Holder
<1> QED BY <1>1, <1>2, CrashKeeps, StartKeeps DEF Next

LEMMA Invariance == Spec => []IInv
PROOF BY InitIInv, NextIInv, PTL DEF Spec

\* Records, files, claims and every handler's place stay well formed, and at most
\* one call is between the locking of State.mu and its release.
THEOREM Typing == Spec => []TypeOK
PROOF
<1>1. IInv => TypeOK
  BY DEF IInv, LockInv, TypeOK
<1> QED BY <1>1, Invariance, PTL

\* save writes a temporary file and renames it: no crash leaves state.json torn.
THEOREM DiskStaysReadable == Spec => []DiskReadable
PROOF
<1>1. IInv => DiskReadable
  BY DEF IInv
<1> QED BY <1>1, Invariance, PTL

\* handleReserve creates the account before it records the name.
THEOREM AccountsPrecedeNames == Spec => []ReservedHasAccount
PROOF
<1>1. IInv => ReservedHasAccount
  BY DEF IInv
<1> QED BY <1>1, Invariance, PTL

\* The server answers a reservation only after the claim is in state.json, and
\* no later failed save or crash undoes that while the claim is in force.
THEOREM GrantsAreDurable == Spec => []GrantIsDurable
PROOF
<1>1. IInv => GrantIsDurable
  BY DEF IInv
<1> QED BY <1>1, Invariance, PTL

\* SetServing never brings back a record that a release has deleted, and a
\* restart does not either.
THEOREM ReleasesAreFinal == Spec => []ReleasedStaysReleased
PROOF
<1>1. IInv => ReleasedStaysReleased
  BY DEF IInv
<1> QED BY <1>1, Invariance, PTL

\* The check of the claim protects the holder of a name against every other
\* machine as long as the commands for the name do not overlap.
THEOREM SequentialHolderIsSafe == Spec => []HolderKeepsNameInSequence
PROOF
<1>1. IInv => HolderKeepsNameInSequence
  BY DEF IInv, SequenceInv, Held, HolderKeepsNameInSequence
<1> QED BY <1>1, Invariance, PTL
=============================================================================
