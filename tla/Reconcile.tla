------------------------------ MODULE Reconcile ------------------------------
(***************************************************************************)
(* The reconciler joins every agent to every space and to the rooms of the *)
(* space: in a pass over all agents by a timer, and in a pass over one     *)
(* agent after its reservation.  The homeserver and the people on it do    *)
(* not wait for a pass: spaces are listed page by page while rooms come    *)
(* and go, and any call may fail.                                          *)
(***************************************************************************)
EXTENDS Naturals, Sequences, SequencesExt

CONSTANTS
  Names,       \* the names that may be reserved
  Spaces,      \* the spaces, ...
  Others,      \* ... and the other rooms that there may be: channels and chats
  Children,    \* Children[s]: the rooms in space s, and in spaces in it, if they exist
  Timer,       \* the pass of the timer
  Requests,    \* the passes after reservations
  PageSize,    \* rooms on a page of the list (100 in the code)
  MaxChanges,  \* bound on how often rooms and names come and go
  MaxFaults    \* bound on the number of calls that fail

Rooms  == Spaces \cup Others
Passes == Requests \cup {Timer}

ASSUME ReconcileAssumption ==
  /\ Spaces \cap Others = {} /\ IsFiniteSet(Rooms) /\ Timer \notin Requests
  /\ Children \in [Rooms -> SUBSET Rooms] /\ \A r \in Others : Children[r] = {}
  /\ PageSize \in Nat \ {0} /\ MaxChanges \in Nat /\ MaxFaults \in Nat

VARIABLES
  names,    \* the names that are reserved
  rooms,    \* the rooms that exist, in the homeserver's order
  member,   \* member[n]: the rooms that agent n is in
  pass,     \* what each pass is at
  changes, faults,
  owed      \* the joins that a pass has come to owe and not tried (history)

vars == <<names, rooms, member, pass, changes, faults, owed>>

\* A pass lists the spaces for some agents, beginning at an offset, and then has
\* agents to join to spaces, and to the rooms of the space that it is at.  It never
\* asks for a page that no room can be on.
Pass == [step : {"idle", "list", "join"}, agents : SUBSET Names,
         from : {0} \cup 1 .. Cardinality(Rooms) - 1,
         spaces : SUBSET Rooms, todo : SUBSET (Names \X Rooms), here : SUBSET (Names \X Rooms)]
Idle == [step |-> "idle", agents |-> {}, from |-> 0, spaces |-> {}, todo |-> {}, here |-> {}]

TypeOK ==
  /\ names \in SUBSET Names
  /\ rooms \in Seq(Rooms) /\ IsInjective(rooms)
  /\ member \in [Names -> SUBSET Rooms]
  /\ pass \in [Passes -> Pass]
  /\ changes \in 0 .. MaxChanges /\ faults \in 0 .. MaxFaults
  /\ owed \in [Passes -> SUBSET (Names \X Rooms)]

Init ==
  /\ names \in SUBSET Names
  /\ rooms \in SetToSeqs(Rooms)
  /\ member = [n \in Names |-> {}]
  /\ pass = [p \in Passes |-> Idle]
  /\ changes = 0 /\ faults = 0
  /\ owed = [p \in Passes |-> {}]

\* A call fails, for a reason that passes.
Fault == faults < MaxFaults /\ faults' = faults + 1

Begin(p, N) ==
  /\ pass[p].step = "idle"
  /\ pass' = [pass EXCEPT ![p] = [Idle EXCEPT !.step = "list", !.agents = N]]

\* reconcileAll takes a snapshot of the names; without any there is no pass.
Tick ==
  /\ names # {} /\ Begin(Timer, names)
  /\ UNCHANGED <<names, rooms, member, changes, faults, owed>>

\* A name is reserved, and reconcileOne begins.
Reserve(p, n) ==
  /\ n \notin names /\ changes < MaxChanges
  /\ names' = names \cup {n} /\ changes' = changes + 1
  /\ Begin(p, {n})
  /\ UNCHANGED <<rooms, member, faults, owed>>

\* Slip: what is on a page is taken for a space.
Listed_All(S) == S

\* Of the rooms on a page the spaces are kept.
Listed(S) == S \cap Spaces

\* Slip: the list ends with a page that is not longer than it may be.
Ended_First(from, got) == Len(got) <= PageSize

\* Slip: off by one, so that a page is asked for behind the last room.
Ended_Late(from, got) == got = <<>> \/ from + Len(got) > Len(rooms)

\* A page is the last one if it is empty, or if there are no rooms after it.
Ended(from, got) == got = <<>> \/ from + Len(got) >= Len(rooms)

\* Spaces: a page of the list, from an offset into the rooms that exist now.  The
\* last page ends it; a call that fails ends the pass.
Page(p) ==
  LET q   == pass[p]
      got == SubSeq(rooms, q.from + 1, Min({q.from + PageSize, Len(rooms)}))
      all == q.spaces \cup Listed(Range(got))
      end == Ended(q.from, got)
  IN /\ q.step = "list"
     /\ \/ /\ pass' = [pass EXCEPT ![p] =
                 IF end THEN [q EXCEPT !.step = "join", !.todo = q.agents \X all]
                 ELSE [q EXCEPT !.from = @ + Len(got), !.spaces = all]]
           /\ owed' = [owed EXCEPT ![p] = IF end THEN q.agents \X all ELSE @]
           /\ UNCHANGED faults
        \/ Fault /\ pass' = [pass EXCEPT ![p] = Idle] /\ UNCHANGED owed
     /\ UNCHANGED <<names, rooms, member, changes>>

\* Hierarchy: the rooms of space s that exist, without the space itself.
Hierarchy(s) == (Children[s] \cap Range(rooms)) \ {s}

\* The agent n is joined to space s and its rooms are looked up, or one of the
\* calls fails; then its rooms are left out.
Enter(p, n, s) ==
  LET into(here) == /\ pass' = [pass EXCEPT ![p].todo = @ \ {<<n, s>>}, ![p].here = here]
                    /\ owed' = [owed EXCEPT ![p] = (@ \ {<<n, s>>}) \cup here]
      enter == s \in Range(rooms) /\ member' = [member EXCEPT ![n] = @ \cup {s}]
  IN /\ pass[p].step = "join" /\ pass[p].here = {} /\ <<n, s>> \in pass[p].todo
     /\ \/ enter /\ into({n} \X Hierarchy(s)) /\ UNCHANGED faults
        \/ enter /\ into({}) /\ Fault
        \/ into({}) /\ UNCHANGED member /\ Fault
        \/ into({}) /\ UNCHANGED <<member, faults>> /\ s \notin Range(rooms)
     /\ UNCHANGED <<names, rooms, changes>>

\* Slip: the rest of a space is left out when joining one of its rooms fails.
Rest_None(here, done) == {}

\* The rooms of the space that are left when one is done, also if it has failed.
Rest(here, done) == here \ {done}

\* The agent n is joined to room r, unless that fails.
Join(p, n, r) ==
  LET ok == r \in Range(rooms)
  IN /\ <<n, r>> \in pass[p].here
     /\ \/ /\ ok /\ member' = [member EXCEPT ![n] = @ \cup {r}]
           /\ pass' = [pass EXCEPT ![p].here = @ \ {<<n, r>>}]
           /\ UNCHANGED faults
        \/ /\ Fault \/ (~ok /\ UNCHANGED faults)
           /\ pass' = [pass EXCEPT ![p].here = Rest(@, <<n, r>>)]
           /\ UNCHANGED member
     /\ owed' = [owed EXCEPT ![p] = @ \ {<<n, r>>}]
     /\ UNCHANGED <<names, rooms, changes>>

\* The pass is over.
End(p) ==
  /\ pass[p].step = "join" /\ pass[p].todo = {} /\ pass[p].here = {}
  /\ pass' = [pass EXCEPT ![p] = Idle]
  /\ UNCHANGED <<names, rooms, member, changes, faults, owed>>

\* A name is released, a room is deleted, or made, wherever it comes in the
\* list.
Change ==
  /\ changes < MaxChanges /\ changes' = changes + 1
  /\ \/ \E n \in names : names' = names \ {n} /\ UNCHANGED <<rooms, member>>
     \/ \E i \in DOMAIN rooms :
          /\ rooms' = RemoveAt(rooms, i)
          /\ member' = [n \in Names |-> member[n] \ {rooms[i]}]
          /\ UNCHANGED names
     \/ \E r \in Rooms \ Range(rooms), i \in 1 .. Len(rooms) + 1 :
          rooms' = InsertAt(rooms, i, r) /\ UNCHANGED <<names, member>>
  /\ UNCHANGED <<pass, faults, owed>>

\* The server stops, with its passes, and starts again.
Restart ==
  /\ changes < MaxChanges /\ changes' = changes + 1
  /\ pass' = [p \in Passes |-> Idle] /\ owed' = [p \in Passes |-> {}]
  /\ UNCHANGED <<names, rooms, member, faults>>

Step(p) ==
  \/ Page(p) \/ End(p)
  \/ \E n \in Names, s \in Rooms : Enter(p, n, s)
  \/ \E n \in Names, r \in Rooms : Join(p, n, r)

Next ==
  \/ Tick \/ Change \/ Restart
  \/ \E p \in Requests, n \in Names : Reserve(p, n)
  \/ \E p \in Passes : Step(p)

\* The timer ticks, and passes get on.
Spec == Init /\ [][Next]_vars
FairSpec == Spec /\ WF_vars(Tick) /\ \A p \in Passes : WF_vars(Step(p))
-----------------------------------------------------------------------------
(* Properties.                                                             *)

\* A pass does not end before it has tried every join that it owes: one that
\* fails, or a space that has gone, spares the others.
OneFailureSparesTheRest == \A p \in Passes : pass[p].step # "join" => owed[p] = {}

\* An agent is in spaces and in their rooms and nowhere else, so that it does not
\* read direct messages.
NoDirectMessages ==
  \A n \in Names : member[n] \subseteq Spaces \cup UNION {Children[s] : s \in Spaces}

\* A room and a name that stay are brought together in the end, whatever calls
\* have failed and wherever the list has shifted under a pass.
Reachable(r) == \E s \in Spaces : {r, s} \subseteq Range(rooms) /\ r \in Children[s] \cup {s}
Wanted(n, r) == n \in names /\ Reachable(r)
AllJoined == \A n \in Names, r \in Rooms : <>[]Wanted(n, r) => <>[](r \in member[n])
=============================================================================
