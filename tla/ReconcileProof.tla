--------------------------- MODULE ReconcileProof ---------------------------
(***************************************************************************)
(* Reconcile's safety, proved for any names, any finite set of rooms, any  *)
(* number of passes at once, any size of a page, and any bounds on changes *)
(* and faults.                                                             *)
(***************************************************************************)
EXTENDS Reconcile, FiniteSetTheorems, SequenceTheorems, TLAPS

\* Where an agent may be: in spaces and in their rooms.
Inside == Spaces \cup UNION {Children[s] : s \in Spaces}

\* A pass with its list done wants agents to join spaces, and what it has looked
\* up in one; before and after it wants nothing.
Aims(x) == /\ x.spaces \subseteq Spaces
           /\ x.todo \subseteq Names \X Spaces
           /\ x.here \subseteq Names \X Inside
           /\ x.step # "join" => x.todo = {} /\ x.here = {}
AimInv == \A p \in Passes : Aims(pass[p])

\* What a pass owes it still has to do, whatever has failed.
OwedInv == \A p \in Passes : owed[p] \subseteq pass[p].todo \cup pass[p].here

IInv == TypeOK /\ AimInv /\ OwedInv /\ NoDirectMessages
-----------------------------------------------------------------------------
(* Facts about lists of rooms.                                             *)

\* The list with one room less.
LEMMA RemoveFacts ==
  ASSUME NEW S, NEW q \in Seq(S), IsInjective(q), NEW i \in 1 .. Len(q)
  PROVE  RemoveAt(q, i) \in Seq(S) /\ IsInjective(RemoveAt(q, i))
<1> DEFINE a == SubSeq(q, 1, i - 1)
           b == SubSeq(q, i + 1, Len(q))
           t == a \o b
<1>1. Len(q) \in Nat /\ DOMAIN q = 1 .. Len(q) /\ \A j \in 1 .. Len(q) : q[j] \in S
  OBVIOUS
<1>2. a \in Seq(S) /\ Len(a) = i - 1 /\ \A j \in 1 .. i - 1 : a[j] = q[j]
  BY <1>1, SubSeqProperties
<1>3. b \in Seq(S) /\ Len(b) = Len(q) - i /\ \A j \in 1 .. Len(q) - i : b[j] = q[i + j]
  <2>1. /\ b \in Seq(S) /\ Len(b) = IF i + 1 <= Len(q) THEN Len(q) - (i + 1) + 1 ELSE 0
        /\ \A j \in 1 .. Len(q) - (i + 1) + 1 : b[j] = q[i + 1 + j - 1]
    BY <1>1, SubSeqProperties
  <2> HIDE DEF b
  <2>2. ASSUME NEW j \in 1 .. Len(q) - i PROVE b[j] = q[i + j]
    <3>1. i + 1 + j - 1 = i + j /\ j \in 1 .. Len(q) - (i + 1) + 1
      BY <1>1
    <3> QED BY <2>1, <3>1
  <2>3. Len(b) = Len(q) - i
    <3>1. CASE i + 1 <= Len(q)
      BY <1>1, <2>1, <3>1
    <3>2. CASE ~(i + 1 <= Len(q))
      <4>1. i = Len(q)
        <5>1. i \in Int /\ Len(q) \in Int /\ i <= Len(q)
          BY <1>1
        <5> QED BY <3>2, <5>1
      <4> QED BY <1>1, <2>1, <3>2, <4>1
    <3> QED BY <3>1, <3>2
  <2> QED BY <2>1, <2>2, <2>3
<1> HIDE DEF a, b
<1>4. /\ t \in Seq(S) /\ Len(t) = Len(q) - 1
      /\ \A j \in 1 .. Len(q) - 1 : t[j] = IF j < i THEN a[j] ELSE b[j - (i - 1)]
  <2>1. /\ t \in Seq(S) /\ Len(t) = Len(a) + Len(b)
        /\ \A j \in 1 .. Len(a) + Len(b) : t[j] = IF j <= Len(a) THEN a[j] ELSE b[j - Len(a)]
    BY <1>2, <1>3, ConcatProperties
  <2> HIDE DEF t
  <2>2. Len(a) = i - 1 /\ Len(a) + Len(b) = Len(q) - 1
    BY <1>1, <1>2, <1>3
  <2>3. ASSUME NEW j \in 1 .. Len(q) - 1 PROVE t[j] = IF j < i THEN a[j] ELSE b[j - (i - 1)]
    <3>1. (j <= Len(a)) = (j < i)
      BY <1>1, <2>2
    <3> QED BY <2>1, <2>2, <3>1
  <2> QED BY <2>1, <2>2, <2>3
<1>5. \A j \in 1 .. Len(q) - 1 : t[j] = IF j < i THEN q[j] ELSE q[j + 1]
  BY <1>1, <1>2, <1>3, <1>4
<1>6. DOMAIN t = 1 .. Len(q) - 1
  BY <1>4
<1> HIDE DEF t
<1>7. IsInjective(t)
  <2> SUFFICES ASSUME NEW x \in 1 .. Len(q) - 1, NEW y \in 1 .. Len(q) - 1, t[x] = t[y]
               PROVE  x = y
    BY <1>6 DEF IsInjective
  <2>1. \A j, k \in 1 .. Len(q) : q[j] = q[k] => j = k
    BY <1>1 DEF IsInjective
  <2>2. ASSUME NEW j \in 1 .. Len(q) - 1
        PROVE  \E k \in 1 .. Len(q) : /\ t[j] = q[k] /\ k = IF j < i THEN j ELSE j + 1
    BY <1>1, <1>5
  <2>3. PICK k \in 1 .. Len(q) : t[x] = q[k] /\ k = IF x < i THEN x ELSE x + 1
    BY <2>2
  <2>4. PICK l \in 1 .. Len(q) : t[y] = q[l] /\ l = IF y < i THEN y ELSE y + 1
    BY <2>2
  <2>5. k = l
    BY <2>1, <2>3, <2>4
  <2> QED BY <1>1, <2>3, <2>4, <2>5
<1> QED BY <1>4, <1>7 DEF RemoveAt, t, a, b

\* The list with one room more.
LEMMA InsertFacts ==
  ASSUME NEW S, NEW q \in Seq(S), IsInjective(q), NEW i \in 1 .. Len(q) + 1, NEW r \in S \ Range(q)
  PROVE  InsertAt(q, i, r) \in Seq(S) /\ IsInjective(InsertAt(q, i, r))
<1> DEFINE a == SubSeq(q, 1, i - 1)
           b == SubSeq(q, i, Len(q))
           m == <<r>>
           u == a \o m
           t == u \o b
<1>1. Len(q) \in Nat /\ DOMAIN q = 1 .. Len(q) /\ \A j \in 1 .. Len(q) : q[j] \in S /\ q[j] # r
  BY DEF Range
<1>2. a \in Seq(S) /\ Len(a) = i - 1 /\ \A j \in 1 .. i - 1 : a[j] = q[j]
  BY <1>1, SubSeqProperties
<1>3. b \in Seq(S) /\ Len(b) = Len(q) - i + 1 /\ \A j \in 1 .. Len(q) - i + 1 : b[j] = q[i + j - 1]
  BY <1>1, SubSeqProperties
<1>4. m \in Seq(S) /\ Len(m) = 1 /\ m[1] = r
  OBVIOUS
<1> HIDE DEF a, b, m
<1>5. /\ u \in Seq(S) /\ Len(u) = i
      /\ \A j \in 1 .. i : u[j] = IF j < i THEN a[j] ELSE r
  <2>1. /\ u \in Seq(S) /\ Len(u) = Len(a) + Len(m)
        /\ \A j \in 1 .. Len(a) + Len(m) : u[j] = IF j <= Len(a) THEN a[j] ELSE m[j - Len(a)]
    BY <1>2, <1>4, ConcatProperties
  <2> HIDE DEF u
  <2>2. u[i] = r
    <3>1. i \in 1 .. Len(a) + Len(m) /\ ~(i <= Len(a)) /\ i - Len(a) = 1
      BY <1>1, <1>2, <1>4
    <3> QED BY <1>4, <2>1, <3>1
  <2>3. Len(u) = i
    BY <1>1, <1>2, <1>4, <2>1
  <2>4. ASSUME NEW j \in 1 .. i PROVE u[j] = IF j < i THEN a[j] ELSE r
    <3>1. CASE j < i
      <4>1. j \in 1 .. Len(a) + Len(m) /\ j <= Len(a)
        BY <1>1, <1>2, <1>4, <3>1
      <4> QED BY <2>1, <3>1, <4>1
    <3>2. CASE ~(j < i)
      <4>1. i \in Int /\ j \in Int /\ j <= i
        OBVIOUS
      <4>2. j = i
        BY <3>2, <4>1
      <4> QED BY <2>2, <3>2, <4>2
    <3> QED BY <3>1, <3>2
  <2> QED BY <2>1, <2>3, <2>4
<1> HIDE DEF u
<1>6. /\ t \in Seq(S) /\ Len(t) = Len(q) + 1
      /\ \A j \in 1 .. Len(q) + 1 : t[j] = IF j <= i THEN u[j] ELSE b[j - i]
  <2>1. /\ t \in Seq(S) /\ Len(t) = Len(u) + Len(b)
        /\ \A j \in 1 .. Len(u) + Len(b) : t[j] = IF j <= Len(u) THEN u[j] ELSE b[j - Len(u)]
    BY <1>3, <1>5, ConcatProperties
  <2> HIDE DEF t
  <2>2. Len(u) = i /\ Len(u) + Len(b) = Len(q) + 1
    BY <1>1, <1>3, <1>5
  <2> QED BY <2>1, <2>2
<1>7. \A j \in 1 .. Len(q) + 1 : t[j] = IF j < i THEN q[j] ELSE IF j = i THEN r ELSE q[j - 1]
  <2> SUFFICES ASSUME NEW j \in 1 .. Len(q) + 1
               PROVE  t[j] = IF j < i THEN q[j] ELSE IF j = i THEN r ELSE q[j - 1]
    OBVIOUS
  <2> HIDE DEF t
  <2>0. i \in Int /\ j \in Int /\ 1 <= i /\ 1 <= j /\ j <= Len(q) + 1 /\ Len(q) \in Int
    BY <1>1
  <2>1. CASE j <= i
    <3>1. j \in 1 .. i /\ t[j] = u[j]
      BY <1>6, <2>0, <2>1
    <3>2. u[j] = IF j < i THEN a[j] ELSE r
      BY <1>5, <3>1
    <3>3. j < i => a[j] = q[j]
      BY <1>2, <2>0
    <3> QED BY <2>0, <2>1, <3>1, <3>2, <3>3
  <2>2. CASE ~(j <= i)
    <3>1. t[j] = b[j - i] /\ j - i \in 1 .. Len(q) - i + 1
      BY <1>6, <2>0, <2>2
    <3>2. b[j - i] = q[i + (j - i) - 1]
      BY <1>3, <3>1
    <3>3. i + (j - i) - 1 = j - 1
      BY <2>0
    <3> QED BY <2>0, <2>2, <3>1, <3>2, <3>3
  <2> QED BY <2>1, <2>2
<1>8. DOMAIN t = 1 .. Len(q) + 1
  BY <1>6
<1> HIDE DEF t
<1>9. IsInjective(t)
  <2> SUFFICES ASSUME NEW x \in 1 .. Len(q) + 1, NEW y \in 1 .. Len(q) + 1, t[x] = t[y]
               PROVE  x = y
    BY <1>8 DEF IsInjective
  <2>1. \A j, k \in 1 .. Len(q) : q[j] = q[k] => j = k
    BY <1>1 DEF IsInjective
  <2>2. ASSUME NEW j \in 1 .. Len(q) + 1, j # i
        PROVE  t[j] # r /\ \E k \in 1 .. Len(q) : /\ t[j] = q[k] /\ k = IF j < i THEN j ELSE j - 1
    BY <1>1, <1>7, <2>2
  <2>3. CASE x = i
    BY <1>1, <1>7, <2>2, <2>3
  <2>4. CASE y = i
    BY <1>1, <1>7, <2>2, <2>4
  <2>5. CASE x # i /\ y # i
    <3>1. PICK k \in 1 .. Len(q) : t[x] = q[k] /\ k = IF x < i THEN x ELSE x - 1
      BY <2>2, <2>5
    <3>2. PICK l \in 1 .. Len(q) : t[y] = q[l] /\ l = IF y < i THEN y ELSE y - 1
      BY <2>2, <2>5
    <3>3. k = l
      BY <2>1, <3>1, <3>2
    <3> QED BY <1>1, <2>5, <3>1, <3>2, <3>3
  <2> QED BY <2>3, <2>4, <2>5
<1> QED BY <1>6, <1>9 DEF InsertAt, t, u, m, a, b

\* A list in which no room comes twice is no longer than there are rooms.
LEMMA ListBound ==
  ASSUME NEW q \in Seq(Rooms), IsInjective(q)
  PROVE  Cardinality(Rooms) \in Nat /\ Len(q) <= Cardinality(Rooms)
<1>1. IsFiniteSet(Rooms) /\ Cardinality(Rooms) \in Nat
  BY ReconcileAssumption, FS_CardinalityType
<1>2. q \in Injection(1 .. Len(q), Rooms) /\ Len(q) \in Nat
  BY DEF Injection
<1>3. Cardinality(1 .. Len(q)) <= Cardinality(Rooms)
  BY <1>1, <1>2, FS_Injection
<1> QED BY <1>1, <1>2, <1>3, FS_Interval
-----------------------------------------------------------------------------
(* The invariant holds at first, and every step preserves it.              *)

\* It holds at first: no pass has begun.
LEMMA IInvInit == Init => IInv
<1> SUFFICES ASSUME Init PROVE IInv
  OBVIOUS
<1>1. Cardinality(Rooms) \in Nat
  BY ReconcileAssumption, FS_CardinalityType
<1>2. rooms \in Seq(Rooms) /\ IsInjective(rooms)
  BY <1>1 DEF Init, SetToSeqs, IsInjective
<1>3. Idle \in Pass
  BY <1>1 DEF Idle, Pass
<1>4. TypeOK
  BY <1>2, <1>3, ReconcileAssumption DEF TypeOK, Init
<1> QED BY <1>4 DEF IInv, AimInv, Aims, OwedInv, NoDirectMessages, Init, Idle

\* What is preserved of the passes.
PassInv == /\ pass \in [Passes -> Pass] /\ owed \in [Passes -> SUBSET (Names \X Rooms)]
           /\ AimInv /\ OwedInv

\* A pass that goes on to x owes no more than it then has to do.
LEMMA PassGoesOn ==
  ASSUME PassInv, NEW p \in Passes, NEW x \in Pass, Aims(x), NEW w, w \subseteq x.todo \cup x.here,
         pass' = [pass EXCEPT ![p] = x], owed' = [owed EXCEPT ![p] = w]
  PROVE  PassInv'
<1>1. x.todo \in SUBSET (Names \X Rooms) /\ x.here \in SUBSET (Names \X Rooms)
  BY DEF Pass
<1>2. /\ pass' \in [Passes -> Pass] /\ pass'[p] = x
      /\ \A o \in Passes \ {p} : pass'[o] = pass[o]
  BY DEF PassInv
<1>3. /\ owed' \in [Passes -> SUBSET (Names \X Rooms)] /\ owed'[p] = w
      /\ \A o \in Passes \ {p} : owed'[o] = owed[o]
  BY <1>1 DEF PassInv
<1>4. AimInv'
  <2> SUFFICES ASSUME NEW o \in Passes PROVE Aims(pass'[o])
    BY DEF AimInv, Aims
  <2> QED BY <1>2 DEF PassInv, AimInv
<1>5. OwedInv'
  BY <1>2, <1>3 DEF PassInv, OwedInv
<1> QED BY <1>2, <1>3, <1>4, <1>5 DEF PassInv

\* A pass that is idle has no aims.
LEMMA IdleFacts ==
  /\ Cardinality(Rooms) \in Nat /\ Idle \in Pass /\ Aims(Idle)
  /\ Idle.todo = {} /\ Idle.here = {}
<1>1. Cardinality(Rooms) \in Nat
  BY ReconcileAssumption, FS_CardinalityType
<1> QED BY <1>1 DEF Idle, Pass, Aims

\* A pass begins: it has nothing to do yet but to list the spaces.
LEMMA BeginStep ==
  ASSUME PassInv, NEW p \in Passes, NEW N \in SUBSET Names, Begin(p, N), UNCHANGED owed
  PROVE  PassInv'
<1> DEFINE x == [Idle EXCEPT !.step = "list", !.agents = N]
<1>1. x \in Pass /\ x.step = "list" /\ x.spaces = {} /\ x.todo = {} /\ x.here = {}
  BY IdleFacts DEF Idle, Pass
<1>2. pass' = [pass EXCEPT ![p] = x] /\ owed[p] = {}
  BY DEF Begin, PassInv, OwedInv, AimInv, Aims
<1> HIDE DEF x
<1>3. owed' = [owed EXCEPT ![p] = x.todo \cup x.here]
  BY <1>1, <1>2 DEF PassInv
<1> QED BY <1>1, <1>2, <1>3, PassGoesOn DEF Aims

\* A page brings spaces, or the list is done and every agent owes every space.
LEMMA PageStep ==
  ASSUME PassInv, rooms \in Seq(Rooms), IsInjective(rooms), NEW p \in Passes, Page(p)
  PROVE  PassInv'
<1> DEFINE q   == pass[p]
           got == SubSeq(rooms, q.from + 1, Min({q.from + PageSize, Len(rooms)}))
           all == q.spaces \cup Listed(Range(got))
           end == Ended(q.from, got)
           x   == [q EXCEPT !.step = "join", !.todo = q.agents \X all]
           y   == [q EXCEPT !.from = @ + Len(got), !.spaces = all]
<1>1. /\ q \in Pass /\ q.step = "list" /\ q.spaces \subseteq Spaces /\ q.todo = {} /\ q.here = {}
      /\ owed[p] = {}
  BY DEF Page, PassInv, AimInv, Aims, OwedInv
<1>2. Cardinality(Rooms) \in Nat /\ Len(rooms) \in Nat /\ Len(rooms) <= Cardinality(Rooms)
  BY ListBound
<1>3. q.from \in Nat /\ q.agents \in SUBSET Names
  BY <1>1, <1>2 DEF Pass
<1>4. got \in Seq(Rooms) /\ Len(got) \in Nat
  <2> DEFINE b == Min({q.from + PageSize, Len(rooms)})
  <2>1. q.from + PageSize \in Nat
    BY <1>3, ReconcileAssumption
  <2>2. b \in Nat /\ b <= Len(rooms)
    BY <1>2, <2>1 DEF Min
  <2> HIDE DEF b
  <2>3. \A i \in q.from + 1 .. b : rooms[i] \in Rooms
    BY <1>2, <1>3, <2>2
  <2>4. SubSeq(rooms, q.from + 1, b) \in Seq(Rooms)
    BY <1>3, <2>2, <2>3, SubSeqProperties
  <2>5. got = SubSeq(rooms, q.from + 1, b)
    BY DEF b
  <2> HIDE DEF got
  <2> QED BY <2>4, <2>5, LenProperties
<1>5. all \subseteq Spaces /\ all \in SUBSET Rooms
  BY <1>1 DEF Listed, Rooms
<1>6. \/ pass' = [pass EXCEPT ![p] = Idle] /\ UNCHANGED owed
      \/ end /\ pass' = [pass EXCEPT ![p] = x] /\ owed' = [owed EXCEPT ![p] = q.agents \X all]
      \/ ~end /\ pass' = [pass EXCEPT ![p] = y] /\ UNCHANGED owed
  <2> HIDE DEF x, y
  <2> QED BY DEF Page, x, y, PassInv
<1> HIDE DEF got, all
<1>7. CASE pass' = [pass EXCEPT ![p] = Idle] /\ UNCHANGED owed
  <2>1. owed' = [owed EXCEPT ![p] = Idle.todo \cup Idle.here]
    <3>1. Idle.todo \cup Idle.here = {}
      BY IdleFacts
    <3>2. owed \in [Passes -> SUBSET (Names \X Rooms)]
      BY DEF PassInv
    <3> QED BY <1>1, <1>7, <3>1, <3>2
  <2> QED BY <1>7, <2>1, IdleFacts, PassGoesOn
<1>8. CASE end /\ pass' = [pass EXCEPT ![p] = x] /\ owed' = [owed EXCEPT ![p] = q.agents \X all]
  <2>1. q.agents \X all \subseteq Names \X Spaces /\ q.agents \X all \in SUBSET (Names \X Rooms)
    BY <1>3, <1>5
  <2>2. /\ x \in Pass /\ x.step = "join" /\ x.spaces = q.spaces /\ x.todo = q.agents \X all
        /\ x.here = {}
    BY <1>1, <2>1 DEF Pass
  <2> HIDE DEF x
  <2>3. Aims(x) /\ owed' = [owed EXCEPT ![p] = x.todo \cup x.here]
    BY <1>1, <1>8, <2>1, <2>2 DEF Aims
  <2> QED BY <1>8, <2>2, <2>3, PassGoesOn
<1>9. CASE ~end /\ pass' = [pass EXCEPT ![p] = y] /\ UNCHANGED owed
  <2>1. q.from + Len(got) \in {0} \cup 1 .. Cardinality(Rooms) - 1
    BY <1>2, <1>3, <1>4, <1>9 DEF Ended
  <2>2. y \in Pass /\ y.step = "list" /\ y.spaces = all /\ y.todo = {} /\ y.here = {}
    BY <1>1, <1>5, <2>1 DEF Pass
  <2> HIDE DEF y
  <2>3. Aims(y) /\ owed' = [owed EXCEPT ![p] = y.todo \cup y.here]
    BY <1>1, <1>5, <1>9, <2>2 DEF Aims, PassInv
  <2> QED BY <1>9, <2>2, <2>3, PassGoesOn
<1> QED BY <1>6, <1>7, <1>8, <1>9

\* A space is done: the agent may be in it, and may have its rooms to join.
LEMMA EnterStep ==
  ASSUME IInv, PassInv, NEW p \in Passes, NEW n \in Names, NEW s \in Rooms, Enter(p, n, s)
  PROVE  PassInv' /\ member' \in [Names -> SUBSET Rooms] /\ NoDirectMessages'
<1> DEFINE q == pass[p]
<1>1. q \in Pass /\ q.step = "join" /\ q.here = {} /\ Aims(q) /\ owed[p] \subseteq q.todo /\ s \in Spaces
  BY DEF Enter, PassInv, AimInv, Aims, OwedInv
<1>2. Hierarchy(s) \subseteq Rooms /\ Hierarchy(s) \subseteq Inside
  BY <1>1, ReconcileAssumption DEF Hierarchy, Inside
<1>3. PICK here \in {{}, {n} \X Hierarchy(s)} :
        /\ pass' = [pass EXCEPT ![p].todo = @ \ {<<n, s>>}, ![p].here = here]
        /\ owed' = [owed EXCEPT ![p] = (@ \ {<<n, s>>}) \cup here]
  BY DEF Enter
<1>4. here \subseteq Names \X Inside /\ here \in SUBSET (Names \X Rooms)
  BY <1>2
<1>5. PassInv'
  <2> DEFINE x == [q EXCEPT !.todo = @ \ {<<n, s>>}, !.here = here]
  <2>1. /\ x \in Pass /\ x.step = "join" /\ x.spaces = q.spaces /\ x.todo = q.todo \ {<<n, s>>}
        /\ x.here = here
    BY <1>1, <1>4 DEF Pass
  <2>2. pass' = [pass EXCEPT ![p] = x]
    BY <1>3 DEF PassInv
  <2> HIDE DEF x
  <2>3. Aims(x) /\ (owed[p] \ {<<n, s>>}) \cup here \subseteq x.todo \cup x.here
    BY <1>1, <1>4, <2>1 DEF Aims
  <2>4. owed' = [owed EXCEPT ![p] = (owed[p] \ {<<n, s>>}) \cup here]
    BY <1>3
  <2> QED BY <2>1, <2>2, <2>3, <2>4, PassGoesOn
<1>6. member' = member \/ member' = [member EXCEPT ![n] = @ \cup {s}]
  BY DEF Enter
<1> QED BY <1>1, <1>5, <1>6 DEF IInv, TypeOK, NoDirectMessages

\* A room is done: the agent is in it, or joining has failed, which spares the rest.
LEMMA JoinStep ==
  ASSUME IInv, PassInv, NEW p \in Passes, NEW n \in Names, NEW r \in Rooms, Join(p, n, r)
  PROVE  PassInv' /\ member' \in [Names -> SUBSET Rooms] /\ NoDirectMessages'
<1> DEFINE q == pass[p]
<1>1. q \in Pass /\ q.step = "join" /\ Aims(q) /\ owed[p] \subseteq q.todo \cup q.here /\ <<n, r>> \in q.here
  BY DEF Join, PassInv, AimInv, Aims, OwedInv
<1>2. r \in Inside
  BY <1>1 DEF Aims
<1>3. PassInv'
  <2> DEFINE x == [q EXCEPT !.here = @ \ {<<n, r>>}]
  <2>1. /\ x \in Pass /\ x.step = "join" /\ x.spaces = q.spaces /\ x.todo = q.todo
        /\ x.here = q.here \ {<<n, r>>}
    BY <1>1 DEF Pass
  <2>2. pass' = [pass EXCEPT ![p] = x]
    BY DEF Join, Rest, PassInv
  <2>3. owed' = [owed EXCEPT ![p] = owed[p] \ {<<n, r>>}]
    BY DEF Join
  <2> HIDE DEF x
  <2>4. Aims(x) /\ owed[p] \ {<<n, r>>} \subseteq x.todo \cup x.here
    BY <1>1, <2>1 DEF Aims
  <2> QED BY <2>1, <2>2, <2>3, <2>4, PassGoesOn
<1>4. member' = member \/ member' = [member EXCEPT ![n] = @ \cup {r}]
  BY DEF Join
<1> QED BY <1>2, <1>3, <1>4 DEF IInv, TypeOK, NoDirectMessages, Inside

\* Every step of a pass, and every beginning of one.
LEMMA PassStep ==
  ASSUME IInv, [Next]_vars
  PROVE  PassInv' /\ member' \in [Names -> SUBSET Rooms] /\ NoDirectMessages'
<1>1. /\ PassInv /\ rooms \in Seq(Rooms) /\ IsInjective(rooms)
      /\ member \in [Names -> SUBSET Rooms] /\ NoDirectMessages /\ names \in SUBSET Names
  BY DEF IInv, TypeOK, PassInv
<1>2. ASSUME UNCHANGED member PROVE member' \in [Names -> SUBSET Rooms] /\ NoDirectMessages'
  BY <1>1, <1>2 DEF NoDirectMessages
<1>3. CASE Tick
  BY <1>1, <1>2, <1>3, BeginStep DEF Tick, Passes
<1>4. ASSUME NEW p \in Requests, NEW n \in Names, Reserve(p, n)
      PROVE  PassInv' /\ member' \in [Names -> SUBSET Rooms] /\ NoDirectMessages'
  BY <1>1, <1>2, <1>4, BeginStep DEF Reserve, Passes
<1>5. CASE Change
  <2>1. PassInv'
    BY <1>1, <1>5 DEF Change, PassInv, AimInv, OwedInv
  <2>2. UNCHANGED member \/ \E i \in DOMAIN rooms : member' = [n \in Names |-> member[n] \ {rooms[i]}]
    BY <1>5 DEF Change
  <2> QED BY <1>1, <1>2, <2>1, <2>2 DEF NoDirectMessages
<1>6. CASE Restart
  <2>1. \A p \in Passes : pass'[p] = Idle /\ owed'[p] = {}
    BY <1>6 DEF Restart
  <2>2. AimInv' /\ OwedInv'
    BY <2>1, IdleFacts DEF AimInv, Aims, OwedInv
  <2> QED BY <1>2, <1>6, <2>2, IdleFacts DEF Restart, PassInv
<1>7. ASSUME NEW p \in Passes, Page(p)
      PROVE  PassInv' /\ member' \in [Names -> SUBSET Rooms] /\ NoDirectMessages'
  BY <1>1, <1>2, <1>7, PageStep DEF Page
<1>8. ASSUME NEW p \in Passes, End(p)
      PROVE  PassInv' /\ member' \in [Names -> SUBSET Rooms] /\ NoDirectMessages'
  <2>1. owed[p] = {} /\ owed \in [Passes -> SUBSET (Names \X Rooms)]
    BY <1>1, <1>8 DEF End, PassInv, OwedInv
  <2>2. pass' = [pass EXCEPT ![p] = Idle] /\ owed' = [owed EXCEPT ![p] = {}] /\ UNCHANGED member
    BY <1>8, <2>1 DEF End
  <2> QED BY <1>1, <1>2, <2>2, IdleFacts, PassGoesOn
<1>9. ASSUME NEW p \in Passes, NEW n \in Names, NEW r \in Rooms, Enter(p, n, r) \/ Join(p, n, r)
      PROVE  PassInv' /\ member' \in [Names -> SUBSET Rooms] /\ NoDirectMessages'
  BY <1>1, <1>9, EnterStep, JoinStep
<1>10. CASE UNCHANGED vars
  BY <1>1, <1>2, <1>10 DEF vars, PassInv, AimInv, OwedInv
<1> QED BY <1>3, <1>4, <1>5, <1>6, <1>7, <1>8, <1>9, <1>10 DEF Next, Step

\* The names, the rooms and the bounds keep their types, too.
LEMMA TypeStep == ASSUME IInv, [Next]_vars PROVE TypeOK'
<1>1. PassInv' /\ member' \in [Names -> SUBSET Rooms]
  BY PassStep
<1>2. TypeOK
  BY DEF IInv
<1> DEFINE Few == changes' \in 0 .. MaxChanges /\ faults' \in 0 .. MaxFaults /\ names' \in SUBSET Names
<1>3. Few /\ (Change \/ UNCHANGED rooms)
  <2>1. MaxChanges \in Nat /\ MaxFaults \in Nat
    BY ReconcileAssumption
  <2>2. CASE Tick
    BY <1>2, <2>2 DEF Tick, TypeOK
  <2>3. CASE Change \/ Restart
    BY <1>2, <2>1, <2>3 DEF Change, Restart, TypeOK
  <2>4. ASSUME NEW p \in Requests, NEW n \in Names, Reserve(p, n) PROVE Few /\ UNCHANGED rooms
    BY <1>2, <2>1, <2>4 DEF Reserve, TypeOK
  <2>5. ASSUME Fault PROVE faults' \in 0 .. MaxFaults
    BY <1>2, <2>1, <2>5 DEF Fault, TypeOK
  <2>6. ASSUME NEW p \in Passes, Page(p) \/ End(p) PROVE Few /\ UNCHANGED rooms
    BY <1>2, <2>5, <2>6 DEF Page, End, TypeOK
  <2>7. ASSUME NEW p \in Passes, NEW n \in Names, NEW r \in Rooms, Enter(p, n, r) \/ Join(p, n, r)
        PROVE  Few /\ UNCHANGED rooms
    BY <1>2, <2>5, <2>7 DEF Enter, Join, TypeOK
  <2>8. CASE UNCHANGED vars
    BY <1>2, <2>8 DEF vars, TypeOK
  <2> QED BY <2>2, <2>3, <2>4, <2>6, <2>7, <2>8 DEF Next, Step, Restart
<1>4. rooms' \in Seq(Rooms) /\ IsInjective(rooms')
  <2>1. CASE UNCHANGED rooms
    BY <1>2, <2>1 DEF TypeOK
  <2>2. CASE Change
    <3>1. ASSUME NEW i \in DOMAIN rooms, rooms' = RemoveAt(rooms, i)
          PROVE  rooms' \in Seq(Rooms) /\ IsInjective(rooms')
      <4>1. i \in 1 .. Len(rooms)
        BY <1>2 DEF TypeOK
      <4> QED BY <1>2, <3>1, <4>1, RemoveFacts DEF TypeOK
    <3>2. ASSUME NEW r \in Rooms \ Range(rooms), NEW i \in 1 .. Len(rooms) + 1, rooms' = InsertAt(rooms, i, r)
          PROVE  rooms' \in Seq(Rooms) /\ IsInjective(rooms')
      BY <1>2, <3>2, InsertFacts DEF TypeOK
    <3> QED BY <2>1, <2>2, <3>1, <3>2 DEF Change
  <2> QED BY <1>3, <2>1, <2>2
<1> QED BY <1>1, <1>3, <1>4 DEF TypeOK, PassInv
-----------------------------------------------------------------------------
(* The theorems.                                                           *)

\* The invariant holds at first and every step keeps it.
LEMMA Invariance == Spec => []IInv
<1>1. IInv /\ [Next]_vars => IInv'
  BY TypeStep, PassStep DEF IInv, PassInv
<1> QED BY <1>1, IInvInit, PTL DEF Spec

\* Every variable of the reconciler keeps its type, and a pass never lists from
\* beyond the number of rooms there may be.
THEOREM TypeCorrect == Spec => []TypeOK
<1>1. IInv => TypeOK
  BY DEF IInv
<1> QED BY <1>1, Invariance, PTL

\* Whatever calls fail and whatever comes and goes under a pass, an agent only
\* ever joins spaces and rooms of spaces.
THEOREM OnlySpacesAreJoined == Spec => []NoDirectMessages
<1>1. IInv => NoDirectMessages
  BY DEF IInv
<1> QED BY <1>1, Invariance, PTL

\* A pass that is over has tried every join that it came to owe, however many of
\* them failed.
THEOREM EveryJoinIsTried == Spec => []OneFailureSparesTheRest
<1>1. IInv => OneFailureSparesTheRest
  BY DEF IInv, AimInv, Aims, OwedInv, OneFailureSparesTheRest
<1> QED BY <1>1, Invariance, PTL
=============================================================================
