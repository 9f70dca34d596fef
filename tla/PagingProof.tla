---------------------------- MODULE PagingProof -----------------------------
(***************************************************************************)
(* Paging's safety, proved for a conversation of any length, any limit,    *)
(* any number of calls and any number of them at once.                     *)
(***************************************************************************)
EXTENDS Paging, FiniteSetTheorems, TLAPS

Reading == [from : 0 .. Events, upto : 0 .. Events, last : BOOLEAN]

\* Every event up to number t, or every one with text, is in the answers h.
Seen(h, t)  == \A p \in 1 .. t : \E m \in DOMAIN h : p \in Batch(h[m].from, h[m].upto)
AllTold(h)  == \A p \in (1 .. Events) \ Blank :
                 \E m \in DOMAIN h : p \in Batch(h[m].from, h[m].upto)

\* What the server answers: no token for more only at the room's beginning, or
\* after a batch without text.
Served(page) ==
  /\ page.from <= page.upto
  /\ page.next # 0 => page.next = page.upto
  /\ page.next = 0 => page.upto = Events \/ ~HasText(page.from, page.upto)

PageOK(h, page) == Served(page) /\ Seen(h, page.from)

\* Whatever token is in use anywhere, the agent has read everything up to it.
TokenInv ==
  /\ Seen(heard, next)
  /\ \A i \in Calls :
       /\ stage[i] = "asking" => Seen(heard, from[i])
       /\ wire[i] \in Asking => Seen(heard, wire[i].ask)
       /\ wire[i] \in Pages => PageOK(heard, wire[i])
       /\ box[i] \in Pages => PageOK(heard, box[i])

\* A call that has its answer has a page.
AnsweredInv == \A i \in Calls : stage[i] = "answered" => box[i] \in Pages

EndInv == exhausted => hollow \/ AllTold(heard)

\* Where the last answer of h ends
Reached(h) == IF h = <<>> THEN 0 ELSE h[Len(h)].upto

\* A call on its own asks, and is answered, from where the last answer ended.
CallInv(i) ==
  /\ stage[i] = "new" => box[i] = None
  /\ stage[i] \in {"new", "done", "asking", "answered"} => wire[i] = None
  /\ box[i] # None => wire[i] = None
  /\ i \in Busy =>
       /\ from[i] = Reached(heard)
       /\ stage[i] = "asking" => box[i] = None
       /\ stage[i] = "waiting" => waiter = i
       /\ wire[i] \in Asking => wire[i].ask = from[i]
       /\ wire[i] \in Pages => wire[i].from = from[i]
       /\ box[i] \in Pages => box[i].from = from[i]

OrderInv ==
  hurried \/ /\ InOrder
             /\ known /\ ~exhausted => next = Reached(heard)
             /\ exhausted => Busy = {}
             /\ \A i, k \in Busy : i = k
             /\ \A i \in Calls : CallInv(i)

TypeInv == TypeOK /\ AnsweredInv /\ WaiterWaits
IInv == TypeInv /\ TokenInv /\ EndInv /\ NothingSkipped /\ EndIsHonest /\ OrderInv
-----------------------------------------------------------------------------
(* The shapes of a frame are told apart.                                   *)

\* A request, a page, an error and no frame are four different things.
LEMMA Shapes ==
  /\ \A f \in Asking : f \notin Answer /\ f # None
  /\ \A f \in Answer : f # None
  /\ Error \in Answer /\ Error \notin Pages /\ Pages \subseteq Answer
  /\ \A f \in Answer : f = Error \/ f \in Pages
PROOF
<1>1. Events \in Nat
  BY PagingAssumption
<1>2. \A f \in Asking : DOMAIN f = {"ask"}
  BY DEF Asking
<1>3. \A f \in Pages : DOMAIN f = {"from", "upto", "next"} /\ f.from \in 0 .. Events
  BY DEF Pages
<1>4. DOMAIN Error = {"from", "upto", "next"} /\ Error.from = Events + 1
  BY DEF Error
<1>5. \A f \in Asking : f \notin Answer
  BY <1>2, <1>3, <1>4 DEF Answer
<1>6. Error \notin Pages
  BY <1>1, <1>3, <1>4
<1> QED BY <1>5, <1>6, NoneAssumption DEF Answer
-----------------------------------------------------------------------------
(* What one more answer does.                                              *)

\* The answers before stay as they are, and the new one is the last.
LEMMA Appended ==
  ASSUME NEW h \in Seq(Reading), NEW e \in Reading, NEW g, g = Append(h, e)
  PROVE  /\ g \in Seq(Reading)
         /\ Len(h) \in Nat /\ Len(g) = Len(h) + 1 /\ g # <<>>
         /\ DOMAIN h = 1 .. Len(h) /\ DOMAIN g = 1 .. Len(h) + 1
         /\ g[Len(h) + 1] = e
         /\ \A m \in 1 .. Len(h) : g[m] = h[m]
         /\ Reached(g) = e.upto
PROOF
<1>1. /\ g \in Seq(Reading)
      /\ Len(h) \in Nat /\ Len(g) = Len(h) + 1
      /\ DOMAIN h = 1 .. Len(h) /\ DOMAIN g = 1 .. Len(h) + 1
      /\ g[Len(h) + 1] = e
      /\ \A m \in 1 .. Len(h) : g[m] = h[m]
  OBVIOUS
<1>2. g # <<>>
  BY <1>1
<1> QED BY <1>1, <1>2 DEF Reached

\* What the agent has read, it has read for ever; the new batch is read too.
LEMMA SeenLasts ==
  ASSUME NEW h \in Seq(Reading), NEW e \in Reading, NEW g, g = Append(h, e)
  PROVE  /\ \A t : Seen(h, t) => Seen(g, t)
         /\ AllTold(h) => AllTold(g)
         /\ Seen(h, e.from) => Seen(g, e.upto)
         /\ \A page : PageOK(h, page) => PageOK(g, page)
PROOF
<1>1. /\ DOMAIN h = 1 .. Len(h) /\ DOMAIN g = 1 .. Len(h) + 1 /\ Len(h) \in Nat
      /\ g[Len(h) + 1] = e /\ \A m \in 1 .. Len(h) : g[m] = h[m]
  BY Appended
<1>2. \A p : (\E m \in DOMAIN h : p \in Batch(h[m].from, h[m].upto))
               => \E m \in DOMAIN g : p \in Batch(g[m].from, g[m].upto)
  BY <1>1
<1>3. \A t : Seen(h, t) => Seen(g, t)
  BY <1>2 DEF Seen
<1>4. AllTold(h) => AllTold(g)
  BY <1>2 DEF AllTold
<1>5. Seen(h, e.from) => Seen(g, e.upto)
  <2> SUFFICES ASSUME Seen(h, e.from), NEW p \in 1 .. e.upto
               PROVE  \E m \in DOMAIN g : p \in Batch(g[m].from, g[m].upto)
    BY DEF Seen
  <2>1. e.from \in Nat /\ e.upto \in Nat
    BY PagingAssumption DEF Reading
  <2>2. CASE p <= e.from
    BY <1>2, <2>1, <2>2 DEF Seen
  <2>3. CASE ~(p <= e.from)
    <3>1. p \in Batch(g[Len(h) + 1].from, g[Len(h) + 1].upto)
      BY <1>1, <2>1, <2>3 DEF Batch
    <3> QED BY <1>1, <3>1
  <2> QED BY <2>2, <2>3
<1> QED BY <1>3, <1>4, <1>5 DEF PageOK

\* An answer that starts where the agent has got to, or before, skips nothing.
LEMMA NothingSkippedLasts ==
  ASSUME heard \in Seq(Reading), NEW e \in Reading, heard' = Append(heard, e),
         NothingSkipped, Seen(heard, e.from)
  PROVE  NothingSkipped'
PROOF
<1> SUFFICES ASSUME NEW k \in DOMAIN heard', NEW p \in 1 .. heard'[k].from
             PROVE  \E m \in 1 .. k - 1 : p \in Batch(heard'[m].from, heard'[m].upto)
  BY DEF NothingSkipped, Told
<1>1. /\ DOMAIN heard = 1 .. Len(heard) /\ DOMAIN heard' = 1 .. Len(heard) + 1
      /\ Len(heard) \in Nat
      /\ heard'[Len(heard) + 1] = e /\ \A m \in 1 .. Len(heard) : heard'[m] = heard[m]
  BY Appended
<1>2. CASE k = Len(heard) + 1
  <2>1. PICK m \in DOMAIN heard : p \in Batch(heard[m].from, heard[m].upto)
    BY <1>1, <1>2 DEF Seen
  <2> QED BY <1>1, <1>2, <2>1
<1>3. CASE k \in 1 .. Len(heard)
  <2>1. PICK m \in 1 .. k - 1 : p \in Batch(heard[m].from, heard[m].upto)
    BY <1>1, <1>3 DEF NothingSkipped, Told
  <2> QED BY <1>1, <1>3, <2>1
<1> QED BY <1>1, <1>2, <1>3

\* An answer that ends the walk only when all is told keeps the end honest.
LEMMA EndIsHonestLasts ==
  ASSUME heard \in Seq(Reading), NEW e \in Reading, heard' = Append(heard, e),
         EndIsHonest, hollow => hollow', e.last => hollow' \/ AllTold(heard')
  PROVE  EndIsHonest'
PROOF
<1> SUFFICES ASSUME ~hollow', NEW k \in DOMAIN heard', heard'[k].last,
                    NEW p \in (1 .. Events) \ Blank
             PROVE  \E m \in 1 .. k : p \in Batch(heard'[m].from, heard'[m].upto)
  BY DEF EndIsHonest, EndIsTheStart, Told
<1>1. /\ DOMAIN heard = 1 .. Len(heard) /\ DOMAIN heard' = 1 .. Len(heard) + 1
      /\ Len(heard) \in Nat
      /\ heard'[Len(heard) + 1] = e /\ \A m \in 1 .. Len(heard) : heard'[m] = heard[m]
  BY Appended
<1>2. CASE k = Len(heard) + 1
  BY <1>1, <1>2 DEF AllTold
<1>3. CASE k \in 1 .. Len(heard)
  <2>1. PICK m \in 1 .. k : p \in Batch(heard[m].from, heard[m].upto)
    BY <1>1, <1>3 DEF EndIsHonest, EndIsTheStart, Told
  <2> QED BY <1>1, <1>3, <2>1
<1> QED BY <1>1, <1>2, <1>3

\* An answer that starts where the last one ended comes in order.
LEMMA InOrderLasts ==
  ASSUME heard \in Seq(Reading), NEW e \in Reading, heard' = Append(heard, e),
         InOrder, e.last \/ e.from = Reached(heard)
  PROVE  InOrder'
PROOF
<1> SUFFICES ASSUME NEW k \in DOMAIN heard', ~heard'[k].last
             PROVE  heard'[k].from = IF k = 1 THEN 0 ELSE heard'[k - 1].upto
  BY DEF InOrder
<1>1. /\ DOMAIN heard = 1 .. Len(heard) /\ DOMAIN heard' = 1 .. Len(heard) + 1
      /\ Len(heard) \in Nat
      /\ heard'[Len(heard) + 1] = e /\ \A m \in 1 .. Len(heard) : heard'[m] = heard[m]
  BY Appended
<1>2. CASE k = Len(heard) + 1
  <2>1. heard'[k].from = Reached(heard)
    BY <1>1, <1>2
  <2>2. Len(heard) = 0 <=> heard = <<>>
    BY <1>1
  <2>3. CASE heard = <<>>
    BY <1>2, <2>1, <2>2, <2>3 DEF Reached
  <2>4. CASE heard # <<>>
    <3>1. k - 1 = Len(heard) /\ Len(heard) \in 1 .. Len(heard) /\ k # 1
      BY <1>1, <1>2, <2>2, <2>4
    <3>2. heard'[k - 1] = heard[Len(heard)]
      BY <1>1, <3>1
    <3> QED BY <2>1, <2>4, <3>1, <3>2 DEF Reached
  <2> QED BY <2>3, <2>4
<1>3. CASE k \in 1 .. Len(heard)
  BY <1>1, <1>3 DEF InOrder
<1> QED BY <1>1, <1>2, <1>3
-----------------------------------------------------------------------------
(* The types, with the calls that are over.                                *)

Over == {i \in Calls : stage[i] = "done"}

\* One more call is over.
LEMMA OneMoreOver ==
  ASSUME TypeOK, NEW i \in Calls, stage[i] # "done", Go(i, "done")
  PROVE  /\ Cardinality(Over) \in Nat
         /\ Cardinality(Over') = Cardinality(Over) + 1
         /\ stage' \in [Calls -> {"new", "asking", "waiting", "answered", "done"}]
PROOF
<1>1. Over \subseteq Calls /\ i \notin Over
  BY DEF Over
<1>2. IsFiniteSet(Over)
  BY <1>1, PagingAssumption, FS_Subset
<1>3. Over' = Over \cup {i}
  BY DEF Over, Go, TypeOK
<1>4. Cardinality(Over) \in Nat /\ Cardinality(Over \cup {i}) = Cardinality(Over) + 1
  BY <1>1, <1>2, FS_AddElement, FS_CardinalityType
<1> QED BY <1>3, <1>4 DEF Go, TypeOK

\* As many are over as before.
LEMMA NoMoreOver ==
  ASSUME TypeOK, NEW i \in Calls, stage[i] # "done",
         NEW s \in {"new", "asking", "waiting", "answered"}, Go(i, s)
  PROVE  /\ Over' = Over
         /\ stage' \in [Calls -> {"new", "asking", "waiting", "answered", "done"}]
PROOF BY DEF Over, Go, TypeOK

\* Its last conjunct, said of Over
LEMMA TypeSplit ==
  TypeOK <=>
    /\ known \in BOOLEAN /\ next \in 0 .. Events /\ exhausted \in BOOLEAN
    /\ waiter \in Calls \cup {None}
    /\ stage \in [Calls -> {"new", "asking", "waiting", "answered", "done"}]
    /\ from \in [Calls -> 0 .. Events]
    /\ box \in [Calls -> Answer \cup {None}]
    /\ wire \in [Calls -> Asking \cup Answer \cup {None}]
    /\ heard \in Seq(Reading) /\ Len(heard) <= Cardinality(Over)
    /\ hurried \in BOOLEAN /\ hollow \in BOOLEAN
PROOF BY DEF TypeOK, Reading, Over
-----------------------------------------------------------------------------
(* Every step keeps the invariant.                                         *)

\* The history of answers is only as good as it was while it stays the same.
LEMMA HistoryKept ==
  ASSUME IInv, UNCHANGED <<heard, hollow>>
  PROVE  NothingSkipped' /\ EndIsHonest' /\ (InOrder <=> InOrder')
PROOF BY DEF IInv, NothingSkipped, EndIsHonest, EndIsTheStart, InOrder, Told

LEMMA ReadCursorKeeps ==
  ASSUME IInv, NEW i \in Calls, ReadCursor(i)
  PROVE  IInv'
PROOF
<1>1. TypeInv'
  <2>1. /\ Over' = Over
        /\ stage' \in [Calls -> {"new", "asking", "waiting", "answered", "done"}]
    BY NoMoreOver DEF IInv, TypeInv, ReadCursor
  <2>2. TypeOK'
    BY <2>1, Shapes, PagingAssumption
    DEF IInv, TypeInv, TypeOK, Reading, Over, ReadCursor, Go, cursor
  <2>3. AnsweredInv' /\ WaiterWaits'
    BY NoneAssumption, Shapes
    DEF IInv, TypeInv, TypeOK, AnsweredInv, WaiterWaits, ReadCursor, Go, cursor
  <2> QED BY <2>2, <2>3 DEF TypeInv
<1>2. TokenInv' /\ EndInv'
  BY Shapes DEF IInv, TypeInv, TypeOK, TokenInv, EndInv, ReadCursor, Go, cursor
<1>3. NothingSkipped' /\ EndIsHonest'
  BY HistoryKept DEF ReadCursor, Go, cursor
<1>4. OrderInv'
  BY HistoryKept, Shapes, NoneAssumption, ZenonT(30)
  DEF IInv, TypeInv, TypeOK, OrderInv, CallInv, Busy, ReadCursor, Go, cursor
<1> QED BY <1>1, <1>2, <1>3, <1>4 DEF IInv

LEMMA UnauthorizedKeeps ==
  ASSUME IInv, NEW i \in Calls, Unauthorized(i)
  PROVE  IInv'
PROOF
<1>1. TypeInv'
  <2>1. /\ Cardinality(Over') = Cardinality(Over) + 1 /\ Cardinality(Over) \in Nat
        /\ stage' \in [Calls -> {"new", "asking", "waiting", "answered", "done"}]
    BY OneMoreOver DEF IInv, TypeInv, Unauthorized
  <2>2. TypeOK'
    BY <2>1, Shapes, PagingAssumption
    DEF IInv, TypeInv, TypeOK, Reading, Over, Unauthorized, Go, cursor, history
  <2>3. AnsweredInv' /\ WaiterWaits'
    BY NoneAssumption, Shapes
    DEF IInv, TypeInv, TypeOK, AnsweredInv, WaiterWaits, Unauthorized, Go, cursor, history
  <2> QED BY <2>2, <2>3 DEF TypeInv
<1>2. TokenInv' /\ EndInv'
  BY Shapes DEF IInv, TypeInv, TypeOK, TokenInv, EndInv, Unauthorized, Go, cursor, history
<1>3. NothingSkipped' /\ EndIsHonest'
  BY HistoryKept DEF Unauthorized, Go, cursor, history
<1>4. OrderInv'
  BY HistoryKept, Shapes, NoneAssumption
  DEF IInv, TypeInv, TypeOK, OrderInv, CallInv, Busy, Unauthorized, Go, cursor, history
<1> QED BY <1>1, <1>2, <1>3, <1>4 DEF IInv

LEMMA AskKeeps ==
  ASSUME IInv, NEW i \in Calls, Ask(i)
  PROVE  IInv'
PROOF
<1>1. TypeInv'
  <2>1. /\ Over' = Over
        /\ stage' \in [Calls -> {"new", "asking", "waiting", "answered", "done"}]
    BY NoMoreOver DEF IInv, TypeInv, Ask
  <2>2. TypeOK'
    BY <2>1, Shapes, PagingAssumption
    DEF IInv, TypeInv, TypeOK, Reading, Over, Ask, Go, cursor, history, Asking
  <2>3. AnsweredInv' /\ WaiterWaits'
    BY NoneAssumption, Shapes
    DEF IInv, TypeInv, TypeOK, AnsweredInv, WaiterWaits, Ask, Go, cursor, history, Asking
  <2> QED BY <2>2, <2>3 DEF TypeInv
<1>2. TokenInv' /\ EndInv'
  BY Shapes DEF IInv, TypeInv, TypeOK, TokenInv, EndInv, Ask, Go, cursor, history, Asking
<1>3. NothingSkipped' /\ EndIsHonest'
  BY HistoryKept DEF Ask, Go, cursor, history, Asking
<1>4. OrderInv'
  BY HistoryKept, Shapes, NoneAssumption
  DEF IInv, TypeInv, TypeOK, OrderInv, CallInv, Busy, Ask, Go, cursor, history, Asking
<1> QED BY <1>1, <1>2, <1>3, <1>4 DEF IInv

LEMMA TimeOutKeeps ==
  ASSUME IInv, NEW i \in Calls, TimeOut(i)
  PROVE  IInv'
PROOF
<1>1. TypeInv'
  <2>1. /\ Cardinality(Over') = Cardinality(Over) + 1 /\ Cardinality(Over) \in Nat
        /\ stage' \in [Calls -> {"new", "asking", "waiting", "answered", "done"}]
    BY OneMoreOver DEF IInv, TypeInv, TimeOut
  <2>2. TypeOK'
    BY <2>1, Shapes, PagingAssumption
    DEF IInv, TypeInv, TypeOK, Reading, Over, TimeOut, Go, cursor
  <2>3. AnsweredInv' /\ WaiterWaits'
    BY NoneAssumption, Shapes
    DEF IInv, TypeInv, TypeOK, AnsweredInv, WaiterWaits, TimeOut, Go, cursor
  <2> QED BY <2>2, <2>3 DEF TypeInv
<1>2. TokenInv' /\ EndInv'
  BY Shapes DEF IInv, TypeInv, TypeOK, TokenInv, EndInv, TimeOut, Go, cursor
<1>3. NothingSkipped' /\ EndIsHonest'
  BY HistoryKept DEF TimeOut, Go, cursor
<1>4. OrderInv'
  BY HistoryKept, Shapes, NoneAssumption
  DEF IInv, TypeInv, TypeOK, OrderInv, CallInv, Busy, TimeOut, Go, cursor
<1> QED BY <1>1, <1>2, <1>3, <1>4 DEF IInv

LEMMA deliverKeeps ==
  ASSUME IInv, NEW i \in Calls, deliver(i)
  PROVE  IInv'
PROOF
<1>1. TypeInv'
  <2>1. Over' = Over
    BY DEF Over, deliver
  <2>2. TypeOK'
    BY <2>1, Shapes, PagingAssumption
    DEF IInv, TypeInv, TypeOK, Reading, Over, deliver, cursor, history
  <2>3. AnsweredInv' /\ WaiterWaits'
    BY NoneAssumption, Shapes
    DEF IInv, TypeInv, TypeOK, AnsweredInv, WaiterWaits, deliver, cursor, history
  <2> QED BY <2>2, <2>3 DEF TypeInv
<1>2. TokenInv' /\ EndInv'
  BY Shapes DEF IInv, TypeInv, TypeOK, TokenInv, EndInv, deliver, cursor, history
<1>3. NothingSkipped' /\ EndIsHonest'
  BY HistoryKept DEF deliver, cursor, history
<1>4. OrderInv'
  BY HistoryKept, Shapes, NoneAssumption
  DEF IInv, TypeInv, TypeOK, OrderInv, CallInv, Busy, deliver, cursor, history
<1> QED BY <1>1, <1>2, <1>3, <1>4 DEF IInv

LEMMA LoseKeeps ==
  ASSUME IInv, NEW i \in Calls, Lose(i)
  PROVE  IInv'
PROOF
<1>1. TypeInv'
  <2>1. Over' = Over
    BY DEF Over, Lose
  <2>2. TypeOK'
    BY <2>1, Shapes, PagingAssumption
    DEF IInv, TypeInv, TypeOK, Reading, Over, Lose, cursor, history
  <2>3. AnsweredInv' /\ WaiterWaits'
    BY NoneAssumption, Shapes
    DEF IInv, TypeInv, TypeOK, AnsweredInv, WaiterWaits, Lose, cursor, history
  <2> QED BY <2>2, <2>3 DEF TypeInv
<1>2. TokenInv' /\ EndInv'
  BY Shapes DEF IInv, TypeInv, TypeOK, TokenInv, EndInv, Lose, cursor, history
<1>3. NothingSkipped' /\ EndIsHonest'
  BY HistoryKept DEF Lose, cursor, history
<1>4. OrderInv'
  BY HistoryKept, Shapes, NoneAssumption
  DEF IInv, TypeInv, TypeOK, OrderInv, CallInv, Busy, Lose, cursor, history
<1> QED BY <1>1, <1>2, <1>3, <1>4 DEF IInv

LEMMA ReleaseKeeps ==
  ASSUME IInv, Release
  PROVE  IInv'
PROOF
<1>1. TypeInv'
  <2>1. Over' = Over
    BY DEF Over, Release
  <2>2. TypeOK'
    BY <2>1, Shapes, PagingAssumption
    DEF IInv, TypeInv, TypeOK, Reading, Over, Release, history
  <2>3. AnsweredInv' /\ WaiterWaits'
    BY NoneAssumption, Shapes
    DEF IInv, TypeInv, TypeOK, AnsweredInv, WaiterWaits, Release, history
  <2> QED BY <2>2, <2>3 DEF TypeInv
<1>2. TokenInv' /\ EndInv'
  BY Shapes DEF IInv, TypeInv, TypeOK, TokenInv, EndInv, Release, history
<1>3. NothingSkipped' /\ EndIsHonest'
  BY HistoryKept DEF Release, history
<1>4. OrderInv'
  BY HistoryKept, Shapes, NoneAssumption
  DEF IInv, TypeInv, TypeOK, OrderInv, CallInv, Busy, Release, history
<1> QED BY <1>1, <1>2, <1>3, <1>4 DEF IInv

LEMMA ReceiveKeeps ==
  ASSUME IInv, NEW i \in Calls, Receive(i)
  PROVE  IInv'
PROOF
<1>1. box[i] \in Answer /\ (box[i] = Error \/ box[i] \in Pages)
  BY Shapes DEF IInv, TypeInv, TypeOK, Receive
<1>2. TypeInv'
  <2>1. /\ Cardinality(Over) \in Nat /\ Cardinality(Over') >= Cardinality(Over)
        /\ stage' \in [Calls -> {"new", "asking", "waiting", "answered", "done"}]
    <3>1. Cardinality(Over) \in Nat
      BY PagingAssumption, FS_Subset, FS_CardinalityType DEF Over
    <3>2. CASE box[i] = Error
      BY <3>1, <3>2, OneMoreOver DEF IInv, TypeInv, Receive
    <3>3. CASE box[i] # Error
      BY <3>1, <3>3, NoMoreOver DEF IInv, TypeInv, Receive
    <3> QED BY <3>2, <3>3
  <2>2. heard' = heard /\ Len(heard) \in Nat /\ Len(heard) <= Cardinality(Over)
    BY DEF IInv, TypeInv, TypeOK, Over, Receive, history
  <2>3. Cardinality(Over') \in Nat /\ Len(heard') <= Cardinality(Over')
    <3>1. Cardinality(Over') \in Nat
      BY PagingAssumption, FS_Subset, FS_CardinalityType DEF Over
    <3> QED BY <2>1, <2>2, <3>1
  <2>4. TypeOK'
    BY <2>1, <2>3 DEF IInv, TypeInv, TypeOK, Over, Receive, cursor, history
  <2>5. AnsweredInv' /\ WaiterWaits'
    BY <1>1 DEF IInv, TypeInv, TypeOK, AnsweredInv, WaiterWaits, Receive, Go
  <2> QED BY <2>4, <2>5 DEF TypeInv
<1>3. TokenInv' /\ EndInv'
  BY DEF IInv, TypeInv, TypeOK, TokenInv, EndInv, Receive, Go, cursor, history
<1>4. NothingSkipped' /\ EndIsHonest'
  BY HistoryKept DEF Receive, history
<1>5. OrderInv'
  BY HistoryKept DEF IInv, TypeInv, TypeOK, OrderInv, CallInv, Busy, Receive, Go, cursor, history
<1> QED BY <1>2, <1>3, <1>4, <1>5 DEF IInv

LEMMA ServerAnswersKeeps ==
  ASSUME IInv, NEW i \in Calls, ServerAnswers(i)
  PROVE  IInv'
PROOF
<1> DEFINE f == wire[i].ask
<1>1. f \in 0 .. Events /\ Events \in Nat
  BY PagingAssumption DEF ServerAnswers, Asking
<1>2. PICK page \in Answer : /\ wire' = [wire EXCEPT ![i] = page]
                             /\ page \in Pages => page.from = f /\ Served(page)
  <2>1. CASE wire' = [wire EXCEPT ![i] = Error]
    BY <2>1, Shapes
  <2>2. ASSUME NEW u \in BatchEnds(f), NEW token \in Tokens(u),
               wire' = [wire EXCEPT ![i] =
                          [from |-> f, upto |-> u,
                           next |-> IF HasText(f, u) THEN token ELSE 0]]
        PROVE  \E page \in Answer : /\ wire' = [wire EXCEPT ![i] = page]
                                    /\ page \in Pages => page.from = f /\ Served(page)
    <3> DEFINE page == [from |-> f, upto |-> u, next |-> IF HasText(f, u) THEN token ELSE 0]
    <3>1. u \in 0 .. Events /\ f <= u
      BY <1>1 DEF BatchEnds
    <3>2. token \in {u, 0} /\ (token = 0 => u = Events \/ u = 0)
      BY DEF Tokens
    <3>3. page \in Pages
      BY <1>1, <3>1, <3>2 DEF Pages
    <3>4. HasText(f, u) => u # 0
      BY <1>1, <3>1 DEF HasText, Batch
    <3>5. Served(page)
      BY <3>1, <3>2, <3>4 DEF Served
    <3> QED BY <2>2, <3>3, <3>5, Shapes
  <2> QED BY <2>1, <2>2 DEF ServerAnswers
<1>3. TypeInv'
  BY <1>2 DEF IInv, TypeInv, TypeOK, AnsweredInv, WaiterWaits, ServerAnswers, cursor, history
<1>4. TokenInv' /\ EndInv'
  BY <1>2, Shapes
  DEF IInv, TypeInv, TypeOK, TokenInv, EndInv, PageOK, ServerAnswers, cursor, history
<1>5. NothingSkipped' /\ EndIsHonest'
  BY HistoryKept DEF ServerAnswers, history
<1>6. OrderInv'
  BY <1>2, HistoryKept, Shapes
  DEF IInv, TypeInv, TypeOK, OrderInv, CallInv, Busy, ServerAnswers, cursor, history
<1> QED BY <1>3, <1>4, <1>5, <1>6 DEF IInv

LEMMA AtTheEndKeeps ==
  ASSUME IInv, NEW i \in Calls, AtTheEnd(i)
  PROVE  IInv'
PROOF
<1> DEFINE e == [from |-> 0, upto |-> 0, last |-> TRUE]
<1>1. /\ e \in Reading /\ heard \in Seq(Reading) /\ heard' = Append(heard, e)
      /\ e.from = 0 /\ e.last = TRUE
  BY PagingAssumption DEF IInv, TypeInv, TypeOK, AtTheEnd, Reading
<1> HIDE DEF e
<1>2. TypeInv'
  <2>1. /\ Cardinality(Over') = Cardinality(Over) + 1 /\ Cardinality(Over) \in Nat
        /\ stage' \in [Calls -> {"new", "asking", "waiting", "answered", "done"}]
    BY OneMoreOver DEF IInv, TypeInv, AtTheEnd
  <2>2. heard' \in Seq(Reading) /\ Len(heard') = Len(heard) + 1 /\ Len(heard) \in Nat
    BY <1>1, Appended
  <2>3. Len(heard') <= Cardinality(Over')
    BY <2>1, <2>2 DEF IInv, TypeInv, TypeOK, Over
  <2>4. TypeOK'
    BY <2>1, <2>2, <2>3 DEF IInv, TypeInv, TypeOK, Reading, Over, AtTheEnd, Go, cursor
  <2>5. AnsweredInv' /\ WaiterWaits'
    BY DEF IInv, TypeInv, TypeOK, AnsweredInv, WaiterWaits, AtTheEnd, Go
  <2> QED BY <2>4, <2>5 DEF TypeInv
<1>3. TokenInv'
  BY <1>1, SeenLasts DEF IInv, TypeInv, TypeOK, TokenInv, AtTheEnd, Go, cursor
<1>4. AllTold(heard') \/ hollow'
  BY <1>1, SeenLasts DEF IInv, EndInv, AtTheEnd
<1>5. NothingSkipped'
  <2>1. Seen(heard, e.from)
    BY <1>1 DEF Seen
  <2> QED BY <1>1, <2>1, NothingSkippedLasts DEF IInv
<1>6. EndIsHonest'
  BY <1>1, <1>4, EndIsHonestLasts DEF IInv, AtTheEnd
<1>7. OrderInv'
  <2>1. InOrder => InOrder'
    BY <1>1, InOrderLasts
  <2> QED BY <2>1 DEF IInv, TypeInv, TypeOK, OrderInv, CallInv, Busy, AtTheEnd, Go, cursor
<1> QED BY <1>2, <1>3, <1>4, <1>5, <1>6, <1>7 DEF IInv, EndInv

LEMMA AdvanceKeeps ==
  ASSUME IInv, NEW i \in Calls, Advance(i)
  PROVE  IInv'
PROOF
<1> DEFINE page == box[i]
           text == HasText(page.from, page.upto)
           e == [from |-> page.from, upto |-> page.upto, last |-> ~text]
<1>1. /\ page \in Pages /\ Served(page) /\ Seen(heard, page.from)
      /\ page.from \in 0 .. Events /\ page.upto \in 0 .. Events /\ page.next \in 0 .. Events
  <2>1. page \in Pages
    BY DEF IInv, TypeInv, AnsweredInv, Advance
  <2> QED BY <2>1 DEF IInv, TokenInv, PageOK, Pages
<1>2. /\ e \in Reading /\ heard \in Seq(Reading) /\ heard' = Append(heard, e)
      /\ e.from = page.from /\ e.upto = page.upto /\ e.last = ~text
  BY <1>1 DEF IInv, TypeInv, TypeOK, Advance, Read, Reading, HasText
<1>3. hollow' = (hollow \/ (~text /\ page.upto # Events))
  BY DEF Advance, Read
<1>4. \/ next' = next /\ exhausted' = exhausted /\ ~known
      \/ next' = page.next /\ exhausted' = (page.next = 0)
  BY DEF Advance
<1>5. known' = known /\ UNCHANGED <<waiter, from, box, wire, hurried>> /\ Go(i, "done")
      /\ stage[i] = "answered"
  BY DEF Advance
<1> HIDE DEF e, page
<1>6. Seen(heard', page.upto)
  BY <1>1, <1>2, SeenLasts
<1>7. TypeInv'
  <2>1. /\ Cardinality(Over') = Cardinality(Over) + 1 /\ Cardinality(Over) \in Nat
        /\ stage' \in [Calls -> {"new", "asking", "waiting", "answered", "done"}]
    BY <1>5, OneMoreOver DEF IInv, TypeInv
  <2>2. heard' \in Seq(Reading) /\ Len(heard') = Len(heard) + 1 /\ Len(heard) \in Nat
    BY <1>2, Appended
  <2>3. Len(heard') <= Cardinality(Over')
    BY <2>1, <2>2 DEF IInv, TypeInv, TypeOK, Over
  <2>4. hollow' \in BOOLEAN /\ exhausted' \in BOOLEAN /\ next' \in 0 .. Events
    BY <1>1, <1>3, <1>4 DEF IInv, TypeInv, TypeOK
  <2>5. TypeOK'
    BY <1>5, <2>1, <2>2, <2>3, <2>4 DEF IInv, TypeInv, TypeOK, Reading, Over
  <2>6. AnsweredInv' /\ WaiterWaits'
    BY <1>5 DEF IInv, TypeInv, TypeOK, AnsweredInv, WaiterWaits, Go
  <2> QED BY <2>5, <2>6 DEF TypeInv
<1>8. TokenInv'
  <2>1. Seen(heard', next')
    <3>1. CASE next' = next
      BY <1>2, <3>1, SeenLasts DEF IInv, TokenInv
    <3>2. CASE next' = page.next /\ page.next # 0
      BY <1>1, <1>6, <3>2 DEF Served
    <3>3. CASE next' = page.next /\ page.next = 0
      BY <3>3 DEF Seen
    <3> QED BY <1>4, <3>1, <3>2, <3>3
  <2> QED BY <1>2, <1>5, <2>1, SeenLasts DEF IInv, TypeInv, TypeOK, TokenInv, Go
<1>9. Seen(heard', Events) => AllTold(heard')
  BY DEF Seen, AllTold
<1>10. ~text => hollow' \/ AllTold(heard')
  BY <1>3, <1>6, <1>9
<1>11. page.next = 0 => hollow' \/ AllTold(heard')
  BY <1>1, <1>6, <1>9, <1>10 DEF Served
<1>12. EndInv'
  BY <1>2, <1>3, <1>4, <1>11, SeenLasts DEF IInv, EndInv
<1>13. NothingSkipped'
  BY <1>1, <1>2, NothingSkippedLasts DEF IInv
<1>14. EndIsHonest'
  BY <1>2, <1>3, <1>10, EndIsHonestLasts DEF IInv
<1>15. OrderInv'
  <2> SUFFICES ASSUME ~hurried
               PROVE  OrderInv'
    BY <1>5 DEF OrderInv
  <2>1. i \in Busy /\ Busy = {i} /\ Busy' = {} /\ ~exhausted
    BY <1>5 DEF IInv, TypeInv, TypeOK, OrderInv, Busy, Go
  <2>2. page.from = Reached(heard)
    BY <1>1, <2>1 DEF IInv, OrderInv, CallInv, page
  <2>3. InOrder'
    BY <1>2, <2>2, InOrderLasts DEF IInv, OrderInv
  <2>4. Reached(heard') = page.upto
    <3>1. Len(heard') = Len(heard) + 1 /\ heard' # <<>> /\ heard'[Len(heard) + 1] = e
      BY <1>2, Appended
    <3> QED BY <1>2, <3>1 DEF Reached
  <2>5. known' /\ ~exhausted' => next' = Reached(heard')
    BY <1>1, <1>4, <1>5, <2>4 DEF Served
  <2>6. \A k \in Calls : CallInv(k)'
    BY <1>5, <2>1 DEF IInv, TypeInv, TypeOK, OrderInv, CallInv, Busy, Go
  <2> QED BY <2>1, <2>3, <2>5, <2>6 DEF OrderInv
<1> QED BY <1>7, <1>8, <1>12, <1>13, <1>14, <1>15 DEF IInv
-----------------------------------------------------------------------------
(* The theorems.                                                           *)

LEMMA InitIInv == Init => IInv
PROOF
<1> SUFFICES ASSUME Init PROVE IInv
  OBVIOUS
<1>1. Cardinality(Over) \in Nat
  BY PagingAssumption, FS_Subset, FS_CardinalityType DEF Over
<1>2. TypeInv
  <2>1. heard \in Seq(Reading) /\ Len(heard) <= Cardinality(Over)
    BY <1>1 DEF Init
  <2>2. /\ stage \in [Calls -> {"new", "asking", "waiting", "answered", "done"}]
        /\ from \in [Calls -> 0 .. Events]
        /\ box \in [Calls -> Answer \cup {None}]
        /\ wire \in [Calls -> Asking \cup Answer \cup {None}]
    BY PagingAssumption DEF Init
  <2>3. next \in 0 .. Events /\ waiter \in Calls \cup {None}
    BY PagingAssumption DEF Init
  <2>4. known \in BOOLEAN /\ exhausted \in BOOLEAN /\ hurried \in BOOLEAN /\ hollow \in BOOLEAN
    BY Zenon DEF Init
  <2>5. TypeOK
    BY <2>1, <2>2, <2>3, <2>4 DEF TypeOK, Reading, Over
  <2> QED BY <2>5 DEF Init, TypeInv, AnsweredInv, WaiterWaits
<1>3. TokenInv /\ EndInv
  BY Shapes DEF Init, TokenInv, EndInv, Seen, PageOK
<1>4. NothingSkipped /\ EndIsHonest
  BY DEF Init, NothingSkipped, EndIsHonest, EndIsTheStart
<1>5. OrderInv
  BY DEF Init, OrderInv, InOrder, CallInv, Busy, Reached
<1> QED BY <1>2, <1>3, <1>4, <1>5 DEF IInv

LEMMA NextIInv == IInv /\ [Next]_vars => IInv'
PROOF
<1> SUFFICES ASSUME IInv, [Next]_vars PROVE IInv'
  OBVIOUS
<1>1. CASE UNCHANGED vars
  <2>1. TypeInv' /\ TokenInv' /\ EndInv'
    BY <1>1 DEF IInv, TypeInv, TypeOK, AnsweredInv, WaiterWaits, TokenInv, EndInv,
                vars, cursor, history
  <2>2. NothingSkipped' /\ EndIsHonest' /\ OrderInv'
    BY <1>1, HistoryKept DEF IInv, OrderInv, CallInv, Busy, vars, cursor, history
  <2> QED BY <2>1, <2>2 DEF IInv
<1>2. ASSUME NEW i \in Calls, CallNext(i) PROVE IInv'
  BY <1>2, ReadCursorKeeps, AtTheEndKeeps, UnauthorizedKeeps, AskKeeps, ReceiveKeeps,
     TimeOutKeeps, AdvanceKeeps, ServerAnswersKeeps, deliverKeeps, LoseKeeps
  DEF CallNext
<1>3. CASE Release
  BY <1>3, ReleaseKeeps
<1> QED BY <1>1, <1>2, <1>3 DEF Next

\* The state of the job's cursor, of its waiter and of every call stays well
\* formed, and no more answers are read than calls have ended.
THEOREM TypeCorrect == Spec => []TypeOK
PROOF
<1>1. IInv => TypeOK
  BY DEF IInv, TypeInv
<1> QED BY <1>1, InitIInv, NextIInv, PTL DEF Spec

\* deliver never puts a page where nobody waits for it (daemon.go, deliver and
\* the deferred delete of requestContext).
THEOREM WaiterWaitsAlways == Spec => []WaiterWaits
PROOF
<1>1. IInv => WaiterWaits
  BY DEF IInv, TypeInv
<1> QED BY <1>1, InitIInv, NextIInv, PTL DEF Spec

\* However answers are lost, late, repeated or crossed, the agent never reads a
\* batch before it has read everything between that batch and the mention.
THEOREM NothingIsSkipped == Spec => []NothingSkipped
PROOF
<1>1. IInv => NothingSkipped
  BY DEF IInv
<1> QED BY <1>1, InitIInv, NextIInv, PTL DEF Spec

\* An agent that is told there are no earlier messages has read them all, or a
\* batch without text was in the way.
THEOREM TheEndIsHonest == Spec => []EndIsHonest
PROOF
<1>1. IInv => EndIsHonest
  BY DEF IInv
<1> QED BY <1>1, InitIInv, NextIInv, PTL DEF Spec

\* One call at a time, without a time-out, walks back batch after batch.
THEOREM WalksInOrder == Spec => []WalkInOrder
PROOF
<1>1. IInv => WalkInOrder
  BY DEF IInv, OrderInv, WalkInOrder
<1> QED BY <1>1, InitIInv, NextIInv, PTL DEF Spec
=============================================================================
