--------------------------- MODULE AppserviceProof ---------------------------
(***************************************************************************)
(* Appservice's safety, proved for any number of transactions and requests *)
(* and any size of the cache that outlasts late attempts.                  *)
(***************************************************************************)
EXTENDS Appservice, FiniteSetTheorems, SequenceTheorems, TLAPS

\* The ids in o are those of S, in the order in which they came while n was the
\* homeserver's transaction: after an id came only those less than Lag behind it.
Cache(o, S, n) ==
  /\ o \in Seq(Txns) /\ Len(o) <= Limit
  /\ \A i \in 1 .. Len(o) : o[i] \in S
  /\ \A e \in S : \E i \in 1 .. Len(o) : e = o[i]
  /\ \A i, j \in 1 .. Len(o) : i < j => o[i] # o[j] /\ o[j] >= o[i] - Lag
  /\ \A i \in 1 .. Len(o) : o[i] <= n
  /\ IsFiniteSet(S) /\ Cardinality(S) = Len(o)

CacheInv == Cache(order, seen, next)

\* What a request carries.
RequestInv ==
  \A r \in Requests :
    /\ at[r] # "free" => txn[r] \in Txns /\ txn[r] <= next
    /\ at[r] \in {"free", "sent", "decode"} => todo[r] = 1

\* A transaction that was taken up since the last start is remembered, or no
\* attempt at it can come any more.
Kept(t) == t \in seen \/ next - t > Lag

OnceInv ==
  /\ \A x \in Mentions : handed[x] # 0 => Kept(x[1])
  /\ \A r \in Requests : Working(r) => Kept(txn[r])
  /\ \A r, q \in Requests : Working(r) /\ Working(q) /\ txn[r] = txn[q] => r = q
  /\ \A r \in Requests, x \in Mentions :
       Working(r) /\ x[1] = txn[r] /\ x[2] >= todo[r] => handed[x] = 0

\* The homeserver waits for an attempt at its first unacknowledged transaction.
WaitInv == waiting # NoRequest => at[waiting] # "free" /\ txn[waiting] = next

\* A handler has dispatched the mentions that it has passed.
PassedInv ==
  \A r \in Requests, x \in Mentions :
    at[r] = "handle" /\ txn[r] = x[1] /\ x[2] < todo[r] => handed[x] > 0

\* Whatever is remembered, or about to be acknowledged, is in hand.
Safe(x) == InHand(x) \/ x[1] \in spoiled
RememberedInv == \A x \in Mentions : x[1] \in seen => Safe(x)
AckSafeInv == \A r \in Requests, x \in Mentions : at[r] = "ack" /\ txn[r] = x[1] => Safe(x)

AckInv == WaitInv /\ PassedInv /\ RememberedInv /\ AckSafeInv

IInv ==
  /\ TypeOK
  /\ CacheInv /\ RequestInv /\ OnceInv /\ AckInv
  /\ OncePerLifetime /\ AcknowledgedIsHandled
-----------------------------------------------------------------------------
(* The cache.                                                              *)

LEMMA TxnFacts == /\ Len(Size) \in Nat /\ Txns = 1 .. Len(Size) /\ Limit \in Nat \ {0} /\ Lag \in Nat
  BY AppserviceAssumption DEF Txns

\* An id is added to a cache that has room for it.
LEMMA CacheAppend ==
  ASSUME NEW o, NEW S, NEW n \in Nat, Cache(o, S, n),
         NEW t \in Txns, t \notin S, t <= n, n - t <= Lag, Len(o) < Limit
  PROVE  Cache(Append(o, t), S \cup {t}, n)
<1> DEFINE p == Append(o, t)
<1>1. o \in Seq(Txns) /\ Len(o) \in Nat 
  BY DEF Cache
<1>2. /\ p \in Seq(Txns) /\ Len(p) = Len(o) + 1 
      /\ \A i \in 1 .. Len(o) : p[i] = o[i]
      /\ p[Len(o) + 1] = t
  BY <1>1, AppendProperties
<1> HIDE DEF p
<1>3. /\ \A i \in 1 .. Len(p) : p[i] \in S \cup {t}
      /\ \A e \in S \cup {t} : \E i \in 1 .. Len(p) : e = p[i]
  BY <1>1, <1>2 DEF Cache
<1>4. \A i \in 1 .. Len(o) : o[i] \in Int /\ o[i] # t
  BY <1>1, TxnFacts DEF Cache
<1>5. ASSUME NEW i \in 1 .. Len(p), NEW j \in 1 .. Len(p), i < j
      PROVE  p[i] # p[j] /\ p[j] >= p[i] - Lag
  <2>1. CASE j \in 1 .. Len(o)
    BY <1>1, <1>2, <1>5, <2>1 DEF Cache
  <2>2. CASE j = Len(o) + 1
    <3>1. i \in 1 .. Len(o) /\ p[i] = o[i] /\ p[j] = t /\ o[i] <= n
      BY <1>1, <1>2, <1>5, <2>2 DEF Cache
    <3> QED BY <3>1, <1>4, TxnFacts
  <2> QED BY <1>1, <1>2, <2>1, <2>2
<1>6. \A i \in 1 .. Len(p) : p[i] <= n
  BY <1>1, <1>2 DEF Cache
<1>7. IsFiniteSet(S \cup {t}) /\ Cardinality(S \cup {t}) = Len(o) + 1
  BY FS_AddElement DEF Cache
<1>8. Cache(p, S \cup {t}, n)
  BY <1>1, <1>2, <1>3, <1>5, <1>6, <1>7, TxnFacts DEF Cache
<1> QED BY <1>8 DEF p

\* The oldest id is taken out.
LEMMA CacheTail ==
  ASSUME NEW o, NEW S, NEW n \in Nat, Cache(o, S, n), Len(o) > 0
  PROVE  /\ Cache(Tail(o), S \ {Head(o)}, n)
         /\ Len(Tail(o)) = Len(o) - 1 /\ Head(o) \in S /\ Head(o) = o[1]
<1> DEFINE p == Tail(o)
<1>1. o \in Seq(Txns) /\ Len(o) \in Nat  /\ o # <<>>
  BY DEF Cache
<1>2. /\ p \in Seq(Txns) /\ Len(p) = Len(o) - 1 
      /\ \A i \in 1 .. Len(o) - 1 : p[i] = o[i + 1]
  BY <1>1, HeadTailProperties
<1>3. Head(o) = o[1]
  BY <1>1
<1> HIDE DEF p
<1>4. /\ \A i \in 1 .. Len(p) : p[i] \in S \ {Head(o)}
      /\ \A e \in S \ {Head(o)} : \E i \in 1 .. Len(p) : e = p[i]
  <2>1. \A i \in 2 .. Len(o) : o[i] # o[1] /\ i - 1 \in 1 .. Len(o) - 1 /\ p[i - 1] = o[i]
    BY <1>1, <1>2 DEF Cache
  <2>2. \A i \in 1 .. Len(o) - 1 : i + 1 \in 2 .. Len(o)
    BY <1>1
  <2>3. \A i \in 1 .. Len(o) : i = 1 \/ i \in 2 .. Len(o)
    BY <1>1
  <2>4. \A i \in 1 .. Len(p) : p[i] \in S /\ p[i] # o[1]
    BY <1>1, <1>2, <2>1, <2>2 DEF Cache
  <2>5. ASSUME NEW e \in S \ {o[1]} PROVE \E i \in 1 .. Len(p) : e = p[i]
    <3>1. PICK i \in 1 .. Len(o) : e = o[i]
      BY DEF Cache
    <3>2. i - 1 \in 1 .. Len(p) /\ p[i - 1] = e
      BY <1>2, <2>1, <2>3, <3>1
    <3> QED BY <3>2
  <2> QED BY <1>3, <2>4, <2>5
<1>5. \A i, j \in 1 .. Len(p) : i < j => p[i] # p[j] /\ p[j] >= p[i] - Lag
  BY <1>1, <1>2 DEF Cache
<1>6. \A i \in 1 .. Len(p) : p[i] <= n
  BY <1>1, <1>2 DEF Cache
<1>7. Head(o) \in S
  BY <1>1, <1>3 DEF Cache
<1>8. IsFiniteSet(S \ {Head(o)}) /\ Cardinality(S \ {Head(o)}) = Len(o) - 1
  BY <1>7, FS_RemoveElement DEF Cache
<1> QED BY <1>1, <1>2, <1>3, <1>4, <1>5, <1>6, <1>7, <1>8, TxnFacts DEF Cache, p

\* An id that has to make room for another is too old to come again: with the
\* new one there are more than Limit ids between Lag before it and n.
LEMMA Eviction ==
  ASSUME NEW o, NEW S, NEW n \in Nat, Cache(o, S, n),
         NEW t \in Txns, t \notin S, t <= n, n - t <= Lag, Len(o) >= Limit
  PROVE  n - Head(o) > Lag
<1>1. o \in Seq(Txns) /\ Len(o) \in Nat 
  BY DEF Cache
<1>2. Len(o) > 0 /\ Head(o) = o[1] /\ o[1] \in Int /\ o[1] <= n /\ t \in Int
  BY <1>1, TxnFacts DEF Cache
<1> DEFINE low == o[1] - Lag
<1>3. low \in Int /\ low <= n
  BY <1>2, TxnFacts
<1>4. \A i \in 1 .. Len(o) : o[i] \in Int /\ o[i] <= n /\ o[i] >= low
  <2>1. \A i \in 1 .. Len(o) : o[i] \in Int /\ o[i] <= n
    BY <1>1, TxnFacts DEF Cache
  <2>2. \A i \in 1 .. Len(o) : i > 1 => o[i] >= low
    BY <1>1, <1>2 DEF Cache
  <2> QED BY <1>2, <2>1, <2>2, TxnFacts
<1>5. t \in low .. n
  BY <1>2, <1>3, TxnFacts
<1>6. S \cup {t} \in SUBSET (low .. n)
  BY <1>1, <1>3, <1>4, <1>5 DEF Cache
<1>7. Cardinality(S \cup {t}) = Len(o) + 1
  BY FS_AddElement DEF Cache
<1> HIDE DEF low
<1>8. IsFiniteSet(low .. n) /\ Cardinality(low .. n) = n - low + 1
  BY <1>3, FS_Interval
<1>9. Cardinality(S \cup {t}) <= Cardinality(low .. n)
  BY <1>6, <1>8, FS_Subset
<1> QED BY <1>1, <1>2, <1>7, <1>8, <1>9, AppserviceAssumption DEF low

\* txnCache.add keeps the cache, and what it forgets cannot come any more.
LEMMA Add ==
  ASSUME TypeOK, CacheInv, NEW t \in Txns, t <= next, next - t <= Lag, add(t)
  PROVE  /\ Cache(order', seen', next)
         /\ \A u \in seen : u \in seen' \/ next - u > Lag
         /\ t \in seen' /\ t \notin seen /\ seen' \subseteq seen \cup {t}
<1>1. next \in Nat /\ t \notin seen /\ Len(order) \in Nat
  BY TxnFacts DEF TypeOK, add
<1>2. CASE Len(order) < Limit
  <2>1. order' = Append(order, t) /\ seen' = seen \cup {t}
    BY <1>1, <1>2, TxnFacts DEF add
  <2> QED BY <1>1, <1>2, <2>1, CacheAppend DEF CacheInv
<1>3. CASE Len(order) >= Limit
  <2>1. order' = Append(Tail(order), t) /\ seen' = (seen \cup {t}) \ {Head(order)}
    BY <1>3 DEF add
  <2>2. /\ Cache(Tail(order), seen \ {Head(order)}, next)
        /\ Len(Tail(order)) = Len(order) - 1 /\ Head(order) \in seen
    BY <1>1, <1>3, TxnFacts, CacheTail DEF CacheInv
  <2>3. Len(Tail(order)) < Limit
    BY <1>1, <2>2, TxnFacts DEF CacheInv, Cache
  <2>4. seen' = (seen \ {Head(order)}) \cup {t}
    BY <1>1, <2>1, <2>2
  <2>5. Cache(Append(Tail(order), t), (seen \ {Head(order)}) \cup {t}, next)
    BY <1>1, <2>2, <2>3, CacheAppend
  <2>6. next - Head(order) > Lag
    BY <1>1, <1>3, Eviction DEF CacheInv
  <2> QED BY <1>1, <2>1, <2>4, <2>5, <2>6
<1> QED BY <1>1, <1>2, <1>3, TxnFacts
\* The mentions of a transaction are numbered without a gap.
LEMMA MentionFacts ==
  /\ \A x \in Mentions : x[1] \in Txns /\ x[2] \in 1 .. 2 /\ x = <<x[1], x[2]>>
  /\ \A t \in Txns, k \in Nat, x \in Mentions :
       x[1] = t /\ k >= 1 /\ <<t, k>> \notin Mentions => x[2] < k
  /\ \A t, k : <<t, k>> \in Mentions => t \in Txns /\ k \in 1 .. 2
<1>1. \A t \in Txns : Size[t] \in 1 .. 2
  BY AppserviceAssumption DEF Txns
<1> QED BY <1>1 DEF Mentions
LEMMA Later ==
  \A n, m, t, l \in Int : m >= n /\ n - t > l => m - t > l
  OBVIOUS

LEMMA MentionType == \A x \in Mentions : x[1] \in Txns /\ x[2] \in 1 .. 2
  BY MentionFacts

LEMMA FirstMention == \A x \in Mentions : ~(x[2] < 1) /\ 1 <= x[2]
  BY MentionType
-----------------------------------------------------------------------------
(* The invariant holds at first, and every step preserves it.              *)

LEMMA IInvInit == Init => IInv
<1> SUFFICES ASSUME Init PROVE IInv
  OBVIOUS
<1>1. TypeOK
  BY TxnFacts, AppserviceAssumption DEF Init, TypeOK, Steps
<1>2. CacheInv
  BY TxnFacts, FS_EmptySet DEF Init, CacheInv, Cache
<1>3. RequestInv
  BY DEF Init, RequestInv
<1>4. OnceInv /\ OncePerLifetime
  BY DEF Init, OnceInv, Working, OncePerLifetime
<1>5. AckInv
  BY DEF Init, AckInv, WaitInv, PassedInv, RememberedInv, AckSafeInv
<1>6. AcknowledgedIsHandled
  BY MentionFacts, TxnFacts DEF Init, AcknowledgedIsHandled
<1> QED BY <1>1, <1>2, <1>3, <1>4, <1>5, <1>6 DEF IInv

\* What Handle does to the mention that is next.
LEMMA HandleFacts ==
  ASSUME TypeOK, NEW r \in Requests, Handle(r)
  PROVE  /\ at[r] = "handle" /\ at' = at /\ txn' = txn /\ seen' = seen /\ next' = next
         /\ waiting' = waiting /\ spoiled' = spoiled /\ before' = before
         /\ txn[r] \in Txns /\ todo[r] \in 1 .. 2 /\ todo' = [todo EXCEPT ![r] = todo[r] + 1]
         /\ \E x \in Mentions : /\ x = <<txn[r], todo[r]>> /\ x[1] = txn[r] /\ x[2] = todo[r]
                                /\ handed' = [handed EXCEPT ![x] = handed[x] + 1]
<1>1. /\ <<txn[r], todo[r]>> \in Mentions
      /\ at[r] = "handle" /\ at' = at /\ txn' = txn /\ seen' = seen /\ next' = next
      /\ waiting' = waiting /\ spoiled' = spoiled /\ before' = before
      /\ todo' = [todo EXCEPT ![r] = todo[r] + 1]
      /\ handed' = [handed EXCEPT ![<<txn[r], todo[r]>>] = handed[<<txn[r], todo[r]>>] + 1]
  BY DEF Handle, synapse, cache
<1>2. txn[r] \in Txns /\ todo[r] \in 1 .. 2
  BY <1>1, MentionFacts
<1> QED BY <1>1, <1>2

LEMMA TypeOKStep == ASSUME IInv, [Next]_vars PROVE TypeOK'
<1> USE TxnFacts, AppserviceAssumption DEF IInv, TypeOK, Steps, Free, Trouble, synapse, cache, history
<1>1. ASSUME NEW r \in Requests, SendTxn(r) PROVE TypeOK'
  BY <1>1 DEF SendTxn
<1>2. ASSUME GiveUp PROVE TypeOK'
  <2>1. next \in Txns
    BY <1>2 DEF GiveUp, AckInv, WaitInv, RequestInv
  <2> QED BY <1>2, <2>1 DEF GiveUp
<1>3. ASSUME NEW r \in Requests, Lose(r) PROVE TypeOK'
  BY <1>3 DEF Lose
<1>4. ASSUME NEW r \in Requests, Respond(r) PROVE TypeOK'
  <2>1. waiting = r => next \in Txns
    BY <1>4 DEF Respond, AckInv, WaitInv, RequestInv
  <2> QED BY <1>4, <2>1 DEF Respond
<1>5. ASSUME NEW r \in Requests, TakeUp(r) PROVE TypeOK'
  <2>1. txn[r] \in Txns /\ txn[r] <= next /\ next - txn[r] <= Lag
    BY <1>5 DEF TakeUp, Arrives, RequestInv
  <2>2. Cache(order', seen', next) /\ seen' \subseteq seen \cup {txn[r]}
    BY <1>5, <2>1, Add DEF TakeUp
  <2>3. order' \in Seq(Txns) /\ Len(order') <= Limit
    BY <2>2 DEF Cache
  <2> QED BY <1>5, <2>1, <2>2, <2>3 DEF TakeUp
<1>6. ASSUME NEW r \in Requests, Duplicate(r) PROVE TypeOK'
  BY <1>6 DEF Duplicate
<1>7. ASSUME NEW r \in Requests, Decode(r) PROVE TypeOK'
  BY <1>7 DEF Decode
<1>8. ASSUME NEW r \in Requests, DecodeFails(r) PROVE TypeOK'
  <2>1. txn[r] \in Txns
    BY <1>8 DEF DecodeFails, RequestInv
  <2>2. spoiled' \in SUBSET Txns
    <3>1. spoiled' = spoiled \cup {txn[r]}
      BY <1>8 DEF DecodeFails
    <3> QED BY <2>1, <3>1
  <2>4. troubles' \in 0 .. MaxTroubles
    BY <1>8 DEF DecodeFails
  <2>3. at' \in [Requests -> Steps]
    BY <1>8 DEF DecodeFails
  <2> QED BY <1>8, <2>2, <2>3, <2>4 DEF DecodeFails
<1>9. ASSUME NEW r \in Requests, Handle(r) PROVE TypeOK'
  <2>1. /\ next' \in 1 .. Len(Size) + 1 /\ waiting' \in Requests \cup {NoRequest}
        /\ at' \in [Requests -> Steps] /\ txn' \in [Requests -> Txns \cup {0}]
        /\ seen' \in SUBSET Txns /\ order' \in Seq(Txns) /\ Len(order') <= Limit
        /\ spoiled' \in SUBSET Txns /\ restarts' \in 0 .. MaxRestarts /\ troubles' \in 0 .. MaxTroubles
    BY <1>9 DEF Handle
  <2>2. todo' \in [Requests -> 1 .. 3]
    <3>1. todo[r] \in 1 .. 2 /\ todo' = [todo EXCEPT ![r] = todo[r] + 1]
      BY <1>9, HandleFacts
    <3> QED BY <3>1
  <2>3. handed' \in [Mentions -> Nat] /\ before' \in SUBSET Mentions
    <3>1. PICK x \in Mentions : handed' = [handed EXCEPT ![x] = handed[x] + 1]
      BY <1>9, HandleFacts
    <3>2. before' = before
      BY <1>9, HandleFacts
    <3> QED BY <3>1, <3>2
  <2> QED BY <2>1, <2>2, <2>3
<1>10. ASSUME NEW r \in Requests, Finish(r) PROVE TypeOK'
  BY <1>10 DEF Finish
<1>11. ASSUME Restart PROVE TypeOK'
  <2>1. \A r \in Requests : Working(r) => txn[r] \in Txns
    BY DEF RequestInv, Working
  <2>2. spoiled' \in SUBSET Txns
    <3>1. spoiled' = spoiled \cup {txn[r] : r \in {q \in Requests : Working(q) /\ txn[q] < next}}
      BY <1>11 DEF Restart
    <3>2. \A t \in {txn[r] : r \in {q \in Requests : Working(q) /\ txn[q] < next}} : t \in Txns
      BY <2>1
    <3> QED BY <3>1, <3>2
  <2>3. /\ at' \in [Requests -> Steps] /\ txn' \in [Requests -> Txns \cup {0}]
        /\ todo' \in [Requests -> 1 .. 3] /\ waiting' \in Requests \cup {NoRequest}
    BY <1>11 DEF Restart
  <2>4. seen' = {} /\ order' = <<>> /\ handed' \in [Mentions -> Nat] /\ before' \in SUBSET Mentions
    BY <1>11 DEF Restart
  <2>5. restarts' \in 0 .. MaxRestarts /\ UNCHANGED <<next, troubles>>
    BY <1>11 DEF Restart
  <2> QED BY <2>2, <2>3, <2>4, <2>5
<1>12. ASSUME UNCHANGED vars PROVE TypeOK'
  BY <1>12 DEF vars
<1> QED BY <1>1, <1>2, <1>3, <1>4, <1>5, <1>6, <1>7, <1>8, <1>9, <1>10, <1>11, <1>12 DEF Next, RequestNext

LEMMA CacheInvStep == ASSUME IInv, [Next]_vars PROVE CacheInv'
<1> USE TxnFacts DEF IInv, synapse, cache, history
<1>1. ASSUME NEW r \in Requests, Respond(r) PROVE CacheInv'
  <2>1. next \in Nat /\ next' \in Nat /\ next <= next' /\ seen' = seen /\ order' = order
    BY <1>1 DEF Respond, TypeOK
  <2>2. \A i \in 1 .. Len(order) : order[i] \in Nat /\ order[i] <= next
    BY DEF TypeOK, CacheInv, Cache
  <2> QED BY <2>1, <2>2 DEF CacheInv, Cache
<1>2. ASSUME NEW r \in Requests, TakeUp(r) PROVE CacheInv'
  <2>1. txn[r] \in Txns /\ txn[r] <= next /\ next - txn[r] <= Lag /\ add(txn[r]) /\ next' = next
    BY <1>2 DEF TakeUp, Arrives, RequestInv
  <2> QED BY <2>1, Add DEF CacheInv
<1>3. ASSUME Restart PROVE CacheInv'
  BY <1>3, FS_EmptySet DEF Restart, TypeOK, CacheInv, Cache
<1>4. ASSUME UNCHANGED <<next, cache>> PROVE CacheInv'
  BY <1>4 DEF CacheInv
<1> QED BY <1>1, <1>2, <1>3, <1>4 DEF Next, RequestNext, SendTxn, GiveUp, Lose, Duplicate, Decode,
           DecodeFails, Handle, Finish, vars

LEMMA RequestInvStep == ASSUME IInv, [Next]_vars PROVE RequestInv'
<1> USE TxnFacts DEF IInv, TypeOK, Steps, RequestInv, Free, Trouble, synapse, cache, history
<1>1. ASSUME NEW r \in Requests, SendTxn(r) PROVE RequestInv'
  BY <1>1 DEF SendTxn
<1>2. ASSUME GiveUp PROVE RequestInv'
  BY <1>2 DEF GiveUp
<1>3. ASSUME NEW r \in Requests, Lose(r) PROVE RequestInv'
  BY <1>3 DEF Lose
<1>4. ASSUME NEW r \in Requests, Respond(r) PROVE RequestInv'
  BY <1>4 DEF Respond
<1>5. ASSUME NEW r \in Requests, TakeUp(r) PROVE RequestInv'
  BY <1>5 DEF TakeUp, Arrives
<1>6. ASSUME NEW r \in Requests, Duplicate(r) PROVE RequestInv'
  BY <1>6 DEF Duplicate, Arrives
<1>7. ASSUME NEW r \in Requests, Decode(r) PROVE RequestInv'
  BY <1>7 DEF Decode
<1>8. ASSUME NEW r \in Requests, DecodeFails(r) PROVE RequestInv'
  BY <1>8 DEF DecodeFails
<1>9. ASSUME NEW r \in Requests, Handle(r) PROVE RequestInv'
  BY <1>9 DEF Handle
<1>10. ASSUME NEW r \in Requests, Finish(r) PROVE RequestInv'
  BY <1>10 DEF Finish
<1>11. ASSUME Restart PROVE RequestInv'
  BY <1>11 DEF Restart
<1>12. ASSUME UNCHANGED vars PROVE RequestInv'
  BY <1>12 DEF vars
<1> QED BY <1>1, <1>2, <1>3, <1>4, <1>5, <1>6, <1>7, <1>8, <1>9, <1>10, <1>11, <1>12 DEF Next, RequestNext

LEMMA OnceStep == ASSUME IInv, [Next]_vars PROVE OnceInv' /\ OncePerLifetime'
<1> USE TxnFacts, MentionType DEF IInv, TypeOK, RequestInv, OnceInv, OncePerLifetime, Working, Kept,
                     Free, Trouble, synapse, cache, history
<1> DEFINE Goal == OnceInv /\ OncePerLifetime
<1>1. ASSUME NEW r \in Requests, SendTxn(r) PROVE Goal'
  BY <1>1 DEF SendTxn
<1>2. ASSUME GiveUp PROVE Goal'
  BY <1>2 DEF GiveUp
<1>3. ASSUME NEW r \in Requests, Lose(r) PROVE Goal'
  BY <1>3 DEF Lose
<1>4. ASSUME NEW r \in Requests, Respond(r) PROVE Goal'
  <2>1. next' >= next /\ next \in Int /\ next' \in Int /\ seen' = seen /\ handed' = handed
    BY <1>4 DEF Respond
  <2>2. ASSUME NEW t \in Txns, Kept(t) PROVE Kept(t)'
    <3>1. t \in Int /\ Lag \in Int
      BY TxnFacts
    <3>2. next - t > Lag => next' - t > Lag
      BY <2>1, <3>1, Later
    <3> QED BY <2>1, <2>2, <3>2
  <2>3. \A q \in Requests : Working(q)' => Working(q) /\ txn'[q] = txn[q] /\ todo'[q] = todo[q]
    BY <1>4 DEF Respond
  <2>4. \A q \in Requests : Working(q) => txn[q] \in Txns
    BY Zenon
  <2> QED BY <2>1, <2>2, <2>3, <2>4, SMTT(30)
<1>5. ASSUME NEW r \in Requests, TakeUp(r) PROVE Goal'
  <2>1. txn[r] \in Txns /\ txn[r] <= next /\ next - txn[r] <= Lag /\ add(txn[r])
    BY <1>5 DEF TakeUp, Arrives
  <2>2. /\ \A u \in seen : u \in seen' \/ next - u > Lag
        /\ txn[r] \in seen' /\ txn[r] \notin seen
    BY <2>1, Add
  <2>3. ~Kept(txn[r])
    BY <2>1, <2>2
  <2>4. \A t \in Txns : Kept(t) => Kept(t)'
    BY <1>5, <2>2 DEF TakeUp
  <2>5. \A q \in Requests : Working(q)' <=> Working(q) \/ q = r
    BY <1>5 DEF TakeUp, Arrives, Steps
  <2>6. (\A x \in Mentions : handed[x] # 0 => Kept(x[1]))'
    BY <1>5, <2>4 DEF TakeUp
  <2>7. (\A q \in Requests : Working(q) => Kept(txn[q]))'
    BY <1>5, <2>2, <2>4, <2>5 DEF TakeUp
  <2>8. (\A p, q \in Requests : Working(p) /\ Working(q) /\ txn[p] = txn[q] => p = q)'
    BY <1>5, <2>3, <2>5 DEF TakeUp
  <2>9. (\A q \in Requests, x \in Mentions :
           Working(q) /\ x[1] = txn[q] /\ x[2] >= todo[q] => handed[x] = 0)'
    BY <1>5, <2>3, <2>5 DEF TakeUp
  <2> QED BY <1>5, <2>6, <2>7, <2>8, <2>9 DEF TakeUp
<1>6. ASSUME NEW r \in Requests, Duplicate(r) PROVE Goal'
  BY <1>6 DEF Duplicate, Arrives
<1>7. ASSUME NEW r \in Requests, Decode(r) PROVE Goal'
  BY <1>7 DEF Decode
<1>8. ASSUME NEW r \in Requests, DecodeFails(r) PROVE Goal'
  BY <1>8 DEF DecodeFails
<1>9. ASSUME NEW r \in Requests, Handle(r) PROVE Goal'
  <2>0. PICK x \in Mentions : /\ x[1] = txn[r] /\ x[2] = todo[r]
                              /\ handed' = [handed EXCEPT ![x] = handed[x] + 1]
    BY <1>9, HandleFacts
  <2>1. handed[x] = 0 /\ handed' = [handed EXCEPT ![x] = 1]
    <3>1. at[r] = "handle" /\ todo[r] \in 1 .. 2
      BY <1>9, HandleFacts
    <3>2. handed[x] = 0
      BY <2>0, <3>1
    <3> QED BY <2>0, <3>2
  <2>2. \A y \in Mentions : y[1] = txn[r] /\ y[2] >= todo[r] + 1 => y # x
    <3>1. todo[r] \in 1 .. 2
      BY <1>9, HandleFacts
    <3>2. ~(todo[r] >= todo[r] + 1)
      BY <3>1
    <3> QED BY <2>0, <3>2, Zenon
  <2>3. \A y \in Mentions : y # x => handed'[y] = handed[y]
    BY <2>1
  <2>4. \A q \in Requests : Working(q)' <=> Working(q)
    BY <1>9 DEF Handle
  <2>5. x[1] = txn[r] /\ Working(r)
    BY <1>9, <2>0 DEF Handle
  <2>6. (\A y \in Mentions : handed[y] # 0 => Kept(y[1]))'
    BY <1>9, <2>1, <2>3, <2>5 DEF Handle
  <2>7. ASSUME NEW q \in Requests, NEW y \in Mentions, Working(q), y[1] = txn[q], y[2] >= todo'[q]
        PROVE  handed'[y] = 0
    <3>1. CASE q = r
      <4>1. todo[r] \in 1 .. 2 /\ todo' = [todo EXCEPT ![r] = todo[r] + 1]
        BY <1>9, HandleFacts
      <4>2. todo'[q] = todo[q] + 1 /\ txn' = txn /\ Working(r)
        BY <1>9, <3>1, <4>1 DEF Handle
      <4>3. y[2] >= todo[r] + 1 /\ y[2] >= todo[r] /\ y[1] = txn[r]
        <5>1. y[2] \in 1 .. 2 /\ y[1] = txn[r]
          BY <2>7, <3>1, MentionType, Zenon
        <5>2. y[2] >= todo[r] + 1
          BY <2>7, <3>1, <4>2, Zenon
        <5> QED BY <4>1, <5>1, <5>2
      <4> QED BY <2>2, <2>3, <4>2, <4>3
    <3>2. CASE q # r
      <4>1. todo'[q] = todo[q] /\ y # x
        BY <1>9, <2>5, <2>7, <3>2, HandleFacts, SMTT(30)
      <4> QED BY <2>3, <2>7, <4>1
    <3> QED BY <3>1, <3>2
  <2>8. OncePerLifetime'
    BY <2>1, <2>3
  <2>9. UNCHANGED <<txn, seen, next>>
    BY <1>9, HandleFacts
  <2> QED BY <2>4, <2>6, <2>7, <2>8, <2>9
<1>10. ASSUME NEW r \in Requests, Finish(r) PROVE Goal'
  BY <1>10 DEF Finish
<1>11. ASSUME Restart PROVE Goal'
  <2>1. \A r \in Requests : ~Working(r)'
    BY <1>11 DEF Restart, Handled
  <2>2. handed' = [x \in Mentions |-> 0]
    BY <1>11 DEF Restart
  <2> QED BY <2>1, <2>2
<1>12. ASSUME UNCHANGED vars PROVE Goal'
  BY <1>12 DEF vars
<1> QED BY <1>1, <1>2, <1>3, <1>4, <1>5, <1>6, <1>7, <1>8, <1>9, <1>10, <1>11, <1>12 DEF Next, RequestNext

LEMMA WaitInvStep == ASSUME IInv, [Next]_vars PROVE WaitInv'
<1> USE TxnFacts, AppserviceAssumption
    DEF IInv, AckInv, TypeOK, Steps, RequestInv, WaitInv, Handled, Free, Trouble, synapse, cache, history
<1>1. ASSUME NEW r \in Requests, SendTxn(r) PROVE WaitInv'
  BY <1>1 DEF SendTxn
<1>2. ASSUME GiveUp PROVE WaitInv'
  BY <1>2 DEF GiveUp
<1>3. ASSUME NEW r \in Requests, Lose(r) PROVE WaitInv'
  BY <1>3 DEF Lose
<1>4. ASSUME NEW r \in Requests, Respond(r) PROVE WaitInv'
  BY <1>4 DEF Respond
<1>5. ASSUME NEW r \in Requests, TakeUp(r) PROVE WaitInv'
  BY <1>5 DEF TakeUp, Arrives
<1>6. ASSUME NEW r \in Requests, Duplicate(r) PROVE WaitInv'
  BY <1>6 DEF Duplicate, Arrives
<1>7. ASSUME NEW r \in Requests, Decode(r) PROVE WaitInv'
  BY <1>7 DEF Decode
<1>8. ASSUME NEW r \in Requests, DecodeFails(r) PROVE WaitInv'
  BY <1>8 DEF DecodeFails
<1>9. ASSUME NEW r \in Requests, Handle(r) PROVE WaitInv'
  BY <1>9 DEF Handle
<1>10. ASSUME NEW r \in Requests, Finish(r) PROVE WaitInv'
  BY <1>10 DEF Finish
<1>11. ASSUME Restart PROVE WaitInv'
  BY <1>11 DEF Restart
<1>12. ASSUME UNCHANGED vars PROVE WaitInv'
  BY <1>12 DEF vars
<1> QED BY <1>1, <1>2, <1>3, <1>4, <1>5, <1>6, <1>7, <1>8, <1>9, <1>10, <1>11, <1>12 DEF Next, RequestNext

LEMMA PassedInvStep == ASSUME IInv, [Next]_vars PROVE PassedInv'
<1> USE DEF IInv, AckInv, TypeOK, Steps, RequestInv, PassedInv, Handled, Free, Trouble, synapse, cache, history
<1>1. ASSUME NEW r \in Requests, SendTxn(r) PROVE PassedInv'
  BY <1>1 DEF SendTxn
<1>2. ASSUME GiveUp PROVE PassedInv'
  BY <1>2 DEF GiveUp
<1>3. ASSUME NEW r \in Requests, Lose(r) PROVE PassedInv'
  BY <1>3 DEF Lose
<1>4. ASSUME NEW r \in Requests, Respond(r) PROVE PassedInv'
  BY <1>4 DEF Respond
<1>5. ASSUME NEW r \in Requests, TakeUp(r) PROVE PassedInv'
  BY <1>5 DEF TakeUp, Arrives
<1>6. ASSUME NEW r \in Requests, Duplicate(r) PROVE PassedInv'
  BY <1>6 DEF Duplicate, Arrives
<1>7. ASSUME NEW r \in Requests, Decode(r) PROVE PassedInv'
  <2>1. todo[r] = 1
    BY <1>7 DEF Decode
  <2>2. \A x \in Mentions : ~(x[2] < todo[r])
    BY <2>1, FirstMention, Zenon
  <2> QED BY <1>7, <2>2 DEF Decode
<1>8. ASSUME NEW r \in Requests, DecodeFails(r) PROVE PassedInv'
  BY <1>8 DEF DecodeFails
<1>9. ASSUME NEW r \in Requests, Handle(r) PROVE PassedInv'
  <2>1. PICK y \in Mentions : /\ y = <<txn[r], todo[r]>>
                              /\ handed' = [handed EXCEPT ![y] = handed[y] + 1]
    BY <1>9, HandleFacts
  <2>2. /\ at' = at /\ txn' = txn /\ todo[r] \in 1 .. 2
        /\ todo' = [todo EXCEPT ![r] = todo[r] + 1] /\ at[r] = "handle"
    BY <1>9, HandleFacts
  <2>3. \A x \in Mentions : handed[x] > 0 \/ x = y => handed'[x] > 0
    BY <2>1
  <2>4. ASSUME NEW x \in Mentions, txn[r] = x[1], x[2] < todo[r] + 1
        PROVE  handed'[x] > 0
    <3>1. x[2] \in 1 .. 2 /\ x = <<x[1], x[2]>>
      BY MentionFacts
    <3>2. x[2] = todo[r] => x = y
      BY <2>1, <2>4, <3>1, Zenon
    <3>3. x[2] < todo[r] \/ x[2] = todo[r]
      BY <2>2, <2>4, <3>1
    <3> QED BY <2>2, <2>3, <2>4, <3>2, <3>3
  <2>5. \A q \in Requests : q # r => todo'[q] = todo[q]
    BY <2>2
  <2>6. todo'[r] = todo[r] + 1
    BY <2>2
  <2> QED BY <2>2, <2>3, <2>4, <2>5, <2>6
<1>10. ASSUME NEW r \in Requests, Finish(r) PROVE PassedInv'
  BY <1>10 DEF Finish
<1>11. ASSUME Restart PROVE PassedInv'
  BY <1>11 DEF Restart
<1>12. ASSUME UNCHANGED vars PROVE PassedInv'
  BY <1>12 DEF vars
<1> QED BY <1>1, <1>2, <1>3, <1>4, <1>5, <1>6, <1>7, <1>8, <1>9, <1>10, <1>11, <1>12 DEF Next, RequestNext

\* Once a mention is in hand it stays so; a restart is harmless if the mention's
\* transaction is not acknowledged yet.
LEMMA SafeLasts ==
  ASSUME IInv, [Next]_vars, NEW x \in Mentions, Safe(x), ~Restart \/ x[1] < next
  PROVE  Safe(x)'
<1> USE DEF IInv, TypeOK, Safe, InHand, Working, Free, Trouble, synapse, cache, history
<1>1. ASSUME NEW r \in Requests, SendTxn(r) PROVE Safe(x)'
  BY <1>1 DEF SendTxn
<1>2. ASSUME GiveUp PROVE Safe(x)'
  BY <1>2 DEF GiveUp
<1>3. ASSUME NEW r \in Requests, Lose(r) PROVE Safe(x)'
  BY <1>3 DEF Lose
<1>4. ASSUME NEW r \in Requests, Respond(r) PROVE Safe(x)'
  BY <1>4 DEF Respond
<1>5. ASSUME NEW r \in Requests, TakeUp(r) PROVE Safe(x)'
  BY <1>5 DEF TakeUp, Arrives
<1>6. ASSUME NEW r \in Requests, Duplicate(r) PROVE Safe(x)'
  BY <1>6 DEF Duplicate, Arrives
<1>7. ASSUME NEW r \in Requests, Decode(r) PROVE Safe(x)'
  BY <1>7 DEF Decode
<1>8. ASSUME NEW r \in Requests, DecodeFails(r) PROVE Safe(x)'
  BY <1>8 DEF DecodeFails
<1>9. ASSUME NEW r \in Requests, Handle(r) PROVE Safe(x)'
  <2>1. PICK y \in Mentions : /\ y = <<txn[r], todo[r]>>
                              /\ handed' = [handed EXCEPT ![y] = handed[y] + 1]
    BY <1>9, HandleFacts
  <2>2. /\ at' = at /\ txn' = txn /\ todo[r] \in 1 .. 2 /\ before' = before
        /\ todo' = [todo EXCEPT ![r] = todo[r] + 1] /\ spoiled' = spoiled
    BY <1>9, HandleFacts
  <2>3. handed[x] > 0 \/ x = y => handed'[x] > 0
    BY <2>1
  <2>4. CASE handed[x] > 0 \/ x = y \/ x \in before \/ x[1] \in spoiled
    BY <2>2, <2>3, <2>4
  <2>5. CASE x # y /\ \E q \in Requests : Working(q) /\ txn[q] = x[1] /\ todo[q] <= x[2]
    <3>1. PICK q \in Requests : Working(q) /\ txn[q] = x[1] /\ todo[q] <= x[2]
      BY <2>5
    <3>2. x[2] \in 1 .. 2 /\ x = <<x[1], x[2]>>
      BY MentionFacts
    <3>3. q = r => todo[r] # x[2]
      BY <2>1, <2>5, <3>1, <3>2, Zenon
    <3>4. todo'[q] <= x[2]
      BY <2>2, <3>1, <3>2, <3>3
    <3>5. (Working(q) /\ txn[q] = x[1] /\ todo[q] <= x[2])'
      BY <2>2, <3>1, <3>4
    <3> QED BY <3>5
  <2> QED BY <2>4, <2>5
<1>10. ASSUME NEW r \in Requests, Finish(r) PROVE Safe(x)'
  <2>1. /\ at[r] = "handle" /\ <<txn[r], todo[r]>> \notin Mentions
        /\ at' = [at EXCEPT ![r] = "ack"] /\ UNCHANGED <<txn, todo, handed, before, spoiled>>
    BY <1>10 DEF Finish
  <2>2. x[1] = txn[r] => x[2] < todo[r]
    <3>1. txn[r] \in Txns /\ todo[r] \in Nat /\ todo[r] >= 1
      BY <2>1 DEF RequestInv
    <3>2. \A y \in Mentions : y[1] = txn[r] => y[2] < todo[r]
      BY <2>1, <3>1, MentionFacts, Zenon
    <3> QED BY <3>2
  <2>3. x[1] = txn[r] => handed[x] > 0
    BY <2>1, <2>2 DEF AckInv, PassedInv
  <2> QED BY <2>1, <2>3
<1>11. ASSUME Restart PROVE Safe(x)'
  <2>1. /\ before' = before \cup {y \in Mentions : handed[y] > 0}
        /\ spoiled' = spoiled \cup {txn[r] : r \in {q \in Requests : Working(q) /\ txn[q] < next}}
    BY <1>11 DEF Restart
  <2>2. CASE handed[x] > 0 \/ x \in before \/ x[1] \in spoiled
    BY <2>1, <2>2
  <2>3. CASE \E q \in Requests : Working(q) /\ txn[q] = x[1] /\ todo[q] <= x[2]
    BY <1>11, <2>1, <2>3
  <2> QED BY <2>2, <2>3
<1>12. ASSUME UNCHANGED vars PROVE Safe(x)'
  BY <1>12 DEF vars
<1> QED BY <1>1, <1>2, <1>3, <1>4, <1>5, <1>6, <1>7, <1>8, <1>9, <1>10, <1>11, <1>12 DEF Next, RequestNext

\* Which steps put an id into the cache, acknowledge, and move the queue on
LEMMA SeenGrows ==
  ASSUME [Next]_vars, NEW t, t \in seen', t \notin seen
  PROVE  \E r \in Requests : TakeUp(r)
  BY DEF Next, RequestNext, SendTxn, GiveUp, Lose, Respond, TakeUp, Duplicate, Decode, DecodeFails,
         Handle, Finish, Restart, vars, synapse, cache

LEMMA NewAck ==
  ASSUME IInv, [Next]_vars, ~Restart, NEW q \in Requests, at'[q] = "ack"
  PROVE  txn'[q] = txn[q] /\ (at[q] = "ack" \/ Duplicate(q) \/ Finish(q))
<1> USE DEF IInv, TypeOK, Free, synapse, cache, history
<1>1. ASSUME NEW r \in Requests, SendTxn(r)
      PROVE  txn'[q] = txn[q] /\ (at[q] = "ack" \/ Duplicate(q) \/ Finish(q))
  BY <1>1 DEF SendTxn
<1>2. ASSUME GiveUp
      PROVE  txn'[q] = txn[q] /\ (at[q] = "ack" \/ Duplicate(q) \/ Finish(q))
  BY <1>2 DEF GiveUp
<1>3. ASSUME NEW r \in Requests, Lose(r)
      PROVE  txn'[q] = txn[q] /\ (at[q] = "ack" \/ Duplicate(q) \/ Finish(q))
  BY <1>3 DEF Lose
<1>4. ASSUME NEW r \in Requests, Respond(r)
      PROVE  txn'[q] = txn[q] /\ (at[q] = "ack" \/ Duplicate(q) \/ Finish(q))
  BY <1>4 DEF Respond
<1>5. ASSUME NEW r \in Requests, TakeUp(r)
      PROVE  txn'[q] = txn[q] /\ (at[q] = "ack" \/ Duplicate(q) \/ Finish(q))
  BY <1>5 DEF TakeUp
<1>6. ASSUME NEW r \in Requests, Duplicate(r)
      PROVE  txn'[q] = txn[q] /\ (at[q] = "ack" \/ Duplicate(q) \/ Finish(q))
  BY <1>6 DEF Duplicate
<1>7. ASSUME NEW r \in Requests, Decode(r)
      PROVE  txn'[q] = txn[q] /\ (at[q] = "ack" \/ Duplicate(q) \/ Finish(q))
  BY <1>7 DEF Decode
<1>8. ASSUME NEW r \in Requests, DecodeFails(r)
      PROVE  txn'[q] = txn[q] /\ (at[q] = "ack" \/ Duplicate(q) \/ Finish(q))
  BY <1>8 DEF DecodeFails
<1>9. ASSUME NEW r \in Requests, Handle(r)
      PROVE  txn'[q] = txn[q] /\ (at[q] = "ack" \/ Duplicate(q) \/ Finish(q))
  BY <1>9 DEF Handle
<1>10. ASSUME NEW r \in Requests, Finish(r)
      PROVE  txn'[q] = txn[q] /\ (at[q] = "ack" \/ Duplicate(q) \/ Finish(q))
  BY <1>10 DEF Finish
<1>11. ASSUME UNCHANGED vars
      PROVE  txn'[q] = txn[q] /\ (at[q] = "ack" \/ Duplicate(q) \/ Finish(q))
  BY <1>11 DEF vars
<1> QED BY <1>1, <1>2, <1>3, <1>4, <1>5, <1>6, <1>7, <1>8, <1>9, <1>10, <1>11 DEF Next, RequestNext

LEMMA NextGrows ==
  ASSUME [Next]_vars, next' # next
  PROVE  \E r \in Requests : Respond(r)
  BY DEF Next, RequestNext, SendTxn, GiveUp, Lose, Respond, TakeUp, Duplicate, Decode, DecodeFails,
         Handle, Finish, Restart, vars, synapse, cache

LEMMA RememberedInvStep == ASSUME IInv, [Next]_vars PROVE RememberedInv'
<1> SUFFICES ASSUME NEW x \in Mentions, x[1] \in seen' PROVE Safe(x)'
  BY DEF RememberedInv
<1> USE DEF IInv, AckInv, RememberedInv
<1>1. CASE x[1] \in seen /\ ~Restart
  BY <1>1, SafeLasts
<1>2. CASE Restart
  BY <1>2 DEF Restart
<1>3. CASE x[1] \notin seen /\ ~Restart
  <2>1. PICK r \in Requests : TakeUp(r)
    BY <1>3, SeenGrows
  <2>2. x[1] = txn[r] /\ at' = [at EXCEPT ![r] = "decode"] /\ txn' = txn /\ todo' = todo /\ todo[r] = 1
    <3>1. txn[r] \in Txns /\ txn[r] <= next /\ next - txn[r] <= Lag /\ add(txn[r])
      BY <2>1 DEF TakeUp, Arrives, RequestInv
    <3>2. seen' \subseteq seen \cup {txn[r]}
      BY <3>1, Add
    <3> QED BY <1>3, <2>1, <3>2 DEF TakeUp, Arrives, RequestInv
  <2>3. (Working(r) /\ txn[r] = x[1] /\ todo[r] <= x[2])'
    <3>1. Working(r)'
      BY <2>2 DEF Working, TypeOK
    <3>2. todo[r] <= x[2]
      BY <2>2, FirstMention, Zenon
    <3> QED BY <2>2, <3>1, <3>2
  <2> QED BY <2>3 DEF Safe, InHand
<1> QED BY <1>1, <1>2, <1>3

LEMMA AckSafeInvStep == ASSUME IInv, [Next]_vars PROVE AckSafeInv'
<1> SUFFICES ASSUME NEW q \in Requests, NEW x \in Mentions, at'[q] = "ack", txn'[q] = x[1]
             PROVE  Safe(x)'
  BY DEF AckSafeInv
<1>1. CASE Restart
  BY <1>1 DEF IInv, TypeOK, Restart, Handled, Free
<1>2. CASE ~Restart
  <2>1. txn[q] = x[1] /\ (at[q] = "ack" \/ Duplicate(q) \/ Finish(q))
    BY <1>2, NewAck
  <2>2. Safe(x)
    <3>1. CASE at[q] = "ack"
      BY <2>1, <3>1 DEF IInv, AckInv, AckSafeInv
    <3>2. CASE Duplicate(q)
      BY <2>1, <3>2 DEF IInv, AckInv, RememberedInv, Duplicate
    <3>3. CASE Finish(q)
      <4>1. at[q] = "handle" /\ <<txn[q], todo[q]>> \notin Mentions
        BY <3>3 DEF Finish
      <4>2. x[2] < todo[q]
        <5>1. txn[q] \in Txns /\ todo[q] \in Nat /\ todo[q] >= 1
          BY <4>1 DEF IInv, RequestInv, TypeOK
        <5> QED BY <2>1, <4>1, <5>1, MentionFacts, Zenon
      <4> QED BY <2>1, <4>1, <4>2 DEF IInv, AckInv, PassedInv, Safe, InHand
    <3> QED BY <2>1, <3>1, <3>2, <3>3
  <2> QED BY <1>2, <2>2, SafeLasts
<1> QED BY <1>1, <1>2

LEMMA AcknowledgedIsHandledStep == ASSUME IInv, [Next]_vars PROVE AcknowledgedIsHandled'
<1> SUFFICES ASSUME NEW x \in Mentions, x[1] < next' PROVE Safe(x)'
  BY DEF AcknowledgedIsHandled, Safe
<1>1. CASE x[1] < next
  BY <1>1, SafeLasts DEF IInv, AcknowledgedIsHandled, Safe
<1>2. CASE ~(x[1] < next)
  <2>1. PICK r \in Requests : Respond(r)
    BY <1>2, NextGrows, Zenon
  <2>2. waiting = r /\ at[r] = "ack" /\ next' = next + 1
    BY <1>2, <2>1 DEF Respond
  <2>3. txn[r] = next
    BY <2>2, AppserviceAssumption DEF IInv, AckInv, WaitInv
  <2>4. x[1] = next
    <3>1. x[1] \in Nat /\ next \in Nat
      BY MentionType, TxnFacts DEF IInv, TypeOK
    <3> QED BY <1>2, <2>2, <3>1
  <2>5. Safe(x)
    BY <2>2, <2>3, <2>4 DEF IInv, AckInv, AckSafeInv
  <2>6. ~Restart
    BY <1>2 DEF Restart
  <2> QED BY <2>5, <2>6, SafeLasts
<1> QED BY <1>1, <1>2

LEMMA Invariance == Spec => []IInv
<1>1. IInv /\ [Next]_vars => IInv'
  BY TypeOKStep, CacheInvStep, RequestInvStep, OnceStep, WaitInvStep, PassedInvStep,
     RememberedInvStep, AckSafeInvStep, AcknowledgedIsHandledStep DEF IInv, AckInv
<1> QED BY <1>1, IInvInit, PTL DEF Spec
-----------------------------------------------------------------------------
\* The variables have their types: the cache stays within its limit, and the
\* homeserver within its queue.
THEOREM TypeCorrect == Spec => []TypeOK
<1>1. IInv => TypeOK
  BY DEF IInv
<1> QED BY <1>1, Invariance, PTL

\* txnCache: the set and the order hold the same ids, each once, through every
\* eviction.
THEOREM CacheStaysConsistent == Spec => []CacheAgrees
<1>1. IInv => CacheAgrees
  <2> SUFFICES ASSUME IInv PROVE CacheAgrees
    OBVIOUS
  <2>1. DOMAIN order = 1 .. Len(order)
    BY DEF IInv, TypeOK
  <2>2. \A i \in 1 .. Len(order) : order[i] \in seen
    BY DEF IInv, CacheInv, Cache
  <2>3. \A e \in seen : \E i \in 1 .. Len(order) : e = order[i]
    BY DEF IInv, CacheInv, Cache
  <2>4. seen = {order[i] : i \in DOMAIN order}
    BY <2>1, <2>2, <2>3, Zenon
  <2>5. Cardinality(seen) = Len(order)
    BY DEF IInv, CacheInv, Cache
  <2> QED BY <2>4, <2>5, Zenon DEF CacheAgrees
<1> QED BY <1>1, Invariance, PTL

\* handleTransaction dispatches a mention at most once between two starts: more
\* than Limit other ids have to come before one is forgotten, and by then every
\* attempt at it is too late to arrive.
THEOREM NoSecondDispatch == Spec => []OncePerLifetime
<1>1. IInv => OncePerLifetime
  BY DEF IInv
<1> QED BY <1>1, Invariance, PTL

\* handleTransaction acknowledges a transaction when each of its mentions has been
\* dispatched, or, as a duplicate, when another attempt at it is being handled
\* and will dispatch the rest: only a cut off body, or a restart in between,
\* loses one.
THEOREM NothingSkipped == Spec => []AcknowledgedIsHandled
<1>1. IInv => AcknowledgedIsHandled
  BY DEF IInv
<1> QED BY <1>1, Invariance, PTL
=============================================================================
