-------------------------- MODULE RateLimitProofs --------------------------
(***************************************************************************)
(* Proofs about RateLimit, for every set of requests and isolates, every   *)
(* limit, every length of the window and every horizon of the clock.       *)
(***************************************************************************)
EXTENDS RateLimit, FiniteSetTheorems, TLAPS

USE RequestsAssumption, IsolateAssumption, LimitAssumption, ClockAssumption

\* Type correctness is inductive on its own.
LEMMA TypeInit == Init => TypeOK
<1> SUFFICES ASSUME Init PROVE TypeOK
  OBVIOUS
<1>1. 0 \in Times /\ 0 \in Hours
  <2>1. 0 \in Times
    BY DEF Times
  <2>2. HourOf(0) = 0
    BY DEF HourOf
  <2> QED
    BY <2>1, <2>2 DEF Hours
<1> QED
  BY <1>1 DEF Init, TypeOK, Queued, Finished

\* The hour of a time is one of the hours.
LEMMA HourOfTime == \A t \in Times : HourOf(t) \in Hours
  BY DEF Hours

LEMMA TypeStep == TypeOK /\ [Next]_vars => TypeOK'
<1> USE DEF TypeOK, Queued, Finished
<1> SUFFICES ASSUME TypeOK, [Next]_vars
             PROVE  TypeOK'
  OBVIOUS
<1>1. ASSUME NEW r \in Requests, Begin(r) PROVE TypeOK'
  BY <1>1, HourOfTime DEF Begin
<1>2. ASSUME NEW r \in Requests, Enter(r) PROVE TypeOK'
  BY <1>2 DEF Enter
<1>3. ASSUME NEW r \in Requests, Acquire(r) PROVE TypeOK'
  BY <1>3 DEF Acquire
<1>4. ASSUME NEW r \in Requests, ListAllows(r) PROVE TypeOK'
  BY <1>4 DEF ListAllows
<1>5. ASSUME NEW r \in Requests, ListDenies(r) PROVE TypeOK'
  BY <1>5 DEF ListDenies, Release
<1>6. ASSUME NEW r \in Requests, PutSucceeds(r) PROVE TypeOK'
  BY <1>6 DEF PutSucceeds, StoreKey, Release, Times
<1>7. ASSUME NEW r \in Requests, KvThrows(r) PROVE TypeOK'
  <2>1. stored' \in SUBSET Requests /\ putAt' \in [Requests -> Times]
    BY <1>7 DEF KvThrows, StoreKey, Times
  <2>2. UNCHANGED <<now, bucket, prev, listedAt, alive, ticket, joined>> /\ Release(r, "failed")
    BY <1>7 DEF KvThrows
  <2> QED
    BY <2>1, <2>2 DEF Release
<1>8. ASSUME NEW r \in Requests, ExpireKey(r) PROVE TypeOK'
  BY <1>8 DEF ExpireKey
<1>9. ASSUME Tick PROVE TypeOK'
  BY <1>9 DEF Tick, Times
<1>10. ASSUME NEW i \in Isolates, KillIsolate(i) PROVE TypeOK'
  BY <1>10 DEF KillIsolate
<1>11. ASSUME UNCHANGED vars PROVE TypeOK'
  BY <1>11 DEF vars
<1> QED
  BY <1>1, <1>2, <1>3, <1>4, <1>5, <1>6, <1>7, <1>8, <1>9, <1>10, <1>11 DEF Next, Call

\* Every reachable state of the limiter is well typed.
THEOREM TypeCorrect == Spec => []TypeOK
  BY TypeInit, TypeStep, PTL DEF Spec
-----------------------------------------------------------------------------
\* r and q contend for the same promise chain.
SameChain(r, q) == IsolateOf[r] = IsolateOf[q] /\ bucket[r] = bucket[q]

\* The chain as a linked list, oldest call first.
TicketsDistinct ==
  /\ \A r \in Requests : pc[r] \in Queued => ticket[r] <= joined
  /\ \A r, q \in Requests :
       r # q /\ pc[r] \in Queued /\ pc[q] \in Queued => ticket[r] # ticket[q]

HoldersUnblocked == \A r \in Requests : pc[r] \in Critical => Unblocked(r)

\* A blocked call waits for the queued call just before it.
BlockedBehindPredecessor ==
  \A r \in Requests : pc[r] \in Queued /\ ~Unblocked(r) =>
    /\ SameChain(r, prev[r])
    /\ pc[prev[r]] \in Queued
    /\ ticket[prev[r]] < ticket[r]
    /\ \A q \in Requests :
         pc[q] \in Queued /\ SameChain(r, q) /\ ticket[q] < ticket[r]
         => ticket[q] <= ticket[prev[r]]

\* An unblocked call is the oldest of its chain.
UnblockedIsOldest ==
  \A r, q \in Requests :
    pc[r] \in Queued /\ Unblocked(r) /\ pc[q] \in Queued /\ SameChain(r, q)
    => ticket[r] <= ticket[q]

\* The map entry is the youngest call of its chain; it is missing only when
\* nobody queues.
TailIsYoungest ==
  \A i \in Isolates, h \in Hours :
    LET t == tail[i][h] IN
    IF t = NoRequest
    THEN \A q \in Requests : pc[q] \in Queued => ~(IsolateOf[q] = i /\ bucket[q] = h)
    ELSE /\ pc[t] \in Queued /\ IsolateOf[t] = i /\ bucket[t] = h
         /\ \A q \in Requests :
              pc[q] \in Queued /\ SameChain(t, q) => ticket[q] <= ticket[t]

ChainInv ==
  /\ TicketsDistinct
  /\ HoldersUnblocked
  /\ BlockedBehindPredecessor
  /\ UnblockedIsOldest
  /\ TailIsYoungest

LEMMA ChainInit == Init => ChainInv
  BY DEF Init, ChainInv, TicketsDistinct, HoldersUnblocked, BlockedBehindPredecessor,
         UnblockedIsOldest, TailIsYoungest, Queued, Critical

\* Leaving the chain: the call that leaves is the oldest, so the call behind
\* it becomes the oldest, and if the map still names it nobody else queues.
LEMMA ReleaseKeepsChain ==
  ASSUME TypeOK, ChainInv, NEW r \in Requests, NEW v \in Finished,
         pc[r] \in Critical, Release(r, v),
         UNCHANGED <<bucket, prev, ticket, joined>>
  PROVE  ChainInv'
<1> USE DEF TypeOK, Queued, Finished, Critical, SameChain
<1>1. /\ pc[r] \in Queued
      /\ pc'[r] \notin Queued
      /\ \A q \in Requests : q # r => pc'[q] = pc[q]
  BY DEF Release
<1>2. \A q \in Requests : pc[q] \in Queued /\ SameChain(r, q) => ticket[r] <= ticket[q]
  BY <1>1 DEF ChainInv, HoldersUnblocked, UnblockedIsOldest
<1>3. \A q \in Requests :
        /\ Unblocked(q)' => Unblocked(q) \/ prev[q] = r
        /\ Unblocked(q) => Unblocked(q)'
  BY <1>1 DEF Unblocked, Release
<1>4. TicketsDistinct'
  BY <1>1 DEF ChainInv, TicketsDistinct
<1>5. HoldersUnblocked'
  BY <1>1, <1>3 DEF ChainInv, HoldersUnblocked
<1>6. BlockedBehindPredecessor'
  <2> SUFFICES ASSUME NEW q \in Requests, pc'[q] \in Queued, ~Unblocked(q)'
               PROVE  /\ SameChain(q, prev[q])
                      /\ pc'[prev[q]] \in Queued
                      /\ ticket[prev[q]] < ticket[q]
                      /\ \A p \in Requests :
                           pc'[p] \in Queued /\ SameChain(q, p) /\ ticket[p] < ticket[q]
                           => ticket[p] <= ticket[prev[q]]
    BY DEF BlockedBehindPredecessor
  <2>1. q # r /\ pc[q] \in Queued /\ ~Unblocked(q)
    BY <1>1, <1>3
  <2>2. prev[q] \in Requests /\ prev[q] # r
    BY <2>1, <1>1 DEF Unblocked, Release
  <2> QED
    BY <1>1, <2>1, <2>2 DEF ChainInv, BlockedBehindPredecessor
<1>7. UnblockedIsOldest'
  <2> SUFFICES ASSUME NEW p \in Requests, NEW q \in Requests,
                      pc'[p] \in Queued, Unblocked(p)', pc'[q] \in Queued, SameChain(p, q)
               PROVE  ticket[p] <= ticket[q]
    BY DEF UnblockedIsOldest
  <2>1. p # r /\ q # r /\ pc[p] \in Queued /\ pc[q] \in Queued
    BY <1>1
  <2>2. CASE Unblocked(p)
    BY <2>1, <2>2 DEF ChainInv, UnblockedIsOldest
  <2>3. CASE ~Unblocked(p)
    <3>1. prev[p] = r
      BY <2>3, <1>3
    <3>2. SameChain(p, r) /\ (ticket[q] < ticket[p] => ticket[q] <= ticket[r])
      BY <2>1, <2>3, <3>1 DEF ChainInv, BlockedBehindPredecessor
    <3>3. ticket[r] <= ticket[q] /\ ticket[r] # ticket[q]
      BY <1>1, <1>2, <2>1, <3>2 DEF ChainInv, TicketsDistinct
    <3>4. ticket[p] \in Nat /\ ticket[q] \in Nat /\ ticket[r] \in Nat
      OBVIOUS
    <3> HIDE DEF TypeOK
    <3> QED
      BY <3>2, <3>3, <3>4
  <2> QED
    BY <2>2, <2>3
<1>8. TailIsYoungest'
  <2> SUFFICES ASSUME NEW i \in Isolates, NEW h \in Hours
               PROVE  LET t == tail'[i][h] IN
                      IF t = NoRequest
                      THEN \A q \in Requests :
                             pc'[q] \in Queued => ~(IsolateOf[q] = i /\ bucket[q] = h)
                      ELSE /\ pc'[t] \in Queued /\ IsolateOf[t] = i /\ bucket[t] = h
                           /\ \A q \in Requests :
                                pc'[q] \in Queued /\ SameChain(t, q)
                                => ticket[q] <= ticket[t]
    BY DEF TailIsYoungest
  <2>1. CASE tail[i][h] = r
    <3>1. IsolateOf[r] = i /\ bucket[r] = h
      BY <2>1 DEF ChainInv, TailIsYoungest
    <3>2. tail'[i][h] = NoRequest
      BY <2>1, <3>1 DEF Release
    <3>3. ASSUME NEW q \in Requests, pc[q] \in Queued, SameChain(r, q) PROVE q = r
      <4>1. ticket[q] \in Nat /\ ticket[r] \in Nat
        OBVIOUS
      <4> HIDE DEF TypeOK
      <4>2. ticket[q] <= ticket[r]
        BY <2>1, <3>3, RequestsAssumption DEF ChainInv, TailIsYoungest
      <4>3. ticket[r] <= ticket[q]
        BY <1>2, <3>3
      <4> QED
        BY <1>1, <3>3, <4>1, <4>2, <4>3 DEF ChainInv, TicketsDistinct
    <3> QED
      BY <1>1, <3>1, <3>2, <3>3
  <2>2. CASE tail[i][h] # r
    <3>1. tail'[i][h] = tail[i][h]
      BY <2>2 DEF Release
    <3> QED
      BY <1>1, <2>2, <3>1 DEF ChainInv, TailIsYoungest
  <2> QED
    BY <2>1, <2>2
<1> QED
  BY <1>4, <1>5, <1>6, <1>7, <1>8 DEF ChainInv

\* Joining the chain: the newcomer is the youngest, and is blocked behind the
\* call the map named, the youngest until now.
LEMMA EnterKeepsChain ==
  ASSUME TypeOK, ChainInv, NEW r \in Requests, Enter(r)
  PROVE  ChainInv'
<1> DEFINE i == IsolateOf[r]
           h == bucket[r]
<1>0. PICK t : t = tail[i][h]
  OBVIOUS
<1>1. /\ r \notin {q \in Requests : pc[q] \in Queued} /\ pc'[r] = "wait" /\ prev'[r] = t
      /\ bucket' = bucket /\ ticket'[r] = joined + 1 /\ joined' = joined + 1
      /\ tail'[i][h] = r
      /\ \A q \in Requests :
           q # r => pc'[q] = pc[q] /\ prev'[q] = prev[q] /\ ticket'[q] = ticket[q]
      /\ \A j \in Isolates, k \in Hours : ~(j = i /\ k = h) => tail'[j][k] = tail[j][k]
  BY <1>0 DEF Enter, TypeOK, Queued
<1>2. /\ joined \in Nat
      /\ i \in Isolates /\ h \in Hours
      /\ "wait" \in Queued \ Critical
      /\ \A q \in Requests :
           /\ ticket[q] \in Nat
           /\ pc[q] \in Queued => ticket[q] <= joined
  BY DEF ChainInv, TicketsDistinct, TypeOK, Queued, Critical
<1>3. /\ t = NoRequest => \A q \in Requests : pc[q] \in Queued => ~SameChain(q, r)
      /\ t # NoRequest => /\ t \in Requests \ {r} /\ pc[t] \in Queued
                          /\ SameChain(t, r) /\ SameChain(r, t)
                          /\ \A q \in Requests :
                               pc[q] \in Queued /\ SameChain(r, q) => ticket[q] <= ticket[t]
  BY <1>0, <1>1, <1>2 DEF ChainInv, TailIsYoungest, SameChain, TypeOK
<1>4. \A q \in Requests : q # r => (Unblocked(q)' <=> Unblocked(q))
  BY <1>1 DEF Unblocked, Enter, TypeOK, Finished
<1>5. Unblocked(r)' <=> t = NoRequest
  BY <1>1, <1>3 DEF Unblocked, Finished, Queued
<1>6. TicketsDistinct'
  BY <1>1, <1>2 DEF ChainInv, TicketsDistinct
<1>7. HoldersUnblocked'
  BY <1>1, <1>2, <1>4 DEF ChainInv, HoldersUnblocked
<1>8. BlockedBehindPredecessor'
  <2> SUFFICES ASSUME NEW q \in Requests, pc'[q] \in Queued, ~Unblocked(q)'
               PROVE  /\ SameChain(q, prev'[q])
                      /\ pc'[prev'[q]] \in Queued
                      /\ ticket'[prev'[q]] < ticket'[q]
                      /\ \A p \in Requests :
                           pc'[p] \in Queued /\ SameChain(q, p) /\ ticket'[p] < ticket'[q]
                           => ticket'[p] <= ticket'[prev'[q]]
    BY <1>1 DEF BlockedBehindPredecessor, SameChain
  <2>1. CASE q = r
    <3>1. prev'[q] = t /\ t \in Requests \ {r} /\ pc'[t] = pc[t] /\ ticket'[t] = ticket[t]
      BY <1>1, <1>3, <1>5, <2>1
    <3>2. ASSUME NEW p \in Requests, pc'[p] \in Queued, SameChain(q, p), ticket'[p] < ticket'[q]
          PROVE  ticket'[p] <= ticket'[t]
      <4>1. p # r
        BY <1>1, <1>2, <2>1, <3>2
      <4> QED
        BY <1>1, <1>3, <2>1, <3>1, <3>2, <4>1
    <3> QED
      BY <1>1, <1>2, <1>3, <2>1, <3>1, <3>2
  <2>2. CASE q # r
    <3>1. pc[q] \in Queued /\ ~Unblocked(q) /\ prev'[q] = prev[q] /\ prev[q] \in Requests
      BY <1>1, <1>4, <2>2 DEF Unblocked, TypeOK
    <3>2. /\ prev[q] # r /\ SameChain(q, prev[q]) /\ pc[prev[q]] \in Queued
          /\ ticket[prev[q]] < ticket[q] /\ ticket[q] <= joined
          /\ \A p \in Requests :
                pc[p] \in Queued /\ SameChain(q, p) /\ ticket[p] < ticket[q]
                => ticket[p] <= ticket[prev[q]]
      BY <1>1, <1>2, <3>1 DEF ChainInv, BlockedBehindPredecessor
    <3>3. ASSUME NEW p \in Requests, pc'[p] \in Queued, SameChain(q, p), ticket'[p] < ticket'[q]
          PROVE  ticket'[p] <= ticket'[prev[q]]
      <4>1. p # r
        BY <1>1, <1>2, <2>2, <3>2, <3>3
      <4> QED
        BY <1>1, <2>2, <3>1, <3>2, <3>3, <4>1
    <3> QED
      BY <1>1, <2>2, <3>1, <3>2, <3>3
  <2> QED
    BY <2>1, <2>2
<1>9. UnblockedIsOldest'
  <2> SUFFICES ASSUME NEW p \in Requests, NEW q \in Requests,
                      pc'[p] \in Queued, Unblocked(p)', pc'[q] \in Queued, SameChain(p, q)
               PROVE  ticket'[p] <= ticket'[q]
    BY <1>1 DEF UnblockedIsOldest, SameChain
  <2>1. CASE p = r
    <3>1. q = r
      BY <1>1, <1>3, <1>5, <2>1 DEF SameChain
    <3> QED
      BY <1>1, <1>2, <2>1, <3>1
  <2>2. CASE p # r /\ q = r
    BY <1>1, <1>2, <2>2
  <2>3. CASE p # r /\ q # r
    BY <1>1, <1>4, <2>3 DEF ChainInv, UnblockedIsOldest
  <2> QED
    BY <2>1, <2>2, <2>3
<1>10. TailIsYoungest'
  <2> SUFFICES ASSUME NEW j \in Isolates, NEW k \in Hours
               PROVE  LET u == tail'[j][k] IN
                      IF u = NoRequest
                      THEN \A q \in Requests :
                             pc'[q] \in Queued => ~(IsolateOf[q] = j /\ bucket[q] = k)
                      ELSE /\ pc'[u] \in Queued /\ IsolateOf[u] = j /\ bucket[u] = k
                           /\ \A q \in Requests :
                                pc'[q] \in Queued /\ SameChain(u, q)
                                => ticket'[q] <= ticket'[u]
    BY <1>1 DEF TailIsYoungest, SameChain
  <2>1. CASE j = i /\ k = h
    <3>1. tail'[j][k] = r /\ r # NoRequest
      BY <1>1, <2>1
    <3>2. ASSUME NEW q \in Requests, pc'[q] \in Queued PROVE ticket'[q] <= ticket'[r]
      BY <1>1, <1>2, <3>2
    <3> QED
      BY <1>1, <1>2, <2>1, <3>1, <3>2
  <2>2. CASE ~(j = i /\ k = h)
    <3>1. tail'[j][k] = tail[j][k] /\ ~(IsolateOf[r] = j /\ bucket[r] = k)
      BY <1>1, <2>2
    <3>2. /\ tail[j][k] # r
          /\ tail[j][k] # NoRequest => tail[j][k] \in Requests
      BY <1>1, <3>1 DEF ChainInv, TailIsYoungest, TypeOK
    <3>3. CASE tail[j][k] = NoRequest
      BY <1>1, <3>1, <3>3 DEF ChainInv, TailIsYoungest
    <3>4. CASE tail[j][k] # NoRequest
      <4>1. /\ pc'[tail[j][k]] \in Queued /\ IsolateOf[tail[j][k]] = j /\ bucket[tail[j][k]] = k
            /\ ticket'[tail[j][k]] = ticket[tail[j][k]]
            /\ \A q \in Requests :
                 pc[q] \in Queued /\ SameChain(tail[j][k], q) => ticket[q] <= ticket[tail[j][k]]
        BY <1>1, <3>2, <3>4 DEF ChainInv, TailIsYoungest
      <4>2. ~SameChain(tail[j][k], r)
        BY <3>1, <4>1 DEF SameChain
      <4> QED
        BY <1>1, <3>1, <3>4, <4>1, <4>2
    <3> QED
      BY <3>3, <3>4
  <2> QED
    BY <2>1, <2>2
<1> QED
  BY <1>6, <1>7, <1>8, <1>9, <1>10 DEF ChainInv

LEMMA ChainStep == TypeOK /\ ChainInv /\ [Next]_vars => ChainInv'
<1> SUFFICES ASSUME TypeOK, ChainInv, [Next]_vars
             PROVE  ChainInv'
  OBVIOUS
<1>5. ASSUME NEW r \in Requests, ListDenies(r) \/ PutSucceeds(r) \/ KvThrows(r)
      PROVE  ChainInv'
  <2>1. UNCHANGED <<bucket, prev, ticket, joined>>
    BY <1>5 DEF ListDenies, PutSucceeds, KvThrows
  <2>2. PICK v \in Finished : pc[r] \in Critical /\ Release(r, v)
    BY <1>5 DEF ListDenies, PutSucceeds, KvThrows, Critical, Finished
  <2> QED
    BY <2>1, <2>2, ReleaseKeepsChain
<1>2. ASSUME NEW r \in Requests, Enter(r) PROVE ChainInv'
  BY <1>2, EnterKeepsChain
<1> USE DEF TypeOK, Queued, Finished, Critical, Unblocked, SameChain,
            ChainInv, TicketsDistinct, HoldersUnblocked, BlockedBehindPredecessor,
            UnblockedIsOldest, TailIsYoungest
<1>1. ASSUME NEW r \in Requests, Begin(r) PROVE ChainInv'
  BY <1>1 DEF Begin
<1>3. ASSUME NEW r \in Requests, Acquire(r) PROVE ChainInv'
  BY <1>3 DEF Acquire
<1>4. ASSUME NEW r \in Requests, ListAllows(r) PROVE ChainInv'
  BY <1>4 DEF ListAllows
<1>6. ASSUME NEW r \in Requests, ExpireKey(r) PROVE ChainInv'
  BY <1>6 DEF ExpireKey
<1>7. ASSUME Tick PROVE ChainInv'
  BY <1>7 DEF Tick
<1>8. ASSUME NEW i \in Isolates, KillIsolate(i) PROVE ChainInv'
  BY <1>8 DEF KillIsolate
<1>9. ASSUME UNCHANGED vars PROVE ChainInv'
  BY <1>9 DEF vars
<1> QED
  BY <1>1, <1>2, <1>3, <1>4, <1>5, <1>6, <1>7, <1>8, <1>9 DEF Next, Call

\* What the chain invariant says of the lock, its map and those who wait.
LEMMA ChainServes ==
  TypeOK /\ ChainInv => ServedInOrder /\ MapHoldsOnlyPending /\ NobodyStranded
<1> SUFFICES ASSUME TypeOK, ChainInv
             PROVE  ServedInOrder /\ MapHoldsOnlyPending /\ NobodyStranded
  OBVIOUS
<1>1. MapHoldsOnlyPending
  BY DEF TypeOK, ChainInv, TailIsYoungest, MapHoldsOnlyPending, Active
<1>2. ASSUME NEW r \in Requests, NEW q \in Requests, pc[r] \in Critical,
             q \in Active(IsolateOf[r], bucket[r]) \ {r}
      PROVE  ticket[r] < ticket[q] /\ pc[q] = "wait"
  <2>1. q # r /\ pc[q] \in Queued /\ pc[r] \in Queued /\ SameChain(r, q) /\ SameChain(q, r)
    BY <1>2 DEF Active, SameChain, Critical, Queued
  <2>2. ticket[r] <= ticket[q] /\ ticket[r] # ticket[q]
    BY <1>2, <2>1 DEF ChainInv, HoldersUnblocked, UnblockedIsOldest, TicketsDistinct
  <2>3. ticket[r] \in Nat /\ ticket[q] \in Nat
    BY DEF TypeOK
  <2>4. pc[q] \notin Critical
    BY <2>1, <2>2, <2>3 DEF ChainInv, HoldersUnblocked, UnblockedIsOldest
  <2> QED
    BY <2>1, <2>2, <2>3, <2>4 DEF Queued, Critical
<1>3. NobodyStranded
  <2> SUFFICES ASSUME NEW r \in Requests, pc[r] = "wait", ~Unblocked(r)
               PROVE  /\ prev[r] \in Active(IsolateOf[r], bucket[r])
                      /\ ticket[prev[r]] < ticket[r]
    BY DEF NobodyStranded
  <2>1. prev[r] \in Requests
    BY DEF TypeOK, Unblocked
  <2>2. SameChain(r, prev[r]) /\ pc[prev[r]] \in Queued /\ ticket[prev[r]] < ticket[r]
    BY DEF ChainInv, BlockedBehindPredecessor, Queued
  <2> QED
    BY <2>1, <2>2 DEF Active, SameChain
<1> QED
  BY <1>1, <1>2, <1>3 DEF ServedInOrder

LEMMA ChainCorrect == Spec => [](TypeOK /\ ChainInv)
  BY TypeInit, TypeStep, ChainInit, ChainStep, PTL DEF Spec

\* The promise chain of withPrefixLock is a FIFO mutual-exclusion lock.
THEOREM LockIsFifo == Spec => []ServedInOrder
  BY ChainCorrect, ChainServes, PTL

\* The lock map never keeps an entry of a call that has left.
THEOREM LockMapDoesNotLeak == Spec => []MapHoldsOnlyPending
  BY ChainCorrect, ChainServes, PTL

\* Every waiting call has an earlier one of its chain to wait for.
THEOREM NobodyIsStranded == Spec => []NobodyStranded
  BY ChainCorrect, ChainServes, PTL
-----------------------------------------------------------------------------
\* For a window after its put the key of an accepted call is in KV.
AcceptedStored ==
  \A r \in Requests :
    pc[r] = "allowed" /\ now < putAt[r] + Window => r \in stored

\* The room a call found is still there when it writes its key: of the calls
\* of its chain that were let through, fewer than LIMIT had a key that had not
\* lapsed at its list.
Fresh(r) == {q \in Accepted(IsolateOf[r], bucket[r]) : listedAt[r] < putAt[q] + Window}
RoomKept == \A r \in Requests : pc[r] = "put" => Cardinality(Fresh(r)) < Limit

LimitInv == AcceptedStored /\ RoomKept /\ IsolateNeverExceedsLimit

\* Sets of requests are finite, and counting them is monotonic.
LEMMA Counting ==
  ASSUME NEW S \in SUBSET Requests, NEW T \in SUBSET S
  PROVE  /\ Cardinality(S) \in Nat /\ Cardinality(T) \in Nat
         /\ Cardinality(T) <= Cardinality(S)
         /\ \A r \in Requests : Cardinality(S \cup {r}) <= Cardinality(S) + 1
<1>1. IsFiniteSet(S)
  BY FS_Subset
<1>2. IsFiniteSet(T) /\ Cardinality(T) <= Cardinality(S)
  BY <1>1, FS_Subset
<1>3. Cardinality(S) \in Nat /\ Cardinality(T) \in Nat
  BY <1>1, <1>2, FS_CardinalityType
<1>4. ASSUME NEW r \in Requests PROVE Cardinality(S \cup {r}) <= Cardinality(S) + 1
  <2>1. Cardinality(S \cup {r}) = IF r \in S THEN Cardinality(S) ELSE Cardinality(S) + 1
    BY <1>1, FS_AddElement
  <2> QED
    BY <1>3, <2>1
<1> QED
  BY <1>2, <1>3, <1>4

LEMMA LimitInit == Init => LimitInv
<1> SUFFICES ASSUME Init PROVE LimitInv
  OBVIOUS
<1>1. \A i \in Isolates, h \in Hours : Accepted(i, h) = {}
  BY DEF Init, Accepted
<1>2. Cardinality({}) = 0
  BY FS_EmptySet
<1>3. IsolateNeverExceedsLimit
  <2> SUFFICES ASSUME NEW i \in Isolates, NEW h \in Hours,
                      NEW S \in SUBSET Accepted(i, h), Cardinality(S) > Limit
               PROVE  FALSE
    BY DEF IsolateNeverExceedsLimit
  <2>1. S = {}
    BY <1>1
  <2> QED
    BY <1>2, <2>1
<1>4. AcceptedStored /\ RoomKept
  BY DEF Init, AcceptedStored, RoomKept
<1> QED
  BY <1>3, <1>4 DEF LimitInv

LEMMA AcceptedStoredStep ==
  ASSUME TypeOK, AcceptedStored, [Next]_vars
  PROVE  AcceptedStored'
<1> USE DEF TypeOK, Times, Queued, Finished, Critical, AcceptedStored
<1>1. ASSUME NEW r \in Requests, Begin(r) PROVE AcceptedStored'
  BY <1>1 DEF Begin
<1>2. ASSUME NEW r \in Requests, Enter(r) \/ Acquire(r) \/ ListAllows(r)
      PROVE  AcceptedStored'
  BY <1>2 DEF Enter, Acquire, ListAllows
<1>3. ASSUME NEW r \in Requests, ListDenies(r) \/ PutSucceeds(r) \/ KvThrows(r)
      PROVE  AcceptedStored'
  <2> SUFFICES ASSUME NEW q \in Requests, pc'[q] = "allowed", now' < putAt'[q] + Window
               PROVE  q \in stored'
    OBVIOUS
  <2>1. now' = now /\ stored \subseteq stored'
    BY <1>3 DEF ListDenies, PutSucceeds, KvThrows, StoreKey
  <2>2. CASE q = r
    BY <1>3, <2>2 DEF ListDenies, PutSucceeds, KvThrows, StoreKey, Release
  <2>3. CASE q # r
    <3>1. pc'[q] = pc[q] /\ putAt'[q] = putAt[q]
      BY <1>3, <2>3 DEF ListDenies, PutSucceeds, KvThrows, StoreKey, Release
    <3> QED
      BY <2>1, <3>1
  <2> QED
    BY <2>2, <2>3
<1>4. ASSUME NEW r \in Requests, ExpireKey(r) PROVE AcceptedStored'
  BY <1>4 DEF ExpireKey
<1>5. ASSUME Tick PROVE AcceptedStored'
  BY <1>5 DEF Tick
<1>6. ASSUME NEW i \in Isolates, KillIsolate(i) PROVE AcceptedStored'
  BY <1>6 DEF KillIsolate
<1>7. ASSUME UNCHANGED vars PROVE AcceptedStored'
  BY <1>7 DEF vars
<1> QED
  BY <1>1, <1>2, <1>3, <1>4, <1>5, <1>6, <1>7 DEF Next, Call

\* Only a successful put enlarges the set of accepted calls.
LEMMA AcceptedGrowth ==
  ASSUME TypeOK, [Next]_vars, NEW i \in Isolates, NEW h \in Hours
  PROVE  \/ Accepted(i, h)' = Accepted(i, h)
         \/ \E r \in Requests :
              /\ PutSucceeds(r) /\ IsolateOf[r] = i /\ bucket[r] = h
              /\ Accepted(i, h)' = Accepted(i, h) \cup {r}
<1> USE DEF TypeOK, Queued, Finished, Critical, Accepted
<1>1. ASSUME NEW r \in Requests,
             Begin(r) \/ Enter(r) \/ Acquire(r) \/ ListAllows(r) \/ ExpireKey(r)
      PROVE  Accepted(i, h)' = Accepted(i, h)
  BY <1>1 DEF Begin, Enter, Acquire, ListAllows, ExpireKey
<1>2. ASSUME NEW r \in Requests, ListDenies(r) \/ KvThrows(r)
      PROVE  Accepted(i, h)' = Accepted(i, h)
  BY <1>2 DEF ListDenies, KvThrows, Release
<1>3. ASSUME NEW r \in Requests, PutSucceeds(r), IsolateOf[r] = i, bucket[r] = h
      PROVE  Accepted(i, h)' = Accepted(i, h) \cup {r}
  BY <1>3 DEF PutSucceeds, Release
<1>4. ASSUME NEW r \in Requests, PutSucceeds(r), ~(IsolateOf[r] = i /\ bucket[r] = h)
      PROVE  Accepted(i, h)' = Accepted(i, h)
  BY <1>4 DEF PutSucceeds, Release
<1>5. ASSUME Tick \/ UNCHANGED vars PROVE Accepted(i, h)' = Accepted(i, h)
  BY <1>5 DEF Tick, vars
<1>6. ASSUME NEW j \in Isolates, KillIsolate(j) PROVE Accepted(i, h)' = Accepted(i, h)
  BY <1>6 DEF KillIsolate
<1> QED
  BY <1>1, <1>2, <1>3, <1>4, <1>5, <1>6 DEF Next, Call

\* The times of a call's list and put are those of its own steps: nothing else
\* moves them, nor the bucket of a call that has one.
LEMMA TimesKept ==
  ASSUME TypeOK, [Next]_vars, NEW r \in Requests, pc[r] \in {"put", "allowed"}
  PROVE  /\ bucket'[r] = bucket[r]
         /\ listedAt'[r] = listedAt[r]
         /\ pc[r] = "allowed" \/ pc'[r] = "put" => putAt'[r] = putAt[r]
<1> USE DEF TypeOK, Queued, Finished, Critical
<1>1. ASSUME NEW q \in Requests,
             Begin(q) \/ Enter(q) \/ Acquire(q) \/ ListAllows(q) \/ ListDenies(q) \/ ExpireKey(q)
      PROVE  bucket'[r] = bucket[r] /\ listedAt'[r] = listedAt[r] /\ putAt'[r] = putAt[r]
  BY <1>1 DEF Begin, Enter, Acquire, ListAllows, ListDenies, ExpireKey
<1>2. ASSUME NEW q \in Requests, PutSucceeds(q) \/ KvThrows(q)
      PROVE  /\ bucket'[r] = bucket[r] /\ listedAt'[r] = listedAt[r]
             /\ pc[r] = "allowed" \/ pc'[r] = "put" => putAt'[r] = putAt[r]
  BY <1>2 DEF PutSucceeds, KvThrows, StoreKey, Release
<1>3. ASSUME Tick \/ UNCHANGED vars \/ \E i \in Isolates : KillIsolate(i)
      PROVE  bucket'[r] = bucket[r] /\ listedAt'[r] = listedAt[r] /\ putAt'[r] = putAt[r]
  BY <1>3 DEF Tick, vars, KillIsolate
<1> QED
  BY <1>1, <1>2, <1>3 DEF Next, Call

\* The list that lets r through counted every call its isolate had accepted
\* and whose key had not lapsed.
LEMMA ListSeesAccepted ==
  ASSUME TypeOK, AcceptedStored, NEW r \in Requests, ListAllows(r)
  PROVE  Cardinality({q \in Accepted(IsolateOf[r], bucket[r]) : now < putAt[q] + Window}) < Limit
<1> DEFINE F == {q \in Accepted(IsolateOf[r], bucket[r]) : now < putAt[q] + Window}
<1>1. PICK seen \in Visible(r) : HasRoom(seen)
  BY DEF ListAllows
<1>2. F \subseteq seen
  BY <1>1 DEF AcceptedStored, Accepted, Visible, OwnKeys
<1>3. seen \in SUBSET Requests
  BY <1>1 DEF Visible, TypeOK
<1> HIDE DEF F
<1>4. Cardinality(F) < Limit
  BY <1>1, <1>2, <1>3, Counting DEF HasRoom
<1> QED
  BY <1>4 DEF F

\* A call reaches its put only from a list that let it through.
LEMMA PutFollowsList ==
  ASSUME TypeOK, [Next]_vars, NEW r \in Requests, pc[r] # "put", pc'[r] = "put"
  PROVE  ListAllows(r)
<1> USE DEF TypeOK, Queued, Finished, Critical
<1>1. ASSUME NEW q \in Requests, Begin(q) \/ Enter(q) \/ Acquire(q) \/ ExpireKey(q)
      PROVE  FALSE
  BY <1>1 DEF Begin, Enter, Acquire, ExpireKey
<1>2. ASSUME NEW q \in Requests, ListDenies(q) \/ PutSucceeds(q) \/ KvThrows(q)
      PROVE  FALSE
  BY <1>2 DEF ListDenies, PutSucceeds, KvThrows, Release
<1>3. ASSUME NEW q \in Requests, ListAllows(q) PROVE q = r
  BY <1>3 DEF ListAllows
<1>4. ~Tick /\ vars' # vars
  BY DEF Tick, vars
<1>5. ASSUME NEW i \in Isolates, KillIsolate(i) PROVE FALSE
  BY <1>5 DEF KillIsolate
<1> QED
  BY <1>1, <1>2, <1>3, <1>4, <1>5 DEF Next, Call

\* A call that is let through had room: of any set it joins, more than LIMIT
\* large, some key had lapsed before its list.
LEMMA RoomBoundsSet ==
  ASSUME TypeOK, NEW r \in Requests, pc[r] = "put", Cardinality(Fresh(r)) < Limit,
         NEW S \in SUBSET (Accepted(IsolateOf[r], bucket[r]) \cup {r}),
         \A q \in S \ {r} : listedAt[r] < putAt[q] + Window
  PROVE  Cardinality(S) <= Limit
<1>1. S \subseteq Fresh(r) \cup {r}
  BY DEF Fresh
<1>2. Fresh(r) \in SUBSET Requests
  BY DEF Fresh, Accepted
<1> DEFINE T == Fresh(r) \cup {r}
<1>3. T \in SUBSET Requests /\ S \in SUBSET T
  BY <1>1, <1>2
<1>4. Cardinality(T) <= Cardinality(Fresh(r)) + 1 /\ Cardinality(Fresh(r)) \in Nat
  BY <1>2, Counting
<1> HIDE DEF T
<1>5. Cardinality(S) <= Cardinality(T) /\ Cardinality(S) \in Nat /\ Cardinality(T) \in Nat
  BY <1>3, Counting
<1> QED
  BY <1>4, <1>5

LEMMA LimitStep ==
  ASSUME TypeOK, ChainInv, LimitInv, [Next]_vars
  PROVE  LimitInv'
<1>1. AcceptedStored'
  BY AcceptedStoredStep DEF LimitInv
<1>2. IsolateNeverExceedsLimit'
  <2> SUFFICES ASSUME NEW i \in Isolates, NEW h \in Hours,
                      NEW S \in SUBSET Accepted(i, h)', Cardinality(S) > Limit
               PROVE  \E r, q \in S : putAt'[q] + Window <= listedAt'[r]
    BY DEF IsolateNeverExceedsLimit
  <2>1. ASSUME S \in SUBSET Accepted(i, h)
        PROVE  \E r, q \in S : putAt'[q] + Window <= listedAt'[r]
    <3>1. PICK r \in S, q \in S : putAt[q] + Window <= listedAt[r]
      BY <2>1 DEF LimitInv, IsolateNeverExceedsLimit
    <3>2. r \in Requests /\ pc[r] = "allowed" /\ q \in Requests /\ pc[q] = "allowed"
      BY <2>1 DEF Accepted
    <3>3. putAt'[q] = putAt[q] /\ listedAt'[r] = listedAt[r]
      BY <3>2, TimesKept
    <3> QED
      BY <3>1, <3>3
  <2>2. ASSUME NEW r \in Requests, PutSucceeds(r), IsolateOf[r] = i, bucket[r] = h,
               Accepted(i, h)' = Accepted(i, h) \cup {r}, r \in S
        PROVE  \E q \in S : putAt'[q] + Window <= listedAt'[r]
    <3>1. pc[r] = "put" /\ listedAt'[r] = listedAt[r] /\ Cardinality(Fresh(r)) < Limit
      BY <2>2 DEF LimitInv, RoomKept, PutSucceeds
    <3>2. S \in SUBSET (Accepted(IsolateOf[r], bucket[r]) \cup {r})
      BY <2>2
    <3>3. S \in SUBSET Requests
      BY <3>2 DEF Accepted
    <3>4. Cardinality(S) \in Nat
      BY <3>3, Counting
    <3>5. PICK q \in S \ {r} : ~(listedAt[r] < putAt[q] + Window)
      <4>1. ~(\A q \in S \ {r} : listedAt[r] < putAt[q] + Window)
        BY <3>1, <3>2, <3>4, RoomBoundsSet
      <4> QED
        BY <4>1
    <3>6. q \in Requests /\ putAt'[q] = putAt[q]
      BY <2>2, <3>3, <3>5 DEF PutSucceeds, StoreKey, TypeOK
    <3>7. putAt[q] + Window <= listedAt[r]
      BY <3>5, <3>6 DEF TypeOK, Times
    <3> QED
      BY <3>1, <3>5, <3>6, <3>7
  <2> QED
    BY <2>1, <2>2, AcceptedGrowth
<1>3. RoomKept'
  <2> SUFFICES ASSUME NEW r \in Requests, pc'[r] = "put"
               PROVE  Cardinality(Fresh(r)') < Limit
    BY DEF RoomKept
  <2> DEFINE i == IsolateOf[r]
             h == bucket[r]
  <2>1. i \in Isolates /\ h \in Hours /\ h = bucket'[r]
    <3>1. pc[r] = "put" \/ ListAllows(r)
      BY PutFollowsList
    <3>2. bucket'[r] = bucket[r]
      BY <3>1, TimesKept DEF ListAllows
    <3> QED
      BY <3>2 DEF TypeOK
  <2>2. CASE pc[r] = "put"
    <3>1. ~ \E q \in Requests : PutSucceeds(q) /\ IsolateOf[q] = i /\ bucket[q] = h
      <4> SUFFICES ASSUME NEW q \in Requests, PutSucceeds(q), IsolateOf[q] = i, bucket[q] = h
                   PROVE  FALSE
        OBVIOUS
      <4>1. q # r
        BY DEF PutSucceeds, Release, TypeOK
      <4>2. pc[q] \in Critical /\ pc[r] \in Critical /\ q \in Active(i, h) \ {r}
        BY <2>2, <4>1 DEF PutSucceeds, Critical, Active, Queued
      <4> QED
        BY <4>2, ChainServes DEF ServedInOrder, Critical
    <3>2. Accepted(i, h)' = Accepted(i, h)
      BY <2>1, <3>1, AcceptedGrowth
    <3>3. listedAt'[r] = listedAt[r]
      BY <2>2, TimesKept
    <3>4. ASSUME NEW q \in Accepted(i, h) PROVE putAt'[q] = putAt[q]
      BY TimesKept DEF Accepted
    <3>5. Fresh(r)' = Fresh(r)
      BY <2>1, <3>2, <3>3, <3>4 DEF Fresh
    <3>6. Cardinality(Fresh(r)) < Limit
      BY <2>2 DEF LimitInv, RoomKept
    <3> QED
      BY <3>5, <3>6
  <2>3. CASE pc[r] # "put"
    <3>1. ListAllows(r)
      BY <2>3, PutFollowsList
    <3>2. Cardinality({q \in Accepted(i, h) : now < putAt[q] + Window}) < Limit
      BY <3>1, ListSeesAccepted DEF LimitInv
    <3>3. Accepted(i, h)' = Accepted(i, h) /\ listedAt'[r] = now /\ putAt' = putAt
      BY <3>1 DEF ListAllows, Accepted, TypeOK
    <3>4. Fresh(r)' = {q \in Accepted(i, h) : now < putAt[q] + Window}
      BY <2>1, <3>3 DEF Fresh
    <3> QED
      BY <3>2, <3>4
  <2> QED
    BY <2>2, <2>3
<1> QED
  BY <1>1, <1>2, <1>3 DEF LimitInv

LEMMA LimitCorrect == Spec => [](TypeOK /\ LimitInv)
<1>1. Init => LimitInv
  BY LimitInit
<1>2. (TypeOK /\ ChainInv) /\ LimitInv /\ [Next]_vars => LimitInv'
  BY LimitStep
<1> QED
  BY <1>1, <1>2, ChainCorrect, PTL DEF Spec

\* Of more calls than LIMIT that an isolate lets through under one hour, one
\* was listed a full window after another's key was put.
THEOREM LimitHolds == Spec => []IsolateNeverExceedsLimit
<1>1. LimitInv => IsolateNeverExceedsLimit
  BY DEF LimitInv
<1> QED
  BY <1>1, LimitCorrect, PTL
-----------------------------------------------------------------------------
\* The hour of a time has begun by that time.
StartOf(h) == h * Window

LEMMA HourHasBegun == \A t \in Times : HourOf(t) \in Int /\ StartOf(HourOf(t)) <= t
  BY DEF Times, HourOf, StartOf

\* No call is listed, and no key put, before the hour it is counted under.
InItsHour ==
  \A r \in Requests :
    /\ pc[r] # "new" => StartOf(bucket[r]) <= now
    /\ pc[r] \in {"put", "allowed"} => StartOf(bucket[r]) <= listedAt[r]
    /\ pc[r] = "allowed" => listedAt[r] <= putAt[r]

LEMMA HoursAreNumbers == \A h \in Hours : h \in Int /\ StartOf(h) \in Int
  BY HourHasBegun DEF Hours, StartOf

LEMMA InItsHourStep == TypeOK /\ InItsHour /\ [Next]_vars => InItsHour'
<1> SUFFICES ASSUME TypeOK, InItsHour, [Next]_vars PROVE InItsHour'
  OBVIOUS
<1> USE HoursAreNumbers DEF TypeOK, Times, Queued, Finished, Critical, InItsHour
<1>1. ASSUME NEW r \in Requests, Begin(r) PROVE InItsHour'
  BY <1>1, HourHasBegun DEF Begin
<1>2. ASSUME NEW r \in Requests, Enter(r) \/ Acquire(r) \/ ListAllows(r) \/ ExpireKey(r)
      PROVE  InItsHour'
  BY <1>2 DEF Enter, Acquire, ListAllows, ExpireKey
<1>3. ASSUME NEW r \in Requests, ListDenies(r) \/ KvThrows(r) PROVE InItsHour'
  BY <1>3 DEF ListDenies, KvThrows, StoreKey, Release
<1>4. ASSUME NEW r \in Requests, PutSucceeds(r) PROVE InItsHour'
  BY <1>4 DEF PutSucceeds, StoreKey, Release
<1>5. ASSUME Tick PROVE InItsHour'
  BY <1>5 DEF Tick
<1>6. ASSUME NEW i \in Isolates, KillIsolate(i) PROVE InItsHour'
  BY <1>6 DEF KillIsolate
<1>7. ASSUME UNCHANGED vars PROVE InItsHour'
  BY <1>7 DEF vars
<1> QED
  BY <1>1, <1>2, <1>3, <1>4, <1>5, <1>6, <1>7 DEF Next, Call

\* The calls of isolate i let through under hour h whose list was answered
\* before the hour was over.
InTime(i, h) == {r \in Accepted(i, h) : listedAt[r] < StartOf(h) + Window}

\* No isolate lets more than LIMIT requests of an address through in an hour,
\* but for those whose list is answered when the hour is over already: only to
\* these can a key of the hour have lapsed.
LimitWithinHour == \A i \in Isolates, h \in Hours : Cardinality(InTime(i, h)) <= Limit

THEOREM LimitHoldsWithinHour == Spec => []LimitWithinHour
<1>1. Init => InItsHour
  BY DEF Init, InItsHour
<1>2. TypeOK /\ InItsHour /\ LimitInv => LimitWithinHour
  <2> SUFFICES ASSUME TypeOK, InItsHour, LimitInv, NEW i \in Isolates, NEW h \in Hours,
                      ~(Cardinality(InTime(i, h)) <= Limit)
               PROVE  FALSE
    BY DEF LimitWithinHour
  <2>1. InTime(i, h) \in SUBSET Requests /\ InTime(i, h) \in SUBSET Accepted(i, h)
    BY DEF InTime, Accepted
  <2>2. Cardinality(InTime(i, h)) > Limit
    BY <2>1, Counting
  <2>3. PICK r \in InTime(i, h), q \in InTime(i, h) : putAt[q] + Window <= listedAt[r]
    BY <2>1, <2>2 DEF LimitInv, IsolateNeverExceedsLimit
  <2>4. q \in Requests /\ r \in Requests /\ pc[q] = "allowed" /\ bucket[q] = h
    BY <2>3 DEF InTime, Accepted
  <2>5. listedAt[r] < StartOf(h) + Window
    BY <2>3 DEF InTime
  <2>6. StartOf(h) <= listedAt[q] /\ listedAt[q] <= putAt[q]
    BY <2>4 DEF InItsHour
  <2>7. StartOf(h) \in Int /\ {listedAt[q], putAt[q], listedAt[r]} \subseteq Int
    BY <2>4, HoursAreNumbers DEF TypeOK, Times
  <2> QED
    BY <2>3, <2>5, <2>6, <2>7
<1> QED
  BY <1>1, <1>2, InItsHourStep, TypeCorrect, LimitCorrect, PTL DEF Spec
=============================================================================
