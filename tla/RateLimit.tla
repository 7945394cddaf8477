----------------------------- MODULE RateLimit -----------------------------
(***************************************************************************)
(* The per-IP fixed-window rate limiter of the feedback Worker,            *)
(* feedback-worker/src/ratelimit.ts, for the requests of ONE client        *)
(* address.  Each accepted request stores a key of its own in the KV       *)
(* bucket of its UTC hour; a per-isolate promise chain (prefixLocks)       *)
(* serialises the "list, compare, put" of the requests that share a bucket *)
(* inside one isolate.  KV itself is eventually consistent: a list sees    *)
(* everything its own isolate wrote and any part of what others wrote.  A  *)
(* key lapses WINDOW_SECONDS after it was put, which may be while a later  *)
(* call of the same bucket, begun just before the full hour, still waits.  *)
(***************************************************************************)
EXTENDS Naturals, FiniteSets

CONSTANTS
  Requests,    \* the POSTs of one client address
  Isolates,    \* Worker isolates that may serve them
  IsolateOf,   \* the isolate each request is routed to
  Limit,       \* LIMIT (5 in the source)
  Window,      \* ticks of the clock in an hour, and in WINDOW_SECONDS
  MaxTime,     \* bound: the clock runs from 0 to MaxTime
  NoRequest    \* "the map has no entry" / "nothing to wait for"

ASSUME RequestsAssumption == IsFiniteSet(Requests) /\ NoRequest \notin Requests
ASSUME IsolateAssumption == IsolateOf \in [Requests -> Isolates]
ASSUME LimitAssumption == Limit \in Nat \ {0}
ASSUME ClockAssumption == Window \in Nat \ {0} /\ MaxTime \in Nat

Times == 0 .. MaxTime

\* currentHourKey: the UTC hour of a time.
HourOf(t) == t \div Window
Hours == {HourOf(t) : t \in Times}

VARIABLES
  now,      \* the clock, in ticks since a full UTC hour
  pc,       \* where each call of checkRateLimit stands
  bucket,   \* the hour each call computed its prefix from
  tail,     \* prefixLocks: the last pending promise per isolate and bucket
  prev,     \* the promise each call found in the map and awaits
  stored,   \* the calls whose key is in KV now
  putAt,    \* when KV applied the put of each key
  listedAt, \* when the list of each call that found room was answered
  alive,    \* isolates the platform has not terminated
  ticket,   \* history: the order in which calls joined a promise chain
  joined    \* history: how many calls have joined one

vars == <<now, pc, bucket, tail, prev, stored, putAt, listedAt, alive, ticket, joined>>

Finished == {"allowed", "denied", "failed"}
Queued == {"wait", "list", "put"}
Critical == {"list", "put"}

\* Calls of isolate i that hold or await the lock of bucket h.
Active(i, h) ==
  {r \in Requests : IsolateOf[r] = i /\ bucket[r] = h /\ pc[r] \in Queued}

\* Calls of isolate i that were let through in bucket h.
Accepted(i, h) ==
  {r \in Requests : IsolateOf[r] = i /\ bucket[r] = h /\ pc[r] = "allowed"}

\* Keys that isolate i has written under the prefix of bucket h.
OwnKeys(i, h) == {r \in stored : IsolateOf[r] = i /\ bucket[r] = h}

Init ==
  /\ now = 0
  /\ pc = [r \in Requests |-> "new"]
  /\ bucket = [r \in Requests |-> 0]
  /\ tail = [i \in Isolates |-> [h \in Hours |-> NoRequest]]
  /\ prev = [r \in Requests |-> NoRequest]
  /\ stored = {}
  /\ putAt = [r \in Requests |-> 0]
  /\ listedAt = [r \in Requests |-> 0]
  /\ alive = [i \in Isolates |-> TRUE]
  /\ ticket = [r \in Requests |-> 0]
  /\ joined = 0

\* checkRateLimit reads the clock, and only then awaits the hash of the IP.
Begin(r) ==
  /\ pc[r] = "new"
  /\ alive[IsolateOf[r]]
  /\ pc' = [pc EXCEPT ![r] = "hash"]
  /\ bucket' = [bucket EXCEPT ![r] = HourOf(now)]
  /\ UNCHANGED <<now, tail, prev, stored, putAt, listedAt, alive, ticket, joined>>

\* withPrefixLock up to its await: look up the previous promise, chain a
\* pending one behind it and store that in the map, with no await between.
Enter(r) ==
  /\ pc[r] = "hash"
  /\ pc' = [pc EXCEPT ![r] = "wait"]
  /\ prev' = [prev EXCEPT ![r] = tail[IsolateOf[r]][bucket[r]]]
  /\ tail' = [tail EXCEPT ![IsolateOf[r]][bucket[r]] = r]
  /\ joined' = joined + 1
  /\ ticket' = [ticket EXCEPT ![r] = joined']
  /\ UNCHANGED <<now, bucket, stored, putAt, listedAt, alive>>

\* Mutant of Unblocked: release() after the try block, not in a finally.
UnblockedOnSuccess(r) ==
  prev[r] # NoRequest => pc[prev[r]] \in {"allowed", "denied"}

\* The previous promise has resolved: there was none, or its call released it.
Unblocked(r) == prev[r] # NoRequest => pc[prev[r]] \in Finished

Acquire(r) ==
  /\ pc[r] = "wait"
  /\ Unblocked(r)
  /\ pc' = [pc EXCEPT ![r] = "list"]
  /\ UNCHANGED <<now, bucket, tail, prev, stored, putAt, listedAt, alive, ticket, joined>>

\* Mutant of Release: the map entry is dropped even when a later call owns it.
ReleaseAlways(r, verdict) ==
  /\ pc' = [pc EXCEPT ![r] = verdict]
  /\ tail' = [tail EXCEPT ![IsolateOf[r]][bucket[r]] = NoRequest]

\* The finally block: resolve the own promise and drop the map entry if no
\* later call has replaced it.
Release(r, verdict) ==
  /\ pc' = [pc EXCEPT ![r] = verdict]
  /\ tail' = [tail EXCEPT ![IsolateOf[r]][bucket[r]] = IF @ = r THEN NoRequest ELSE @]

\* What FEEDBACK_RATELIMIT.list may return to r under r's prefix.
Visible(r) ==
  {seen \in SUBSET stored :
      /\ OwnKeys(IsolateOf[r], bucket[r]) \subseteq seen
      /\ \A q \in seen : bucket[q] = bucket[r]}

\* Mutant of HasRoom: ">" instead of ">=" in the comparison with LIMIT.
HasRoomOffByOne(seen) == Cardinality(seen) <= Limit

\* The comparison after the list; asking for LIMIT + 1 keys cannot change it.
HasRoom(seen) == Cardinality(seen) < Limit

ListAllows(r) ==
  /\ pc[r] = "list"
  /\ \E seen \in Visible(r) : HasRoom(seen)
  /\ pc' = [pc EXCEPT ![r] = "put"]
  /\ listedAt' = [listedAt EXCEPT ![r] = now]
  /\ UNCHANGED <<now, bucket, tail, prev, stored, putAt, alive, ticket, joined>>

ListDenies(r) ==
  /\ pc[r] = "list"
  /\ \E seen \in Visible(r) : ~HasRoom(seen)
  /\ Release(r, "denied")
  /\ UNCHANGED <<now, bucket, prev, stored, putAt, listedAt, alive, ticket, joined>>

\* KV applies the put some time between the list and the answer; the key's
\* time to live counts from there.
StoreKey(r) ==
  /\ stored' = stored \cup {r}
  /\ \E t \in listedAt[r] .. now : putAt' = [putAt EXCEPT ![r] = t]

PutSucceeds(r) ==
  /\ pc[r] = "put"
  /\ StoreKey(r)
  /\ Release(r, "allowed")
  /\ UNCHANGED <<now, bucket, prev, listedAt, alive, ticket, joined>>

\* A KV call rejects; the finally block still releases.  A rejected put may
\* have been applied.
KvThrows(r) ==
  /\ pc[r] \in Critical
  /\ \/ UNCHANGED <<stored, putAt>>
     \/ pc[r] = "put" /\ StoreKey(r)
  /\ Release(r, "failed")
  /\ UNCHANGED <<now, bucket, prev, listedAt, alive, ticket, joined>>

\* Time passes, in the middle of any call.
Tick ==
  /\ now < MaxTime
  /\ now' = now + 1
  /\ UNCHANGED <<pc, bucket, tail, prev, stored, putAt, listedAt, alive, ticket, joined>>

\* expirationTtl: WINDOW_SECONDS after its own put a key is gone, whoever is
\* in the middle of a call of its bucket.
ExpireKey(r) ==
  /\ r \in stored
  /\ putAt[r] + Window <= now
  /\ stored' = stored \ {r}
  /\ UNCHANGED <<now, pc, bucket, tail, prev, putAt, listedAt, alive, ticket, joined>>

\* The platform terminates an isolate: its calls and its lock map are gone.
KillIsolate(i) ==
  /\ alive[i]
  /\ alive' = [alive EXCEPT ![i] = FALSE]
  /\ pc' = [r \in Requests |->
              IF IsolateOf[r] = i /\ pc[r] \in Queued \cup {"hash"} THEN "dead" ELSE pc[r]]
  /\ tail' = [tail EXCEPT ![i] = [h \in Hours |-> NoRequest]]
  /\ UNCHANGED <<now, bucket, prev, stored, putAt, listedAt, ticket, joined>>

Call(r) ==
  \/ Begin(r) \/ Enter(r) \/ Acquire(r) \/ ListAllows(r)
  \/ ListDenies(r) \/ PutSucceeds(r) \/ KvThrows(r)

Next ==
  \/ \E r \in Requests : Call(r) \/ ExpireKey(r)
  \/ Tick
  \/ \E i \in Isolates : KillIsolate(i)

Spec == Init /\ [][Next]_vars
-----------------------------------------------------------------------------
\* Every variable stays in its domain.
TypeOK ==
  /\ now \in Times
  /\ pc \in [Requests -> {"new", "hash", "dead"} \cup Queued \cup Finished]
  /\ bucket \in [Requests -> Hours]
  /\ tail \in [Isolates -> [Hours -> Requests \cup {NoRequest}]]
  /\ prev \in [Requests -> Requests \cup {NoRequest}]
  /\ stored \in SUBSET Requests
  /\ putAt \in [Requests -> Times]
  /\ listedAt \in [Requests -> Times]
  /\ alive \in [Isolates -> BOOLEAN]
  /\ ticket \in [Requests -> Nat]
  /\ joined \in Nat

\* The promise chain is a FIFO lock: a call between its list and its put
\* arrived before every other call queued for the same bucket in its isolate
\* (so no two are there at once, and none overtakes another).
ServedInOrder ==
  \A r, q \in Requests :
    /\ pc[r] \in Critical
    /\ q \in Active(IsolateOf[r], bucket[r]) \ {r}
    => ticket[r] < ticket[q] /\ pc[q] = "wait"

\* An isolate lets more than LIMIT requests of an address through under one
\* hour only when one of them was listed a full window after another's key was
\* put, so that the key had lapsed: at most LIMIT in any WINDOW_SECONDS,
\* whatever the interleaving of their list and put calls, an hour that turns
\* over during a call, KV failures, isolates that die and keys that lapse.
IsolateNeverExceedsLimit ==
  \A i \in Isolates, h \in Hours : \A S \in SUBSET Accepted(i, h) :
    Cardinality(S) > Limit =>
      \E r, q \in S : putAt[q] + Window <= listedAt[r]

\* prefixLocks does not leak: an entry of the map belongs to a call that has
\* not left yet, so a bucket nobody uses has no entry.
MapHoldsOnlyPending ==
  \A i \in Isolates, h \in Hours :
    tail[i][h] # NoRequest => tail[i][h] \in Active(i, h)

\* No call is left waiting on a promise that never resolves: it waits for an
\* earlier call of its own chain that has not left yet (so the oldest waits
\* for nobody, and waiting makes no circle), whatever KV rejects.
NobodyStranded ==
  \A r \in Requests :
    pc[r] = "wait" /\ ~Unblocked(r) =>
      /\ prev[r] \in Active(IsolateOf[r], bucket[r])
      /\ ticket[prev[r]] < ticket[r]
=============================================================================
