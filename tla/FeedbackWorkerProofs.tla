------------------------ MODULE FeedbackWorkerProofs ------------------------
(***************************************************************************)
(* Proofs about FeedbackWorker, for every set of requests, keys and        *)
(* attachments.                                                            *)
(***************************************************************************)
EXTENDS FeedbackWorker, TLAPS

USE KeyAssumption, AttachmentAssumption, IssueAssumption

\* What is needed of the three kinds of record, so that their fields can stay
\* out of sight.
LEMMA RecordFacts ==
  /\ Absent \in Records /\ InFlight \in Records
  /\ \A q \in Requests : Done(q) \in Records
  /\ Absent # InFlight
  /\ Absent.status = "absent" /\ InFlight.status = "inflight"
  /\ \A q : Done(q).status = "done" /\ Done(q).issue = q /\ Done(q) # Absent /\ Done(q) # InFlight
  /\ \A q, r : Done(q) = Done(r) => q = r
  /\ \A x \in Records :
       \/ x = Absent \/ x = InFlight
       \/ \E q \in Requests : x = Done(q)
  BY DEF Absent, InFlight, Done, Records

\* A handler works on an attachment only while there is one left.
UploadBound ==
  \A r \in Requests :
    /\ pc[r] \in {"new", "get", "reserve", "limit"} => up[r] = 0
    /\ pc[r] \in {"head", "put"} => up[r] < Len(Attachments[r])

\* One more object noted for r.
LEMMA Noted ==
  ASSUME r2failed \in [Requests -> SUBSET Objects], NEW r \in Requests, NEW o \in Objects,
         r2failed' = [r2failed EXCEPT ![r] = @ \cup {o}]
  PROVE  /\ r2failed' \in [Requests -> SUBSET Objects]
         /\ o \in r2failed'[r]
         /\ \A q \in Requests : r2failed[q] \subseteq r2failed'[q]
<1>1. \A q \in Requests : r2failed'[q] = IF q = r THEN r2failed[q] \cup {o} ELSE r2failed[q]
  OBVIOUS
<1>2. \A q \in Requests : r2failed[q] \subseteq Objects
  OBVIOUS
<1>3. \A q \in Requests : r2failed'[q] \in SUBSET Objects
  BY <1>1, <1>2
<1>4. r2failed' \in [Requests -> SUBSET Objects]
  BY <1>3
<1> QED
  BY <1>1, <1>4

LEMMA CurrentIsObject ==
  ASSUME TypeOK, UploadBound, NEW r \in Requests, pc[r] \in {"head", "put"}
  PROVE  Current(r) \in Objects
<1>1. Attachments[r] \in Seq(Objects) /\ up[r] \in Nat /\ up[r] < Len(Attachments[r])
  BY DEF TypeOK, HandlerTypeOK, UploadBound
<1>2. up[r] + 1 \in 1 .. Len(Attachments[r])
  BY <1>1
<1> QED
  BY <1>1, <1>2 DEF Current

LEMMA TypeInit == Init => TypeOK /\ UploadBound
<1> SUFFICES ASSUME Init PROVE TypeOK /\ UploadBound
  OBVIOUS
<1>1. HandlerTypeOK
  BY DEF Init, HandlerTypeOK, Stages, NoAnswer, Statuses, MaxAttempts
<1>2. StoreTypeOK
  BY RecordFacts DEF Init, StoreTypeOK
<1>3. UploadBound
  BY DEF Init, UploadBound
<1> QED
  BY <1>1, <1>2, <1>3 DEF TypeOK

\* The steps of a handler that actions share.
LEMMA GotoTyped ==
  ASSUME HandlerTypeOK, NEW r \in Requests, NEW s \in Stages, Goto(r, s)
  PROVE  HandlerTypeOK'
  BY DEF HandlerTypeOK, Goto

LEMMA AnswerTyped ==
  ASSUME HandlerTypeOK, NEW r \in Requests, NEW status \in Statuses,
         NEW issue \in Requests \cup {NoIssue}, Answer(r, status, issue)
  PROVE  HandlerTypeOK'
<1>1. pc' \in [Requests -> Stages]
  BY DEF HandlerTypeOK, Answer, Stages
<1>2. answer' \in [Requests -> [status : Statuses, issue : Requests \cup {NoIssue}]]
  BY DEF HandlerTypeOK, Answer
<1> QED
  BY <1>1, <1>2 DEF HandlerTypeOK, Answer

LEMMA FailTyped ==
  ASSUME HandlerTypeOK, NEW r \in Requests, NEW kind \in Faults, Fail(r, kind)
  PROVE  HandlerTypeOK'
<1>1. pc' \in [Requests -> Stages]
  BY DEF HandlerTypeOK, Fail, Stages
<1> QED
  BY <1>1 DEF HandlerTypeOK, Fail

LEMMA UploadedTyped ==
  ASSUME HandlerTypeOK, NEW r \in Requests, NEW isNew \in BOOLEAN,
         Current(r) \in Objects, Uploaded(r, isNew)
  PROVE  HandlerTypeOK'
<1>1. pc' \in [Requests -> Stages]
  BY DEF HandlerTypeOK, Uploaded, Stages, Working
<1> QED
  BY <1>1 DEF HandlerTypeOK, Uploaded

LEMMA BlameTyped ==
  ASSUME StoreTypeOK, NEW r \in Requests, NEW why \in Causes, Blame(r, why)
  PROVE  cause' \in [Keys -> SUBSET Causes]
  BY DEF StoreTypeOK, Blame

\* What the handler steps do to the handler's own variables.
LEMMA HandlerTypeStep ==
  ASSUME TypeOK, UploadBound, NEW r \in Requests, Handle(r)
  PROVE  HandlerTypeOK'
<1> USE DEF TypeOK
<1>a. NoIssue \in Requests \cup {NoIssue} /\ r \in Requests \cup {NoIssue}
  OBVIOUS
<1>b. Statuses = {0, 200, 400, 409, 413, 429, 500, 503, 504}
  BY DEF Statuses
<1>c. {"get", "reserve", "cleanup", "cache", "limit", "head", "put", "token", "labels",
       "fetch", "keep", "create"} \subseteq Stages
  BY DEF Stages, Working
<1>1. CASE Refuse(r)
  <2>1. PICK status \in {400, 413} : Answer(r, status, NoIssue)
    BY <1>1 DEF Refuse
  <2> QED
    BY <2>1, <1>a, <1>b, AnswerTyped
<1>2. CASE Accept(r)
  BY <1>2, <1>c, GotoTyped DEF Accept
<1>3. CASE ReserveGet(r)
  <2>1. CASE idem[KeyOf[r]] = Absent
    BY <1>3, <2>1, <1>c, GotoTyped DEF ReserveGet, ReserveMiss
  <2>2. CASE idem[KeyOf[r]] # Absent
    <3>1. idem[KeyOf[r]].status = "done" => idem[KeyOf[r]].issue \in Requests
      BY RecordFacts DEF StoreTypeOK
    <3>2. \/ /\ idem[KeyOf[r]].status = "done"
             /\ Answer(r, 200, idem[KeyOf[r]].issue)
          \/ Answer(r, 409, NoIssue)
      BY <1>3, <2>2 DEF ReserveGet, ReserveHit
    <3> QED
      BY <3>1, <3>2, <1>a, <1>b, AnswerTyped
  <2> QED
    BY <2>1, <2>2
<1>4. CASE ReserveGetStale(r) \/ ReserveGetThrows(r)
  <2>1. Goto(r, "reserve") \/ Answer(r, 409, NoIssue) \/ Answer(r, 500, NoIssue)
    BY <1>4 DEF ReserveGetStale, ReserveGetThrows
  <2> QED
    BY <2>1, <1>a, <1>b, <1>c, GotoTyped, AnswerTyped
<1>5. CASE ReservePut(r) \/ ReservePutThrows(r)
  <2>1. Goto(r, "limit") \/ Answer(r, 500, NoIssue)
    BY <1>5 DEF ReservePut, ReservePutThrows
  <2> QED
    BY <2>1, <1>a, <1>b, <1>c, GotoTyped, AnswerTyped
<1>6. CASE CheckRateLimit(r)
  <2>1. \/ Goto(r, "token") \/ Goto(r, "head")
        \/ Answer(r, 429, NoIssue) \/ Answer(r, 500, NoIssue)
    BY <1>6 DEF CheckRateLimit
  <2> QED
    BY <2>1, <1>a, <1>b, <1>c, GotoTyped, AnswerTyped
<1>7. CASE UploadHead(r) \/ UploadPut(r)
  <2>1. Current(r) \in Objects
    BY <1>7, CurrentIsObject DEF UploadHead, UploadPut
  <2>2. Uploaded(r, FALSE) \/ Uploaded(r, TRUE) \/ Goto(r, "put")
    BY <1>7 DEF UploadHead, UploadPut
  <2> QED
    BY <2>1, <2>2, <1>c, GotoTyped, UploadedTyped
<1>8. CASE UploadThrows(r) \/ PrepareThrows(r) \/ CreateIssueThrows(r) \/ CreateIssueReplyLost(r)
  <2>1. \E kind \in Faults : Fail(r, kind)
    BY <1>8 DEF UploadThrows, PrepareThrows, CreateIssueThrows, CreateIssueReplyLost, Faults
  <2> QED
    BY <2>1, FailTyped
<1>9. CASE Prepare(r) \/ CreateIssue(r)
  <2>1. \E stage \in {"labels", "create", "fetch", "keep", "cache"} : Goto(r, stage)
    BY <1>9 DEF Prepare, NextGitHubStage, CreateIssue
  <2> QED
    BY <2>1, <1>c, GotoTyped
<1>10. CASE CleanupDelete(r)
  BY <1>10 DEF CleanupDelete, HandlerTypeOK
<1>11. CASE RespondFailure(r)
  <2>1. StatusOf(fault[r]) \in Statuses
    BY DEF StatusOf, Statuses
  <2> QED
    BY <1>11, <2>1, <1>a, AnswerTyped DEF RespondFailure
<1>12. CASE CacheResponse(r)
  BY <1>12, <1>a, <1>b, AnswerTyped DEF CacheResponse
<1>13. CASE CacheResponseThrows(r)
  <2>1. CASE Answer(r, 200, r)
    BY <2>1, <1>a, <1>b, AnswerTyped
  <2>2. CASE ~Answer(r, 200, r)
    BY <1>13, <2>2, SMTT(30) DEF CacheResponseThrows, Retry, HandlerTypeOK, MaxAttempts
  <2> QED
    BY <2>1, <2>2
<1> QED
  BY <1>1, <1>2, <1>3, <1>4, <1>5, <1>6, <1>7, <1>8, <1>9, <1>10, <1>11, <1>12, <1>13
  DEF Handle

\* ... and to the stores.
LEMMA StoreTypeStep ==
  ASSUME TypeOK, UploadBound, NEW r \in Requests, Handle(r) \/ Die(r)
  PROVE  StoreTypeOK'
<1> USE DEF TypeOK
<1>c. Causes = {"race", "stale", "slow", "lost", "uncached", "expired"}
  BY DEF Causes
<1>1. CASE UNCHANGED <<idem, objects, opened, cause, r2failed>>
  BY <1>1 DEF StoreTypeOK
<1>2. CASE ReserveGet(r) \/ ReserveGetStale(r) \/ Die(r)
  <2>1. UNCHANGED <<idem, objects, opened, r2failed>>
    BY <1>2 DEF ReserveGet, ReserveGetStale, Die
  <2>2. UNCHANGED cause \/ Blame(r, "race") \/ Blame(r, "stale") \/ Blame(r, "lost")
    BY <1>2 DEF ReserveGet, ReserveMiss, ReserveHit, ReserveGetStale, Die
  <2> QED
    BY <2>1, <2>2, <1>c, BlameTyped DEF StoreTypeOK
<1>3. CASE ReservePut(r) \/ ReservePutThrows(r)
  BY <1>3, RecordFacts DEF ReservePut, ReservePutThrows, Reservation, StoreTypeOK
<1>4. CASE UploadPut(r) \/ UploadThrows(r)
  <2>1. pc[r] = "put" => Current(r) \in Objects
    BY CurrentIsObject
  <2>2. UNCHANGED <<idem, opened, cause>>
    BY <1>4 DEF UploadPut, UploadThrows
  <2>3. objects' \in SUBSET Objects
    BY <1>4, <2>1 DEF UploadPut, UploadThrows, StoreTypeOK
  <2>4. r2failed' = r2failed \/ (pc[r] = "put" /\ r2failed' = [r2failed EXCEPT ![r] = @ \cup {Current(r)}])
    BY <1>4 DEF UploadPut, UploadThrows
  <2>5. r2failed' \in [Requests -> SUBSET Objects]
    BY <2>1, <2>4, Noted DEF StoreTypeOK
  <2> QED
    BY <2>2, <2>3, <2>5 DEF StoreTypeOK
<1>5. CASE CreateIssue(r)
  BY <1>5 DEF CreateIssue, StoreTypeOK
<1>6. CASE CreateIssueReplyLost(r)
  BY <1>6, <1>c, BlameTyped DEF CreateIssueReplyLost, StoreTypeOK
<1>7. CASE CleanupDelete(r)
  <2>1. PICK o \in toDelete[r] :
          \/ objects' = objects \ {o} /\ UNCHANGED r2failed
          \/ objects' \in {objects, objects \ {o}} /\ r2failed' = [r2failed EXCEPT ![r] = @ \cup {o}]
    BY <1>7 DEF CleanupDelete
  <2>2. o \in Objects
    BY DEF HandlerTypeOK
  <2>3. objects' \in SUBSET Objects
    BY <2>1 DEF StoreTypeOK
  <2>4. r2failed' \in [Requests -> SUBSET Objects]
    BY <2>1, <2>2, Noted DEF StoreTypeOK
  <2> QED
    BY <1>7, <2>3, <2>4 DEF CleanupDelete, StoreTypeOK
<1>8. CASE CacheResponse(r)
  BY <1>8, RecordFacts DEF CacheResponse, keyFor, StoreTypeOK
<1>9. CASE CacheResponseThrows(r)
  <2>1. idem' \in [Keys -> Records]
    BY <1>9, RecordFacts DEF CacheResponseThrows, keyFor, StoreTypeOK
  <2>2. UNCHANGED cause \/ Blame(r, "uncached")
    BY <1>9 DEF CacheResponseThrows, Retry
  <2> QED
    BY <1>9, <2>1, <2>2, <1>c, BlameTyped DEF CacheResponseThrows, StoreTypeOK
<1> QED
  BY <1>1, <1>2, <1>3, <1>4, <1>5, <1>6, <1>7, <1>8, <1>9
  DEF Handle, Refuse, Accept, ReserveGetThrows, CheckRateLimit, UploadHead, Prepare,
      PrepareThrows, CreateIssueThrows, RespondFailure

LEMMA UploadBoundStep ==
  ASSUME TypeOK, UploadBound, NEW r \in Requests, Handle(r) \/ Die(r)
  PROVE  UploadBound'
<1> USE DEF TypeOK, HandlerTypeOK, UploadBound
<1> DEFINE Quiet(s) == pc' = [pc EXCEPT ![r] = s] /\ up' = up
<1>1. ASSUME NEW s \in {"answered", "cleanup", "labels", "create", "fetch", "keep", "cache", "dead"},
             Quiet(s)
      PROVE  UploadBound'
  BY <1>1
<1>2. ASSUME NEW s \in {"get", "reserve", "limit"}, Quiet(s), pc[r] \in {"new", "get", "reserve"}
      PROVE  UploadBound'
  BY <1>2
<1>3. CASE UNCHANGED <<pc, up>>
  BY <1>3
<1>4. CASE CheckRateLimit(r)
  <2>1. CASE Goto(r, IF Attachments[r] = <<>> THEN "token" ELSE "head")
    <3>1. pc[r] = "limit" /\ up[r] = 0
      BY <1>4 DEF CheckRateLimit
    <3>2. Attachments[r] \in Seq(Objects) /\ (Attachments[r] # <<>> => 0 < Len(Attachments[r]))
      OBVIOUS
    <3> QED
      BY <2>1, <3>1, <3>2 DEF Goto
  <2>2. CASE ~Goto(r, IF Attachments[r] = <<>> THEN "token" ELSE "head")
    BY <1>1, <1>4, <2>2 DEF CheckRateLimit, Answer
  <2> QED
    BY <2>1, <2>2
<1>5. CASE UploadHead(r) \/ UploadPut(r)
  BY <1>5 DEF UploadHead, UploadPut, Uploaded, Goto
<1>6. CASE Accept(r) \/ ReserveGet(r) \/ ReserveGetStale(r) \/ ReservePut(r)
  <2>1. Quiet("get") \/ Quiet("reserve") \/ Quiet("limit") \/ Quiet("answered")
    BY <1>6 DEF Accept, ReserveGet, ReserveMiss, ReserveHit, ReserveGetStale, ReservePut,
                Answer, Goto
  <2>2. pc[r] \in {"new", "get", "reserve"}
    BY <1>6 DEF Accept, ReserveGet, ReserveGetStale, ReservePut
  <2> QED
    BY <1>1, <1>2, <2>1, <2>2
<1>7. CASE Refuse(r) \/ ReserveGetThrows(r) \/ ReservePutThrows(r) \/ RespondFailure(r)
           \/ CacheResponse(r) \/ Die(r)
  <2>1. Quiet("answered") \/ Quiet("dead")
    BY <1>7 DEF Refuse, ReserveGetThrows, ReservePutThrows, RespondFailure, CacheResponse, Die,
                Answer, Goto
  <2> QED
    BY <1>1, <2>1
<1>8. CASE UploadThrows(r) \/ PrepareThrows(r) \/ CreateIssueThrows(r) \/ CreateIssueReplyLost(r)
  <2>1. Quiet("cleanup")
    BY <1>8 DEF UploadThrows, PrepareThrows, CreateIssueThrows, CreateIssueReplyLost, Fail
  <2> QED
    BY <1>1, <2>1
<1>9. CASE Prepare(r) \/ CreateIssue(r)
  <2>1. \E s \in {"labels", "create", "fetch", "keep", "cache"} : Quiet(s)
    BY <1>9 DEF Prepare, NextGitHubStage, CreateIssue, Goto
  <2> QED
    BY <1>1, <2>1
<1>10. CASE CleanupDelete(r) \/ CacheResponseThrows(r)
  <2>1. UNCHANGED <<pc, up>> \/ Quiet("answered")
    BY <1>10 DEF CleanupDelete, CacheResponseThrows, Retry, Answer
  <2> QED
    BY <1>1, <1>3, <2>1
<1> QED
  BY <1>4, <1>5, <1>6, <1>7, <1>8, <1>9, <1>10 DEF Handle

LEMMA TypeStep == TypeOK /\ UploadBound /\ [Next]_vars => TypeOK' /\ UploadBound'
<1> SUFFICES ASSUME TypeOK, UploadBound, [Next]_vars
             PROVE  TypeOK' /\ UploadBound'
  OBVIOUS
<1>1. ASSUME NEW r \in Requests, Handle(r) PROVE TypeOK' /\ UploadBound'
  BY <1>1, HandlerTypeStep, StoreTypeStep, UploadBoundStep DEF TypeOK
<1>2. ASSUME NEW r \in Requests, Die(r) PROVE TypeOK' /\ UploadBound'
  <2>1. "dead" \in Stages
    BY DEF Stages
  <2> QED
    BY <1>2, <2>1, GotoTyped, StoreTypeStep, UploadBoundStep DEF TypeOK, Die
<1>3. ASSUME NEW k \in Keys, Expire(k) PROVE TypeOK' /\ UploadBound'
  <2>1. idem' \in [Keys -> Records]
    BY <1>3, RecordFacts DEF Expire, TypeOK, StoreTypeOK
  <2>2. cause' \in [Keys -> SUBSET Causes]
    BY <1>3 DEF Expire, TypeOK, StoreTypeOK, Causes
  <2> QED
    BY <1>3, <2>1, <2>2
    DEF Expire, handlerVars, TypeOK, HandlerTypeOK, StoreTypeOK, UploadBound
<1>4. ASSUME UNCHANGED vars PROVE TypeOK' /\ UploadBound'
  BY <1>4 DEF vars, TypeOK, HandlerTypeOK, StoreTypeOK, UploadBound
<1> QED
  BY <1>1, <1>2, <1>3, <1>4 DEF Next

LEMMA TypeInv == Spec => [](TypeOK /\ UploadBound)
  BY TypeInit, TypeStep, PTL DEF Spec

\* Every reachable state of the Worker is well typed.
THEOREM TypeCorrect == Spec => []TypeOK
  BY TypeInv, PTL
-----------------------------------------------------------------------------
\* Stages in which a handler stands between the get that missed and the end
\* of its work on the record.
Busy == Working \cup {"reserve", "cache"}

\* The key k while nothing has happened to it that explains a duplicate: one
\* busy handler at most, the record tells how far it has come, and an issue
\* is either recorded or about to be.
Orderly(k) ==
  /\ \A q, r \in Requests :
       KeyOf[q] = k /\ KeyOf[r] = k /\ pc[q] \in Busy /\ pc[r] \in Busy => q = r
  /\ \A r \in Requests : KeyOf[r] = k =>
       /\ pc[r] = "reserve" => idem[k] = Absent
       /\ pc[r] \in Working => idem[k] = InFlight
       /\ pc[r] = "cache" => idem[k] \in {InFlight, Done(r)}
  /\ \A q \in IssuesOf(k) : pc[q] = "cache" \/ idem[k] = Done(q)

KeyInv == \A k \in Keys : cause[k] = {} => Orderly(k)

\* Answers, records and issues agree.
AnswerInv ==
  /\ \A r \in Requests : pc[r] # "answered" => answer[r] = NoAnswer
  /\ \A r \in Requests : pc[r] = "cache" => r \in opened
  /\ \A k \in Keys, q \in Requests : idem[k] = Done(q) => q \in opened /\ KeyOf[q] = k
  /\ \A r \in opened :
       pc[r] = "cache" \/ answer[r].status = 200 \/ "lost" \in cause[KeyOf[r]]
  /\ ReplayIsOwn
  /\ SuccessIsReplayable

IdemInv == KeyInv /\ AnswerInv

\* What the invariant says once a handler of k is busy, or the record absent.
LEMMA OrderlyFacts ==
  ASSUME TypeOK, AnswerInv, NEW k \in Keys, Orderly(k)
  PROVE  /\ \A q, r \in IssuesOf(k) : q = r
         /\ \A r \in Requests : KeyOf[r] = k /\ pc[r] \in Working \cup {"reserve"}
              => IssuesOf(k) = {}
         /\ \A r \in Requests : KeyOf[r] = k /\ pc[r] = "cache" => IssuesOf(k) = {r}
         /\ idem[k] = Absent =>
              /\ IssuesOf(k) = {}
              /\ \A r \in Requests : KeyOf[r] = k /\ pc[r] \in Busy => pc[r] = "reserve"
<1>1. \A q \in IssuesOf(k) : q \in Requests /\ KeyOf[q] = k /\ q \in opened
  BY DEF IssuesOf, TypeOK, StoreTypeOK
<1>2. "cache" \in Busy /\ "cache" \notin Working /\ "reserve" \in Busy /\ "reserve" \notin Working
      /\ Working \subseteq Busy
  BY DEF Busy, Working
<1>3. \A r \in Requests : KeyOf[r] = k /\ pc[r] \in Working \cup {"reserve"} => IssuesOf(k) = {}
  BY <1>1, <1>2, RecordFacts DEF Orderly
<1>4. \A r \in Requests : KeyOf[r] = k /\ pc[r] = "cache" => IssuesOf(k) = {r}
  <2> SUFFICES ASSUME NEW r \in Requests, KeyOf[r] = k, pc[r] = "cache"
               PROVE  IssuesOf(k) = {r}
    OBVIOUS
  <2>1. r \in IssuesOf(k)
    BY DEF AnswerInv, IssuesOf
  <2>2. \A q \in IssuesOf(k) : q = r
    BY <1>1, <1>2, RecordFacts DEF Orderly
  <2> QED
    BY <2>1, <2>2
<1>5. \A q, r \in IssuesOf(k) : q = r
  BY <1>1, <1>4, RecordFacts DEF Orderly
<1>6. idem[k] = Absent =>
        /\ IssuesOf(k) = {}
        /\ \A r \in Requests : KeyOf[r] = k /\ pc[r] \in Busy => pc[r] = "reserve"
  <2> SUFFICES ASSUME idem[k] = Absent
               PROVE  /\ IssuesOf(k) = {}
                      /\ \A r \in Requests : KeyOf[r] = k /\ pc[r] \in Busy => pc[r] = "reserve"
    OBVIOUS
  <2>1. \A r \in Requests : KeyOf[r] = k => pc[r] # "cache" /\ pc[r] \notin Working
    BY RecordFacts DEF Orderly
  <2>2. IssuesOf(k) = {}
    BY <1>1, <2>1, RecordFacts DEF Orderly
  <2> QED
    BY <2>1, <2>2 DEF Busy
<1> QED
  BY <1>3, <1>4, <1>5, <1>6

LEMMA IdemInit == Init => IdemInv
  BY RecordFacts DEF Init, IdemInv, KeyInv, Orderly, AnswerInv, ReplayIsOwn, SuccessIsReplayable,
       Busy, Working, IssuesOf, NoAnswer

\* A step of r that neither touches the record or GitHub, nor makes r busy:
\* r moves on at work, or ends without success.
QuietStep(r, s) ==
  /\ pc' = [pc EXCEPT ![r] = s]
  /\ s \in Busy => s \in Working /\ pc[r] \in Working
  /\ pc[r] # "cache" \/ "lost" \in cause'[KeyOf[r]]
  /\ pc[r] # "answered"
  /\ \A k \in Keys : cause[k] \subseteq cause'[k]
  /\ UNCHANGED <<idem, opened>>
  /\ \/ UNCHANGED answer
     \/ /\ s = "answered"
        /\ \E status \in Statuses \ {200} :
             answer' = [answer EXCEPT ![r] = [status |-> status, issue |-> NoIssue]]

LEMMA QuietKeeps ==
  ASSUME TypeOK, IdemInv, NEW r \in Requests, NEW s \in Stages, QuietStep(r, s)
  PROVE  IdemInv'
<1>1. \A q \in Requests : q # r => pc'[q] = pc[q] /\ answer'[q] = answer[q]
  BY DEF QuietStep, TypeOK, HandlerTypeOK
<1>2. pc'[r] = s /\ idem' = idem /\ opened' = opened
      /\ \A k \in Keys : cause[k] \subseteq cause'[k]
  BY DEF QuietStep, TypeOK, HandlerTypeOK
<1>3. /\ answer'[r].status = 200 => answer'[r] = answer[r]
      /\ answer[r].status # 200
      /\ s # "answered" => answer'[r] = NoAnswer
  BY DEF QuietStep, TypeOK, HandlerTypeOK, IdemInv, AnswerInv, NoAnswer
<1>4. "cache" \in Busy /\ "reserve" \in Busy /\ "cache" \notin Working /\ "reserve" \notin Working
      /\ Working \subseteq Busy
  BY DEF Busy, Working
<1>5. KeyInv'
  <2> SUFFICES ASSUME NEW k \in Keys, cause'[k] = {}
               PROVE  Orderly(k)'
    BY DEF KeyInv
  <2>1. cause[k] = {} /\ Orderly(k) /\ IssuesOf(k)' = IssuesOf(k)
    BY <1>2 DEF IdemInv, KeyInv, IssuesOf
  <2>2. KeyOf[r] = k => pc[r] # "cache"
    BY DEF QuietStep
  <2>3. \A q \in Requests : KeyOf[q] = k =>
          /\ pc'[q] \in Busy => pc[q] \in Busy
          /\ pc'[q] = "reserve" => pc[q] = "reserve"
          /\ pc'[q] \in Working => pc[q] \in Working
          /\ pc'[q] = "cache" <=> pc[q] = "cache"
    BY <1>1, <1>2, <1>4, <2>2 DEF QuietStep
  <2>4. \A q \in IssuesOf(k) : q \in Requests /\ KeyOf[q] = k
    BY DEF IssuesOf, TypeOK, StoreTypeOK
  <2> QED
    BY <1>2, <2>1, <2>3, <2>4 DEF Orderly
<1>6. AnswerInv'
  <2> USE DEF IdemInv, AnswerInv, ReplayIsOwn, SuccessIsReplayable, QuietStep
  <2>1. \A q \in Requests : pc'[q] # "answered" => answer'[q] = NoAnswer
    BY <1>1, <1>2, <1>3
  <2>2. \A q \in Requests : pc'[q] = "cache" => q \in opened'
    BY <1>1, <1>2, <1>4
  <2>3. \A k \in Keys, q \in Requests : idem'[k] = Done(q) => q \in opened' /\ KeyOf[q] = k
    BY <1>2
  <2>4. \A q \in opened' :
          pc'[q] = "cache" \/ answer'[q].status = 200 \/ "lost" \in cause'[KeyOf[q]]
    <3> SUFFICES ASSUME NEW q \in opened
                 PROVE  pc'[q] = "cache" \/ answer'[q].status = 200 \/ "lost" \in cause'[KeyOf[q]]
      BY <1>2
    <3>1. q \in Requests
      BY DEF TypeOK, StoreTypeOK
    <3>2. CASE q = r
      BY <1>2, <1>3, <3>2
    <3>3. CASE q # r
      BY <1>1, <1>2, <3>1, <3>3
    <3> QED
      BY <3>2, <3>3
  <2>5. ReplayIsOwn'
    BY <1>1, <1>2, <1>3, SMTT(30)
  <2>6. SuccessIsReplayable'
    <3> SUFFICES ASSUME NEW q \in Requests, answer'[q].status = 200, cause'[KeyOf[q]] = {}
                 PROVE  idem'[KeyOf[q]] = Done(answer'[q].issue)
      OBVIOUS
    <3>1. answer'[q] = answer[q]
      BY <1>1, <1>3
    <3>2. cause[KeyOf[q]] = {}
      <4>1. KeyOf[q] \in Keys
        OBVIOUS
      <4>2. cause[KeyOf[q]] \subseteq cause'[KeyOf[q]]
        BY <1>2, <4>1
      <4> QED
        BY <4>2
    <3> QED
      BY <1>2, <3>1, <3>2, SMTT(30)
  <2> QED
    BY <2>1, <2>2, <2>3, <2>4, <2>5, <2>6
<1> QED
  BY <1>5, <1>6 DEF IdemInv

\* Only r moves, and of the records only the one of r's key may change.
RStep(r) ==
  /\ \A q \in Requests \ {r} : pc'[q] = pc[q] /\ answer'[q] = answer[q]
  /\ \A k \in Keys \ {KeyOf[r]} : idem'[k] = idem[k] /\ cause'[k] = cause[k]
  /\ cause[KeyOf[r]] \subseteq cause'[KeyOf[r]]
  /\ opened' \in {opened, opened \cup {r}}

\* It is enough to look at r's own key ...
LEMMA KeyInvByKey ==
  ASSUME TypeOK, KeyInv, NEW r \in Requests, RStep(r),
         cause'[KeyOf[r]] = {} => Orderly(KeyOf[r])'
  PROVE  KeyInv'
<1> SUFFICES ASSUME NEW k \in Keys, k # KeyOf[r], cause'[k] = {}
             PROVE  Orderly(k)'
  BY DEF KeyInv
<1>1. cause[k] = {} /\ idem'[k] = idem[k]
  BY DEF RStep
<1>2. IssuesOf(k)' = IssuesOf(k)
  BY DEF RStep, IssuesOf
<1>3. \A q \in Requests : KeyOf[q] = k => pc'[q] = pc[q]
  BY DEF RStep
<1>4. \A q \in IssuesOf(k) : q \in Requests /\ KeyOf[q] = k
  BY DEF IssuesOf, TypeOK, StoreTypeOK
<1>5. Orderly(k)
  BY <1>1 DEF KeyInv
<1>6. \A q, p \in Requests :
        KeyOf[q] = k /\ pc'[q] \in Busy /\ KeyOf[p] = k /\ pc'[p] \in Busy => p = q
  BY <1>3, <1>5 DEF Orderly
<1>7. \A q \in Requests : KeyOf[q] = k =>
        /\ pc'[q] = "reserve" => idem'[k] = Absent
        /\ pc'[q] \in Working => idem'[k] = InFlight
        /\ pc'[q] = "cache" => idem'[k] \in {InFlight, Done(q)}
  BY <1>1, <1>3, <1>5 DEF Orderly
<1>8. \A q \in IssuesOf(k) : pc'[q] = "cache" \/ idem'[k] = Done(q)
  BY <1>1, <1>3, <1>4, <1>5 DEF Orderly
<1> QED
  BY <1>2, <1>6, <1>7, <1>8 DEF Orderly

\* ... and at r's own answer, and what the new record says of its key.
LEMMA AnswerInvByKey ==
  ASSUME TypeOK, AnswerInv, NEW r \in Requests, RStep(r),
         pc'[r] # "answered" => answer'[r] = NoAnswer,
         pc'[r] = "cache" => r \in opened',
         r \in opened' =>
           pc'[r] = "cache" \/ answer'[r].status = 200 \/ "lost" \in cause'[KeyOf[r]],
         answer'[r].status = 200 =>
           answer'[r].issue \in opened' /\ KeyOf[answer'[r].issue] = KeyOf[r],
         \A q \in Requests : idem'[KeyOf[r]] = Done(q) => q \in opened' /\ KeyOf[q] = KeyOf[r],
         \A q \in Requests :
           /\ KeyOf[q] = KeyOf[r]
           /\ answer'[q].status = 200
           /\ cause'[KeyOf[r]] = {}
           => idem'[KeyOf[r]] = Done(answer'[q].issue)
  PROVE  AnswerInv'
<1>1. \A q \in Requests : q # r => pc'[q] = pc[q] /\ answer'[q] = answer[q]
  BY DEF RStep
<1>2. opened \subseteq opened' /\ (\A q \in opened' : q = r \/ q \in opened)
      /\ \A q \in opened : q \in Requests
  BY DEF RStep, TypeOK, StoreTypeOK
<1>3. \A k \in Keys : k # KeyOf[r] => idem'[k] = idem[k] /\ cause'[k] = cause[k]
  BY DEF RStep
<1>4. \A q \in Requests : cause[KeyOf[q]] \subseteq cause'[KeyOf[q]]
  BY DEF RStep
<1> USE DEF AnswerInv
<1>5. \A q \in Requests : pc'[q] # "answered" => answer'[q] = NoAnswer
  BY <1>1
<1>6. \A q \in Requests : pc'[q] = "cache" => q \in opened'
  BY <1>1, <1>2
<1>7. \A k \in Keys, q \in Requests : idem'[k] = Done(q) => q \in opened' /\ KeyOf[q] = k
  <2> SUFFICES ASSUME NEW k \in Keys, NEW q \in Requests, idem'[k] = Done(q)
               PROVE  q \in opened' /\ KeyOf[q] = k
    OBVIOUS
  <2>1. CASE k = KeyOf[r]
    BY <2>1
  <2>2. CASE k # KeyOf[r]
    BY <1>2, <1>3, <2>2
  <2> QED
    BY <2>1, <2>2
<1>8. \A q \in opened' :
        pc'[q] = "cache" \/ answer'[q].status = 200 \/ "lost" \in cause'[KeyOf[q]]
  <2> SUFFICES ASSUME NEW q \in opened', q # r
               PROVE  pc'[q] = "cache" \/ answer'[q].status = 200 \/ "lost" \in cause'[KeyOf[q]]
    OBVIOUS
  <2>1. q \in opened /\ q \in Requests
    BY <1>2
  <2>2. pc[q] = "cache" \/ answer[q].status = 200 \/ "lost" \in cause[KeyOf[q]]
    BY <2>1
  <2>3. pc'[q] = pc[q] /\ answer'[q] = answer[q] /\ cause[KeyOf[q]] \subseteq cause'[KeyOf[q]]
    BY <1>1, <1>4, <2>1
  <2> QED
    BY <2>2, <2>3, Zenon
<1>9. ReplayIsOwn'
  <2> SUFFICES ASSUME NEW q \in Requests, q # r, answer'[q].status = 200
               PROVE  answer'[q].issue \in opened' /\ KeyOf[answer'[q].issue] = KeyOf[q]
    BY DEF ReplayIsOwn
  <2> QED
    BY <1>1, <1>2 DEF ReplayIsOwn
<1>10. SuccessIsReplayable'
  <2> SUFFICES ASSUME NEW q \in Requests, answer'[q].status = 200, cause'[KeyOf[q]] = {}
               PROVE  idem'[KeyOf[q]] = Done(answer'[q].issue)
    BY DEF SuccessIsReplayable
  <2>1. CASE KeyOf[q] = KeyOf[r]
    BY <2>1
  <2>2. CASE KeyOf[q] # KeyOf[r]
    <3>1. q # r /\ answer'[q] = answer[q]
      BY <1>1, <2>2
    <3>2. KeyOf[q] \in Keys /\ idem'[KeyOf[q]] = idem[KeyOf[q]] /\ cause[KeyOf[q]] = {}
      BY <1>3, <2>2
    <3> QED
      BY <3>1, <3>2 DEF SuccessIsReplayable
  <2> QED
    BY <2>1, <2>2
<1> QED
  BY <1>5, <1>6, <1>7, <1>8, <1>9, <1>10

\* reserveResponse replays the record it read.
LEMMA ReplayKeeps ==
  ASSUME TypeOK, IdemInv, NEW r \in Requests, pc[r] = "get",
         idem[KeyOf[r]].status = "done",
         Answer(r, 200, idem[KeyOf[r]].issue), UNCHANGED <<idem, opened, cause>>
  PROVE  IdemInv'
<1> DEFINE k == KeyOf[r]
<1>1. PICK q \in Requests : idem[k] = Done(q) /\ idem[k].issue = q
  BY RecordFacts DEF TypeOK, StoreTypeOK
<1>2. RStep(r) /\ pc'[r] = "answered" /\ answer'[r] = [status |-> 200, issue |-> q]
  BY <1>1 DEF RStep, Answer, TypeOK, HandlerTypeOK
<1>3. "get" \notin Busy /\ "answered" \notin Busy /\ {"reserve", "cache"} \cup Working \subseteq Busy
  BY DEF Busy, Working
<1>4. cause'[k] = {} => Orderly(k)'
  <2> SUFFICES ASSUME cause'[k] = {} PROVE Orderly(k)'
    OBVIOUS
  <2>1. Orderly(k) /\ IssuesOf(k)' = IssuesOf(k)
    BY DEF IdemInv, KeyInv, IssuesOf
  <2>2. \A p \in Requests : pc'[p] \in Busy => pc'[p] = pc[p]
    BY <1>2, <1>3 DEF RStep
  <2>3. \A p \in IssuesOf(k) : p \in Requests /\ p \in opened
    BY DEF IssuesOf, TypeOK, StoreTypeOK
  <2>4. \A p \in Requests : pc[p] = "cache" => pc'[p] = "cache"
    BY <1>2 DEF RStep
  <2> QED
    BY <1>3, <2>1, <2>2, <2>3, <2>4 DEF Orderly
<1>5. q \in opened /\ KeyOf[q] = k
  BY <1>1 DEF IdemInv, AnswerInv
<1>6. AnswerInv'
  <2>1. ASSUME NEW p \in Requests, KeyOf[p] = k, answer'[p].status = 200, cause'[k] = {}
        PROVE  idem'[k] = Done(answer'[p].issue)
    <3>1. CASE p = r
      BY <1>1, <1>2, <3>1
    <3>2. CASE p # r
      <4>1. answer'[p] = answer[p] /\ cause[k] = {}
        BY <1>2, <2>1, <3>2 DEF RStep
      <4> QED
        BY <2>1, <4>1 DEF IdemInv, AnswerInv, SuccessIsReplayable
    <3> QED
      BY <3>1, <3>2
  <2>2. \A p \in Requests : idem'[k] = Done(p) => p \in opened' /\ KeyOf[p] = k
    BY DEF IdemInv, AnswerInv
  <2> QED
    BY <1>2, <1>5, <2>1, <2>2, AnswerInvByKey, SMTT(30) DEF IdemInv
<1> QED
  BY <1>2, <1>4, <1>6, KeyInvByKey DEF IdemInv

\* A get that missed: r joins, and if no rival was about to reserve then r is
\* the only busy handler and the key has no issue.
LEMMA MissKeeps ==
  ASSUME TypeOK, IdemInv, NEW r \in Requests, pc[r] = "get",
         Goto(r, "reserve"), UNCHANGED <<idem, opened>>,
         \/ cause'[KeyOf[r]] # {}
         \/ /\ idem[KeyOf[r]] = Absent
            /\ \A q \in Rivals(r) : pc[q] # "reserve"
            /\ UNCHANGED cause,
         UNCHANGED cause \/ \E why \in Causes : Blame(r, why)
  PROVE  IdemInv'
<1> DEFINE k == KeyOf[r]
<1>1. RStep(r) /\ pc'[r] = "reserve" /\ answer'[r] = answer[r]
  BY DEF RStep, Goto, Blame, TypeOK, HandlerTypeOK, StoreTypeOK
<1>2. answer[r] = NoAnswer /\ NoAnswer.status # 200 /\ NoAnswer.status = 0
  BY DEF IdemInv, AnswerInv, NoAnswer
<1>3. cause'[k] = {} => Orderly(k)'
  <2> SUFFICES ASSUME cause'[k] = {} PROVE Orderly(k)'
    OBVIOUS
  <2>1. /\ Orderly(k) /\ idem[k] = Absent /\ IssuesOf(k)' = IssuesOf(k)
        /\ \A q \in Rivals(r) : pc[q] # "reserve"
    BY DEF IdemInv, KeyInv, IssuesOf
  <2>2. IssuesOf(k) = {} /\ \A q \in Requests \ {r} : KeyOf[q] = k => pc'[q] \notin Busy
    BY <1>1, <2>1, OrderlyFacts DEF RStep, Rivals, IdemInv
  <2>3. {"reserve", "cache"} \cup Working \subseteq Busy /\ {"reserve", "cache"} \cap Working = {}
    BY DEF Busy, Working
  <2> QED
    BY <1>1, <2>1, <2>2, <2>3 DEF Orderly
<1>4. AnswerInv'
  <2>1. r \in opened => "lost" \in cause'[KeyOf[r]]
    BY <1>1, <1>2 DEF IdemInv, AnswerInv, RStep
  <2>2. \A q \in Requests : idem'[k] = Done(q) => q \in opened' /\ KeyOf[q] = k
    BY DEF IdemInv, AnswerInv
  <2>3. ASSUME NEW q \in Requests, KeyOf[q] = k, answer'[q].status = 200, cause'[k] = {}
        PROVE  idem'[k] = Done(answer'[q].issue)
    <3>1. q # r /\ answer'[q] = answer[q] /\ cause[k] = {}
      BY <1>1, <1>2, <2>3 DEF RStep
    <3> QED
      BY <2>3, <3>1 DEF IdemInv, AnswerInv, SuccessIsReplayable
  <2> QED
    BY <1>1, <1>2, <2>1, <2>2, <2>3, AnswerInvByKey, SMTT(30) DEF IdemInv
<1> QED
  BY <1>1, <1>3, <1>4, KeyInvByKey DEF IdemInv

\* A reservation lands: on an absent record, unless there is a cause.
LEMMA ReserveKeeps ==
  ASSUME TypeOK, IdemInv, NEW r \in Requests, pc[r] = "reserve",
         idem' = [idem EXCEPT ![KeyOf[r]] = InFlight],
         Goto(r, "limit") \/ Answer(r, 500, NoIssue),
         UNCHANGED <<opened, cause>>
  PROVE  IdemInv'
<1> DEFINE k == KeyOf[r]
<1>1. /\ RStep(r) /\ idem'[k] = InFlight
      /\ \/ pc'[r] = "limit" /\ answer'[r] = answer[r]
         \/ pc'[r] = "answered" /\ answer'[r] = [status |-> 500, issue |-> NoIssue]
  BY DEF RStep, Goto, Answer, TypeOK, HandlerTypeOK, StoreTypeOK
<1>2. answer[r] = NoAnswer /\ NoAnswer.status = 0
  BY DEF IdemInv, AnswerInv, NoAnswer
<1>3. /\ {"reserve", "cache"} \cup Working \subseteq Busy /\ {"reserve", "cache"} \cap Working = {}
      /\ "limit" \in Working /\ "answered" \notin Busy
  BY DEF Busy, Working
<1>4. cause[k] = {} => Orderly(k) /\ idem[k] = Absent /\ IssuesOf(k) = {}
  BY <1>3, OrderlyFacts DEF IdemInv, KeyInv, Orderly
<1>5. cause'[k] = {} => Orderly(k)'
  <2> SUFFICES ASSUME cause'[k] = {} PROVE Orderly(k)'
    OBVIOUS
  <2>1. Orderly(k) /\ IssuesOf(k)' = {}
    BY <1>4 DEF IssuesOf
  <2>2. \A q \in Requests \ {r} : KeyOf[q] = k => pc'[q] \notin Busy
    <3>1. \A q \in Requests \ {r} : KeyOf[q] = k => pc[q] # "cache" /\ pc[q] \notin Working
      BY <1>4, RecordFacts DEF Orderly
    <3>2. \A q \in Requests \ {r} : KeyOf[q] = k => pc[q] # "reserve"
      BY <1>3, <2>1 DEF Orderly
    <3> QED
      BY <1>1, <3>1, <3>2, SMTT(30) DEF Busy, RStep
  <2> QED
    BY <1>1, <1>3, <2>1, <2>2 DEF Orderly
<1>6. AnswerInv'
  <2>1. r \in opened => "lost" \in cause'[KeyOf[r]]
    BY <1>2 DEF IdemInv, AnswerInv
  <2>2. \A q \in Requests : idem'[k] # Done(q)
    BY <1>1, RecordFacts
  <2>3. ASSUME NEW q \in Requests, KeyOf[q] = k, answer'[q].status = 200, cause'[k] = {}
        PROVE  FALSE
    <3>1. answer'[q] = answer[q]
      BY <1>1, <2>3 DEF RStep
    <3>2. idem[k] = Done(answer[q].issue)
      BY <2>3, <3>1 DEF IdemInv, AnswerInv, SuccessIsReplayable
    <3> QED
      BY <1>4, <2>3, <3>2, RecordFacts
  <2> QED
    BY <1>1, <1>2, <2>1, <2>2, <2>3, AnswerInvByKey, SMTT(30) DEF IdemInv
<1> QED
  BY <1>1, <1>5, <1>6, KeyInvByKey DEF IdemInv

\* GitHub performs createIssue, and the handler learns of it or not.
LEMMA OpenKeeps ==
  ASSUME TypeOK, IdemInv, NEW r \in Requests, pc[r] = "create",
         opened' = opened \cup {r}, UNCHANGED idem, UNCHANGED answer,
         \/ pc' = [pc EXCEPT ![r] = "cache"] /\ UNCHANGED cause
         \/ pc' = [pc EXCEPT ![r] = "cleanup"] /\ Blame(r, "lost")
  PROVE  IdemInv'
<1> DEFINE k == KeyOf[r]
<1>1. /\ RStep(r) /\ idem'[k] = idem[k]
      /\ \/ pc'[r] = "cache" /\ cause'[k] = cause[k]
         \/ pc'[r] = "cleanup" /\ "lost" \in cause'[k]
  BY DEF RStep, Blame, TypeOK, HandlerTypeOK, StoreTypeOK
<1>2. answer[r] = NoAnswer /\ NoAnswer.status = 0
  BY DEF IdemInv, AnswerInv, NoAnswer
<1>3. /\ {"reserve", "cache"} \cup Working \subseteq Busy /\ {"reserve", "cache"} \cap Working = {}
      /\ "create" \in Working
  BY DEF Busy, Working
<1>4. cause'[k] = {} => Orderly(k)'
  <2> SUFFICES ASSUME cause'[k] = {} PROVE Orderly(k)'
    OBVIOUS
  <2>1. cause[k] = {} /\ pc'[r] = "cache"
    BY <1>1
  <2>2. Orderly(k) /\ idem[k] = InFlight /\ IssuesOf(k) = {}
    BY <1>3, <2>1, OrderlyFacts DEF IdemInv, KeyInv, Orderly
  <2>3. \A q \in IssuesOf(k)' : q = r
    BY <2>2 DEF IssuesOf
  <2>4. \A q \in Requests \ {r} : KeyOf[q] = k => pc'[q] \notin Busy
    BY <1>1, <1>3, <2>2 DEF Orderly, RStep
  <2> QED
    BY <1>1, <1>3, <2>1, <2>2, <2>3, <2>4 DEF Orderly
<1>5. AnswerInv'
  <2>1. \A q \in Requests : idem'[k] = Done(q) => q \in opened' /\ KeyOf[q] = k
    BY DEF IdemInv, AnswerInv
  <2>2. ASSUME NEW q \in Requests, KeyOf[q] = k, answer'[q].status = 200, cause'[k] = {}
        PROVE  idem'[k] = Done(answer'[q].issue)
    <3>1. answer'[q] = answer[q] /\ cause[k] = {}
      BY <1>1, <2>2 DEF RStep
    <3>2. SuccessIsReplayable
      BY DEF IdemInv, AnswerInv
    <3>3. idem[k] = Done(answer[q].issue)
      <4>1. answer[q].status = 200 /\ cause[KeyOf[q]] = {}
        BY <2>2, <3>1
      <4>2. idem[KeyOf[q]] = Done(answer[q].issue)
        BY <3>2, <4>1, Zenon DEF SuccessIsReplayable
      <4> QED
        BY <2>2, <4>2
    <3> QED
      BY <3>1, <3>3
  <2> QED
    BY <1>1, <1>2, <2>1, <2>2, AnswerInvByKey, SMTT(30) DEF IdemInv
<1> QED
  BY <1>1, <1>4, <1>5, KeyInvByKey DEF IdemInv

\* cacheResponse: recorded and answered; or an attempt failed.
LEMMA CacheKeeps ==
  ASSUME TypeOK, IdemInv, NEW r \in Requests, pc[r] = "cache",
         UNCHANGED opened,
         \/ /\ idem' = [idem EXCEPT ![KeyOf[r]] = Done(r)]
            /\ Answer(r, 200, r) /\ UNCHANGED cause
         \/ /\ idem' \in {idem, [idem EXCEPT ![KeyOf[r]] = Done(r)]}
            /\ \/ UNCHANGED <<pc, answer, cause>>
               \/ Answer(r, 200, r) /\ Blame(r, "uncached")
  PROVE  IdemInv'
<1> DEFINE k == KeyOf[r]
<1>1. /\ RStep(r) /\ idem'[k] \in {idem[k], Done(r)}
      /\ \/ idem'[k] = Done(r) /\ pc'[r] = "answered" /\ cause'[k] = cause[k]
         \/ pc'[r] = "cache" /\ answer'[r] = answer[r] /\ cause'[k] = cause[k]
         \/ pc'[r] = "answered" /\ cause'[k] # {}
      /\ pc'[r] = "answered" => answer'[r] = [status |-> 200, issue |-> r]
  <2>1. k \in Keys /\ idem \in [Keys -> Records] /\ cause \in [Keys -> SUBSET Causes]
        /\ pc \in [Requests -> Stages] /\ DOMAIN answer = Requests
    BY DEF TypeOK, HandlerTypeOK, StoreTypeOK
  <2>2. CASE /\ idem' = [idem EXCEPT ![k] = Done(r)]
             /\ Answer(r, 200, r) /\ UNCHANGED cause
    BY <2>1, <2>2 DEF RStep, Answer
  <2>3. CASE /\ idem' \in {idem, [idem EXCEPT ![k] = Done(r)]}
             /\ UNCHANGED <<pc, answer, cause>>
    BY <2>1, <2>3 DEF RStep
  <2>4. CASE /\ idem' \in {idem, [idem EXCEPT ![k] = Done(r)]}
             /\ Answer(r, 200, r) /\ Blame(r, "uncached")
    BY <2>1, <2>4 DEF RStep, Answer, Blame
  <2> QED
    BY <2>2, <2>3, <2>4
<1>2. answer[r] = NoAnswer /\ NoAnswer.status = 0 /\ r \in opened
  BY DEF IdemInv, AnswerInv, NoAnswer
<1>3. /\ {"reserve", "cache"} \cup Working \subseteq Busy /\ {"reserve", "cache"} \cap Working = {}
      /\ "answered" \notin Busy
  BY DEF Busy, Working
<1>4. cause[k] = {} => /\ Orderly(k) /\ idem[k] \in {InFlight, Done(r)} /\ IssuesOf(k) = {r}
                       /\ \A q \in Requests \ {r} : KeyOf[q] = k => pc[q] \notin Busy
  BY <1>3, OrderlyFacts DEF IdemInv, KeyInv, Orderly
<1>5. cause'[k] = {} => Orderly(k)'
  <2> SUFFICES ASSUME cause'[k] = {} PROVE Orderly(k)'
    OBVIOUS
  <2>1. cause[k] = {} /\ IssuesOf(k)' = IssuesOf(k)
    BY <1>1 DEF RStep, IssuesOf
  <2>2. \A q \in Requests \ {r} : KeyOf[q] = k => pc'[q] \notin Busy
    BY <1>1, <1>4, <2>1 DEF RStep
  <2>3. pc'[r] = "cache" \/ idem'[k] = Done(r)
    BY <1>1
  <2> QED
    BY <1>1, <1>3, <1>4, <2>1, <2>2, <2>3 DEF Orderly
<1>6. AnswerInv'
  <2>1. \A q \in Requests : idem'[k] = Done(q) => q \in opened' /\ KeyOf[q] = k
    BY <1>1, <1>2, RecordFacts DEF IdemInv, AnswerInv
  <2>2. ASSUME NEW q \in Requests, KeyOf[q] = k, answer'[q].status = 200, cause'[k] = {}
        PROVE  idem'[k] = Done(answer'[q].issue)
    <3>1. cause[k] = {}
      BY <1>1, <2>2 DEF RStep
    <3>2. CASE q = r
      BY <1>1, <1>2, <2>2, <3>2
    <3>3. CASE q # r
      <4>1. answer'[q] = answer[q]
        BY <1>1, <3>3 DEF RStep
      <4>2. idem[k] = Done(answer[q].issue)
        BY <2>2, <3>1, <4>1 DEF IdemInv, AnswerInv, SuccessIsReplayable
      <4>3. answer[q].issue = r
        BY <1>4, <3>1, <4>2, RecordFacts
      <4> QED
        BY <1>1, <4>1, <4>2, <4>3
    <3> QED
      BY <3>2, <3>3
  <2>3. opened' = opened /\ (pc'[r] = "cache" \/ answer'[r].status = 200)
    BY <1>1
  <2>4. pc'[r] # "answered" => answer'[r] = NoAnswer
    BY <1>1, <1>2
  <2>5. answer'[r].status = 200 => answer'[r].issue \in opened' /\ KeyOf[answer'[r].issue] = k
    BY <1>1, <1>2
  <2> QED
    BY <1>1, <1>2, <2>1, <2>2, <2>3, <2>4, <2>5, AnswerInvByKey, SMTT(30) DEF IdemInv
<1> QED
  BY <1>1, <1>5, <1>6, KeyInvByKey DEF IdemInv

\* A record lapses: harmless only for a reservation nobody works under.
LEMMA ExpireKeeps ==
  ASSUME TypeOK, IdemInv, NEW k \in Keys, Expire(k)
  PROVE  IdemInv'
<1>1. /\ UNCHANGED <<pc, answer, opened>>
      /\ idem'[k] = Absent /\ \A j \in Keys \ {k} : idem'[j] = idem[j] /\ cause'[j] = cause[j]
      /\ cause[k] \subseteq cause'[k]
      /\ idem[k].status = "done" => "expired" \in cause'[k]
      /\ (\E r \in Requests : KeyOf[r] = k /\ pc[r] \in Working \cup {"cache"})
           => "slow" \in cause'[k]
  BY DEF Expire, handlerVars, TypeOK, StoreTypeOK
<1>2. /\ {"reserve", "cache"} \cup Working \subseteq Busy /\ {"reserve", "cache"} \cap Working = {}
      /\ Busy = {"reserve"} \cup Working \cup {"cache"}
  BY DEF Busy, Working
<1>3. KeyInv'
  <2> SUFFICES ASSUME NEW j \in Keys, cause'[j] = {} PROVE Orderly(j)'
    BY DEF KeyInv
  <2>1. cause[j] = {} /\ Orderly(j) /\ IssuesOf(j)' = IssuesOf(j)
    BY <1>1 DEF IdemInv, KeyInv, IssuesOf
  <2>2. CASE j # k
    BY <1>1, <2>1, <2>2 DEF Orderly
  <2>3. CASE j = k
    <3>1. idem[k].status # "done" /\ \A r \in Requests : KeyOf[r] = k => pc[r] \notin Working \cup {"cache"}
      BY <1>1, <2>3
    <3>2. IssuesOf(k) = {}
      <4>1. \A q \in IssuesOf(k) : q \in Requests /\ KeyOf[q] = k
        BY DEF IssuesOf, TypeOK, StoreTypeOK
      <4> QED
        BY <2>1, <2>3, <3>1, <4>1, RecordFacts DEF Orderly
    <3> QED
      BY <1>1, <1>2, <2>1, <2>3, <3>1, <3>2 DEF Orderly
  <2> QED
    BY <2>2, <2>3
<1>4. AnswerInv'
  <2> USE DEF IdemInv, AnswerInv
  <2>1. \A j \in Keys, q \in Requests : idem'[j] = Done(q) => q \in opened' /\ KeyOf[q] = j
    BY <1>1, RecordFacts
  <2>2. \A r \in opened' :
          pc'[r] = "cache" \/ answer'[r].status = 200 \/ "lost" \in cause'[KeyOf[r]]
    <3> SUFFICES ASSUME NEW r \in opened
                 PROVE  pc[r] = "cache" \/ answer[r].status = 200 \/ "lost" \in cause'[KeyOf[r]]
      BY <1>1
    <3>1. KeyOf[r] \in Keys
      BY DEF TypeOK, StoreTypeOK
    <3> QED
      BY <1>1, <3>1
  <2>3. ReplayIsOwn'
    BY <1>1 DEF ReplayIsOwn
  <2>4. SuccessIsReplayable'
    <3> SUFFICES ASSUME NEW r \in Requests, answer[r].status = 200, cause'[KeyOf[r]] = {}
                 PROVE  idem'[KeyOf[r]] = Done(answer[r].issue)
      BY <1>1 DEF SuccessIsReplayable
    <3>1. KeyOf[r] \in Keys /\ cause[KeyOf[r]] = {}
      BY <1>1
    <3>2. idem[KeyOf[r]] = Done(answer[r].issue)
      BY <3>1 DEF SuccessIsReplayable
    <3>3. KeyOf[r] # k
      BY <1>1, <3>2, RecordFacts
    <3> QED
      BY <1>1, <3>1, <3>2, <3>3
  <2> QED
    BY <1>1, <2>1, <2>2, <2>3, <2>4
<1> QED
  BY <1>3, <1>4 DEF IdemInv

\* Steps on the way to the answer that are quiet.
LEMMA GotoIsQuiet ==
  ASSUME TypeOK, NEW r \in Requests, NEW s \in Stages, Goto(r, s),
         s \in Busy => s \in Working /\ pc[r] \in Working,
         pc[r] \notin {"cache", "answered"}, UNCHANGED <<idem, opened, cause>>
  PROVE  QuietStep(r, s)
<1>1. pc[r] # "cache" /\ \A k \in Keys : cause[k] \subseteq cause'[k]
  OBVIOUS
<1> QED
  BY <1>1 DEF QuietStep, Goto

LEMMA AnswerIsQuiet ==
  ASSUME TypeOK, NEW r \in Requests, NEW status \in Statuses \ {200},
         Answer(r, status, NoIssue),
         pc[r] \notin {"cache", "answered"}, UNCHANGED <<idem, opened, cause>>
  PROVE  QuietStep(r, "answered")
<1>1. "answered" \notin Busy
  BY DEF Busy, Working
<1>2. \A k \in Keys : cause[k] \subseteq cause'[k]
  OBVIOUS
<1> QED
  BY <1>1, <1>2 DEF QuietStep, Answer

LEMMA FailIsQuiet ==
  ASSUME TypeOK, NEW r \in Requests, NEW kind \in Faults, Fail(r, kind),
         pc[r] \notin {"cache", "answered"}, UNCHANGED <<idem, opened, cause>>
  PROVE  QuietStep(r, "cleanup")
<1>1. "cleanup" \notin Busy
  BY DEF Busy, Working
<1>2. \A k \in Keys : cause[k] \subseteq cause'[k]
  OBVIOUS
<1> QED
  BY <1>1, <1>2 DEF QuietStep, Fail

LEMMA StageFacts ==
  /\ Working \subseteq Stages /\ Working \subseteq Busy
  /\ {"get", "dead", "answered", "cleanup", "reserve"} \subseteq Stages
  /\ \A s \in {"new", "get", "dead", "answered", "cleanup"} : s \notin Busy
  /\ \A s \in {"reserve", "cache", "answered"} : s \notin Working
  /\ {"limit", "head", "put", "token", "labels", "fetch", "keep", "create"} = Working
  /\ {400, 409, 413, 429, 500} \subseteq Statuses \ {200}
  /\ \A kind \in Faults \cup {"none"} : StatusOf(kind) \in Statuses \ {200}
  BY DEF Working, Stages, Busy, Statuses, Faults, StatusOf

\* Before the handler's work: what the client sent, and the record it finds.
LEMMA EntrySteps ==
  ASSUME TypeOK, IdemInv, NEW r \in Requests,
         \/ Refuse(r) \/ Accept(r)
         \/ ReserveGet(r) \/ ReserveGetStale(r) \/ ReserveGetThrows(r)
         \/ ReservePut(r) \/ ReservePutThrows(r)
  PROVE  IdemInv'
<1>1. CASE Refuse(r)
  <2>1. PICK status \in {400, 413} : Answer(r, status, NoIssue)
    BY <1>1 DEF Refuse
  <2>2. status \in Statuses \ {200}
    BY <2>1, StageFacts
  <2>3. QuietStep(r, "answered")
    BY <1>1, <2>1, <2>2, AnswerIsQuiet DEF Refuse
  <2> QED
    BY <2>3, QuietKeeps, StageFacts
<1>2. CASE Accept(r)
  <2>1. QuietStep(r, "get")
    BY <1>2, GotoIsQuiet, StageFacts DEF Accept
  <2> QED
    BY <2>1, QuietKeeps, StageFacts
<1>3. ASSUME NEW seen \in Records, ReserveHit(r, seen), pc[r] = "get",
             seen.status = "done" => seen = idem[KeyOf[r]],
             UNCHANGED <<idem, opened>>
      PROVE  IdemInv'
  <2>1. CASE seen.status = "done"
    <3>1. idem[KeyOf[r]].status = "done" /\ Answer(r, 200, idem[KeyOf[r]].issue)
          /\ UNCHANGED cause
      BY <1>3, <2>1 DEF ReserveHit
    <3> QED
      BY <1>3, <3>1, ReplayKeeps
  <2>2. CASE seen.status # "done"
    <3>1. Answer(r, 409, NoIssue) /\ UNCHANGED cause
      BY <1>3, <2>2 DEF ReserveHit
    <3>2. QuietStep(r, "answered")
      BY <1>3, <3>1, StageFacts, AnswerIsQuiet
    <3> QED
      BY <3>2, QuietKeeps, StageFacts
  <2> QED
    BY <2>1, <2>2
<1>4. CASE ReserveGet(r)
  <2>1. CASE idem[KeyOf[r]] = Absent
    <3>1. /\ pc[r] = "get" /\ Goto(r, "reserve") /\ UNCHANGED <<idem, opened>>
          /\ IF \E q \in Rivals(r) : pc[q] = "reserve" THEN Blame(r, "race") ELSE UNCHANGED cause
      BY <1>4, <2>1 DEF ReserveGet, ReserveMiss
    <3>2. CASE \E q \in Rivals(r) : pc[q] = "reserve"
      <4>1. "race" \in Causes /\ Blame(r, "race")
        BY <3>1, <3>2 DEF Causes
      <4>2. "race" \in cause'[KeyOf[r]]
        BY <4>1 DEF Blame, TypeOK, StoreTypeOK
      <4>3. cause'[KeyOf[r]] # {}
        BY <4>2
      <4> QED
        BY <3>1, <4>1, <4>3, MissKeeps
    <3>3. CASE \A q \in Rivals(r) : pc[q] # "reserve"
      BY <2>1, <3>1, <3>3, MissKeeps
    <3> QED
      BY <3>2, <3>3
  <2>2. CASE idem[KeyOf[r]] # Absent
    <3>1. idem[KeyOf[r]] \in Records
      BY DEF TypeOK, StoreTypeOK
    <3> QED
      BY <1>3, <1>4, <2>2, <3>1 DEF ReserveGet
  <2> QED
    BY <2>1, <2>2
<1>5. CASE ReserveGetStale(r)
  <2>1. CASE Goto(r, "reserve") /\ Blame(r, "stale")
    <3>1. "stale" \in Causes /\ cause'[KeyOf[r]] # {}
      BY <2>1 DEF Causes, Blame, TypeOK, StoreTypeOK
    <3> QED
      BY <1>5, <2>1, <3>1, MissKeeps DEF ReserveGetStale
  <2>2. CASE Answer(r, 409, NoIssue) /\ UNCHANGED cause
    <3>1. QuietStep(r, "answered")
      BY <1>5, <2>2, StageFacts, AnswerIsQuiet DEF ReserveGetStale
    <3> QED
      BY <3>1, QuietKeeps, StageFacts
  <2> QED
    BY <1>5, <2>1, <2>2 DEF ReserveGetStale
<1>6. CASE ReserveGetThrows(r)
  <2>1. QuietStep(r, "answered")
    BY <1>6, StageFacts, AnswerIsQuiet DEF ReserveGetThrows
  <2> QED
    BY <2>1, QuietKeeps, StageFacts
<1>7. CASE ReservePut(r)
  BY <1>7, ReserveKeeps DEF ReservePut, Reservation
<1>8. CASE ReservePutThrows(r)
  <2>1. CASE idem' = idem
    <3>1. QuietStep(r, "answered")
      BY <1>8, <2>1, StageFacts, AnswerIsQuiet DEF ReservePutThrows
    <3> QED
      BY <3>1, QuietKeeps, StageFacts
  <2>2. CASE idem' = [idem EXCEPT ![KeyOf[r]] = InFlight]
    BY <1>8, <2>2, ReserveKeeps DEF ReservePutThrows
  <2> QED
    BY <1>8, <2>1, <2>2 DEF ReservePutThrows, Reservation
<1> QED
  BY <1>1, <1>2, <1>4, <1>5, <1>6, <1>7, <1>8

\* The work under the reservation, up to createIssue.
LEMMA WorkSteps ==
  ASSUME TypeOK, IdemInv, NEW r \in Requests,
         \/ CheckRateLimit(r)
         \/ UploadHead(r) \/ UploadPut(r) \/ UploadThrows(r)
         \/ Prepare(r) \/ PrepareThrows(r) \/ CreateIssueThrows(r)
  PROVE  IdemInv'
<1>1. pc[r] \in Working /\ pc[r] \notin {"cache", "answered"} /\ UNCHANGED <<idem, opened, cause>>
  <2>1. pc[r] \in {"limit", "head", "put", "token", "labels", "fetch", "keep", "create"}
    BY DEF CheckRateLimit, UploadHead, UploadPut, UploadThrows, Prepare, PrepareThrows,
           CreateIssueThrows, NextGitHubStage
  <2>2. UNCHANGED <<idem, opened, cause>>
    BY Zenon DEF CheckRateLimit, UploadHead, UploadPut, UploadThrows, Prepare, PrepareThrows,
           CreateIssueThrows
  <2> QED
    BY <2>1, <2>2 DEF Working
<1>2. ASSUME NEW s \in Working, Goto(r, s)
      PROVE  IdemInv'
  <2>1. s \in Stages /\ QuietStep(r, s)
    BY <1>1, <1>2, GotoIsQuiet, StageFacts
  <2> QED
    BY <2>1, QuietKeeps
<1>3. ASSUME NEW kind \in Faults, Fail(r, kind)
      PROVE  IdemInv'
  <2>1. QuietStep(r, "cleanup")
    BY <1>1, <1>3, FailIsQuiet
  <2> QED
    BY <2>1, QuietKeeps, StageFacts
<1>4. ASSUME NEW isNew \in BOOLEAN, Uploaded(r, isNew)
      PROVE  IdemInv'
  <2>1. PICK s \in {"head", "token"} : pc' = [pc EXCEPT ![r] = s]
    BY <1>4 DEF Uploaded
  <2>2. s \in Working /\ s \in Stages
    BY StageFacts
  <2>3. UNCHANGED answer /\ \A k \in Keys : cause[k] \subseteq cause'[k]
    BY <1>1, <1>4 DEF Uploaded
  <2>4. QuietStep(r, s)
    BY <1>1, <2>1, <2>2, <2>3 DEF QuietStep
  <2> QED
    BY <2>2, <2>4, QuietKeeps
<1>5. CASE CheckRateLimit(r)
  <2>1. CASE Goto(r, IF Attachments[r] = <<>> THEN "token" ELSE "head")
    <3>1. (IF Attachments[r] = <<>> THEN "token" ELSE "head") \in Working
      BY StageFacts
    <3> QED
      BY <1>2, <2>1, <3>1
  <2>2. CASE \E status \in {429, 500} : Answer(r, status, NoIssue)
    <3>1. PICK status \in {429, 500} : Answer(r, status, NoIssue)
      BY <2>2
    <3>2. QuietStep(r, "answered")
      BY <1>1, <3>1, StageFacts, AnswerIsQuiet
    <3> QED
      BY <3>2, QuietKeeps, StageFacts
  <2> QED
    BY <1>5, <2>1, <2>2 DEF CheckRateLimit
<1>6. CASE UploadHead(r)
  <2>1. CASE Uploaded(r, FALSE)
    BY <1>4, <2>1
  <2>2. CASE Goto(r, "put")
    BY <1>2, <2>2, StageFacts
  <2> QED
    BY <1>6, <2>1, <2>2 DEF UploadHead
<1>7. CASE UploadPut(r)
  BY <1>4, <1>7 DEF UploadPut
<1>8. CASE UploadThrows(r)
  <2>1. "other" \in Faults /\ Fail(r, "other")
    BY <1>8 DEF UploadThrows, Faults
  <2> QED
    BY <1>3, <2>1
<1>9. CASE Prepare(r)
  <2>1. PICK s \in NextGitHubStage[pc[r]] : Goto(r, s)
    BY <1>9 DEF Prepare
  <2>2. pc[r] \in DOMAIN NextGitHubStage
    BY <1>9 DEF Prepare
  <2>3. s \in {"labels", "create", "fetch", "keep"}
    BY <2>1, <2>2 DEF NextGitHubStage
  <2>4. s \in Working
    BY <2>3, StageFacts
  <2> QED
    BY <1>2, <2>1, <2>4
<1>10. CASE PrepareThrows(r)
  <2>1. \E kind \in Faults : Fail(r, kind)
    BY <1>10 DEF PrepareThrows, Faults
  <2> QED
    BY <1>3, <2>1
<1>11. CASE CreateIssueThrows(r)
  BY <1>3, <1>11 DEF CreateIssueThrows
<1> QED
  BY <1>5, <1>6, <1>7, <1>8, <1>9, <1>10, <1>11

\* The issue, its record, the answer, and a handler that stops.
LEMMA FinalSteps ==
  ASSUME TypeOK, IdemInv, NEW r \in Requests,
         \/ CreateIssue(r) \/ CreateIssueReplyLost(r)
         \/ CleanupDelete(r) \/ RespondFailure(r)
         \/ CacheResponse(r) \/ CacheResponseThrows(r)
         \/ Die(r)
  PROVE  IdemInv'
<1>1. CASE CreateIssue(r)
  BY <1>1, OpenKeeps DEF CreateIssue, Goto
<1>2. CASE CreateIssueReplyLost(r)
  <2>1. /\ pc[r] = "create" /\ opened' = opened \cup {r} /\ Blame(r, "lost") /\ UNCHANGED idem
        /\ pc' = [pc EXCEPT ![r] = "cleanup"] /\ UNCHANGED answer
    BY <1>2 DEF CreateIssueReplyLost, Fail
  <2> QED
    BY <2>1, OpenKeeps
<1>3. CASE CleanupDelete(r)
  <2>1. pc[r] = "cleanup" /\ UNCHANGED <<pc, answer, idem, opened, cause>>
    BY <1>3 DEF CleanupDelete
  <2>2. pc' = [pc EXCEPT ![r] = "cleanup"] /\ \A k \in Keys : cause[k] \subseteq cause'[k]
    BY <2>1 DEF TypeOK, HandlerTypeOK
  <2>3. QuietStep(r, "cleanup")
    <3>1. "cleanup" \notin Busy /\ pc[r] # "cache" /\ pc[r] # "answered"
      BY <2>1, StageFacts
    <3> QED
      BY <2>1, <2>2, <3>1 DEF QuietStep
  <2> QED
    BY <2>3, QuietKeeps, StageFacts
<1>4. CASE RespondFailure(r)
  <2>1. StatusOf(fault[r]) \in Statuses \ {200}
    BY StageFacts DEF TypeOK, HandlerTypeOK
  <2>2. QuietStep(r, "answered")
    BY <1>4, <2>1, AnswerIsQuiet DEF RespondFailure
  <2> QED
    BY <2>2, QuietKeeps, StageFacts
<1>5. CASE CacheResponse(r)
  BY <1>5, CacheKeeps DEF CacheResponse, keyFor
<1>6. CASE CacheResponseThrows(r)
  <2>1. UNCHANGED <<pc, answer, cause>> \/ (Answer(r, 200, r) /\ Blame(r, "uncached"))
    BY <1>6 DEF CacheResponseThrows, Retry
  <2> QED
    BY <1>6, <2>1, CacheKeeps DEF CacheResponseThrows, keyFor
<1>7. CASE Die(r)
  <2>1. /\ pc[r] \notin {"answered"} /\ pc' = [pc EXCEPT ![r] = "dead"]
        /\ UNCHANGED <<answer, idem, opened>>
    BY <1>7 DEF Die, Goto
  <2>2. /\ pc[r] # "cache" \/ "lost" \in cause'[KeyOf[r]]
        /\ \A k \in Keys : cause[k] \subseteq cause'[k]
    BY <1>7, SMTT(30) DEF Die, Blame, TypeOK, StoreTypeOK
  <2>3. QuietStep(r, "dead")
    BY <2>1, <2>2, StageFacts DEF QuietStep
  <2> QED
    BY <2>3, QuietKeeps, StageFacts
<1> QED
  BY <1>1, <1>2, <1>3, <1>4, <1>5, <1>6, <1>7

LEMMA IdemStep == TypeOK /\ IdemInv /\ [Next]_vars => IdemInv'
<1> SUFFICES ASSUME TypeOK, IdemInv, [Next]_vars PROVE IdemInv'
  OBVIOUS
<1>1. ASSUME NEW r \in Requests, Handle(r) \/ Die(r)
      PROVE  IdemInv'
  BY <1>1, EntrySteps, WorkSteps, FinalSteps DEF Handle
<1>2. ASSUME NEW k \in Keys, Expire(k)
      PROVE  IdemInv'
  BY <1>2, ExpireKeeps
<1>3. CASE UNCHANGED vars
  BY <1>3 DEF vars, IdemInv, KeyInv, Orderly, IssuesOf, AnswerInv, ReplayIsOwn,
       SuccessIsReplayable
<1> QED
  BY <1>1, <1>2, <1>3 DEF Next

LEMMA IdemAlways == Spec => []IdemInv
<1>1. Init => IdemInv
  BY IdemInit
<1> QED
  BY <1>1, IdemStep, TypeCorrect, PTL DEF Spec
-----------------------------------------------------------------------------
\* idempotency.ts and index.ts: however many requests share a key, and in
\* whatever order they run, fail and are retried, the key gets a second issue
\* only after one of the six events named at DuplicatesExplained.
THEOREM AtMostOneIssue == Spec => []DuplicatesExplained
<1>1. TypeOK /\ IdemInv => DuplicatesExplained
  <2> SUFFICES ASSUME TypeOK, IdemInv, NEW k \in Keys, cause[k] = {}
               PROVE  \A q, r \in IssuesOf(k) : q = r
    BY DEF DuplicatesExplained
  <2>1. AnswerInv /\ Orderly(k)
    BY DEF IdemInv, KeyInv
  <2> QED
    BY <2>1, OrderlyFacts
<1> QED
  BY <1>1, IdemAlways, TypeCorrect, PTL

\* cacheResponse and the replay of reserveResponse: while none of the six
\* events has happened to a key, KV holds the issue its client was told of.
THEOREM RetryFindsTheIssue == Spec => []SuccessIsReplayable
<1>1. IdemInv => SuccessIsReplayable
  BY DEF IdemInv, AnswerInv
<1> QED
  BY <1>1, IdemAlways, PTL

\* reserveResponse: a 200 names an existing issue of the caller's own key,
\* whatever races, expiries and failures came before.
THEOREM ReplayNamesOwnIssue == Spec => []ReplayIsOwn
<1>1. IdemInv => ReplayIsOwn
  BY DEF IdemInv, AnswerInv
<1> QED
  BY <1>1, IdemAlways, PTL

\* handleFeedback: once GitHub's reply has arrived no later failure turns
\* the response into an error.
THEOREM ErrorMeansNoIssue == Spec => []FailureOpensNoIssue
<1>1. TypeOK /\ IdemInv => FailureOpensNoIssue
  <2> SUFFICES ASSUME TypeOK, IdemInv, NEW r \in Requests, answer[r].status >= 400, r \in opened
               PROVE  "lost" \in cause[KeyOf[r]]
    BY DEF FailureOpensNoIssue
  <2>1. answer[r].status # 200 /\ answer[r].status # 0
    BY DEF TypeOK, HandlerTypeOK, Statuses
  <2>2. pc[r] = "answered"
    BY <2>1 DEF IdemInv, AnswerInv, NoAnswer
  <2> QED
    BY <2>1, <2>2 DEF IdemInv, AnswerInv
<1> QED
  BY <1>1, IdemAlways, TypeCorrect, PTL
-----------------------------------------------------------------------------
(* What happens to the attachments.                                        *)

\* How far a handler has come with its attachments, by its stage: it has stored
\* none before the rate limit let it pass, all of them once it turns to GitHub,
\* it deletes only what it stored, and only a handler that caught an error does.
ProgressInv(r) ==
  /\ toDelete[r] \subseteq created[r]
  /\ pc[r] \in {"new", "get", "reserve", "limit"} => created[r] = {}
  /\ pc[r] \notin {"cleanup", "answered", "dead"} => fault[r] = "none"
  /\ pc[r] = "cleanup" => fault[r] # "none"
  /\ r \in opened => pc[r] \in {"cache", "cleanup", "answered", "dead"}
  /\ pc[r] \in {"token", "labels", "fetch", "keep", "create", "cache"} =>
       up[r] = Len(Attachments[r])
  /\ answer[r] = [status |-> 200, issue |-> r] =>
       up[r] = Len(Attachments[r]) /\ fault[r] = "none"

\* A failed handler other than r had stored o: it may have taken it out.
TakenOut(r, o) == \E q \in Requests \ {r} : o \in created[q] /\ fault[q] # "none"

\* What a handler without an error has behind it is stored, or was taken out.
StoredInv(r) ==
  fault[r] = "none" =>
    \A i \in 1 .. up[r] :
      i \in DOMAIN Attachments[r] /\ Attachments[r][i] \notin objects => TakenOut(r, Attachments[r][i])

\* Another handler stored o too, or R2 refused it o and may hold it all the same.
StoredAgain(r, o) == \E q \in Requests \ {r} : o \in created[q] \cup r2failed[q]

\* What a failed handler stored is gone, still to be deleted, refused to be, or
\* stored again.
CleanedInv(r) ==
  pc[r] = "cleanup" \/ answer[r].status \in {500, 503, 504} =>
    \A o \in created[r] \cap objects :
      (pc[r] = "cleanup" /\ o \in toDelete[r]) \/ o \in r2failed[r] \/ StoredAgain(r, o)

AttachmentInv == \A r \in Requests : ProgressInv(r) /\ StoredInv(r) /\ CleanedInv(r)

LEMMA AttachmentInit == Init => AttachmentInv
<1> SUFFICES ASSUME Init, NEW r \in Requests
             PROVE  ProgressInv(r) /\ StoredInv(r) /\ CleanedInv(r)
  BY DEF AttachmentInv
<1>1. pc[r] = "new" /\ up[r] = 0 /\ created[r] = {} /\ toDelete[r] = {} /\ fault[r] = "none"
      /\ answer[r] = NoAnswer /\ opened = {}
  BY DEF Init
<1>2. ProgressInv(r)
  BY <1>1 DEF ProgressInv, NoAnswer
<1>3. StoredInv(r)
  BY <1>1 DEF StoredInv
<1>4. CleanedInv(r)
  BY <1>1 DEF CleanedInv
<1> QED
  BY <1>2, <1>3, <1>4

\* What a step of r may do to the others' attachments: add objects that it
\* stored, or that R2 stored while refusing them, and as a failed handler take
\* out what it stored.
StepOf(r) ==
  /\ \A q \in Requests \ {r} :
       /\ pc'[q] = pc[q] /\ up'[q] = up[q] /\ created'[q] = created[q]
       /\ toDelete'[q] = toDelete[q] /\ fault'[q] = fault[q] /\ answer'[q] = answer[q]
  /\ created[r] \subseteq created'[r]
  /\ fault[r] # "none" => fault'[r] # "none"
  /\ \A q \in Requests : r2failed[q] \subseteq r2failed'[q]
  /\ opened' \subseteq opened \cup {r}
  /\ objects \subseteq objects' \/ (objects \ objects' \subseteq created[r] /\ fault[r] # "none")
  /\ \A o \in objects' \ objects : o \in created'[r] \/ o \in r2failed'[r]

LEMMA OthersKeep ==
  ASSUME TypeOK, AttachmentInv, NEW r \in Requests, StepOf(r), NEW q \in Requests \ {r}
  PROVE  ProgressInv(q)' /\ StoredInv(q)' /\ CleanedInv(q)'
<1>1. /\ pc'[q] = pc[q] /\ up'[q] = up[q] /\ created'[q] = created[q]
      /\ toDelete'[q] = toDelete[q] /\ fault'[q] = fault[q] /\ answer'[q] = answer[q]
  BY DEF StepOf
<1>2. ProgressInv(q) /\ StoredInv(q) /\ CleanedInv(q)
  BY DEF AttachmentInv
<1>3. ProgressInv(q)'
  <2>1. q \in opened' => q \in opened
    BY DEF StepOf
  <2> QED
    BY <1>1, <1>2, <2>1 DEF ProgressInv
<1>4. \A p \in Requests : created[p] \subseteq created'[p] /\ (fault[p] # "none" => fault'[p] # "none")
  BY DEF StepOf
<1>5. StoredInv(q)'
  <2> SUFFICES ASSUME fault'[q] = "none", NEW i \in 1 .. up'[q], i \in DOMAIN Attachments[q],
                      Attachments[q][i] \notin objects'
               PROVE  TakenOut(q, Attachments[q][i])'
    BY DEF StoredInv
  <2>1. CASE Attachments[q][i] \in objects
    <3>1. Attachments[q][i] \in created[r] /\ fault[r] # "none"
      BY <2>1 DEF StepOf
    <3> QED
      BY <1>4, <3>1 DEF TakenOut
  <2>2. CASE Attachments[q][i] \notin objects
    <3>1. TakenOut(q, Attachments[q][i])
      BY <1>1, <1>2, <2>2 DEF StoredInv
    <3> QED
      BY <1>4, <3>1 DEF TakenOut
  <2> QED
    BY <2>1, <2>2
<1>6. CleanedInv(q)'
  <2> SUFFICES ASSUME pc'[q] = "cleanup" \/ answer'[q].status \in {500, 503, 504},
                      NEW o \in created'[q] \cap objects', ~(pc'[q] = "cleanup" /\ o \in toDelete'[q])
               PROVE  o \in r2failed'[q] \/ StoredAgain(q, o)'
    BY DEF CleanedInv
  <2>1. CASE o \in objects
    <3>1. o \in r2failed[q] \/ StoredAgain(q, o)
      BY <1>1, <1>2, <2>1 DEF CleanedInv
    <3>2. \A p \in Requests : r2failed[p] \subseteq r2failed'[p]
      BY DEF StepOf
    <3> QED
      BY <1>4, <3>1, <3>2 DEF StoredAgain
  <2>2. CASE o \notin objects
    <3>1. o \in created'[r] \/ o \in r2failed'[r]
      BY <2>2 DEF StepOf
    <3> QED
      BY <3>1 DEF StoredAgain
  <2> QED
    BY <2>1, <2>2
<1> QED
  BY <1>3, <1>5, <1>6

\* It is enough to look at the handler that takes the step.
LEMMA OwnStepKeeps ==
  ASSUME TypeOK, AttachmentInv, NEW r \in Requests, StepOf(r),
         ProgressInv(r)', StoredInv(r)', CleanedInv(r)'
  PROVE  AttachmentInv'
  BY OthersKeep DEF AttachmentInv

\* The handler of r moves to another await, with nothing of the attachments changed.
LEMMA MoveKeeps ==
  ASSUME TypeOK, IdemInv, AttachmentInv, NEW r \in Requests, NEW s \in Stages,
         Goto(r, s), UNCHANGED <<objects, r2failed>>, opened' \subseteq opened \cup {r},
         s \notin {"new", "cleanup", "answered"}, pc[r] # "answered",
         s = "dead" \/ pc[r] \notin {"cleanup", "dead"},
         s \in {"get", "reserve", "limit"} => pc[r] \in {"new", "get", "reserve"},
         r \in opened' => s \in {"cache", "dead"},
         s \in {"token", "labels", "fetch", "keep", "create", "cache"} => up[r] = Len(Attachments[r])
  PROVE  AttachmentInv'
<1>1. pc' = [pc EXCEPT ![r] = s] /\ UNCHANGED <<up, created, toDelete, fault, answer>>
  BY DEF Goto
<1>2. pc'[r] = s /\ \A q \in Requests \ {r} : pc'[q] = pc[q]
  BY <1>1 DEF TypeOK, HandlerTypeOK
<1>3. answer[r] = NoAnswer
  BY DEF IdemInv, AnswerInv
<1>4. ProgressInv(r) /\ StoredInv(r)
  BY DEF AttachmentInv
<1>5. StepOf(r)
  BY <1>1, <1>2 DEF StepOf
<1>6. ProgressInv(r)'
  BY <1>1, <1>2, <1>3, <1>4 DEF ProgressInv, NoAnswer
<1>7. StoredInv(r)'
  BY <1>1, <1>4 DEF StoredInv, TakenOut
<1>8. CleanedInv(r)'
  BY <1>1, <1>2, <1>3 DEF CleanedInv, NoAnswer
<1> QED
  BY <1>5, <1>6, <1>7, <1>8, OwnStepKeeps

\* It answers: a 200 of its own only from the cache write, an error only when
\* it stored nothing or has settled its deletes.
LEMMA AnswerKeeps ==
  ASSUME TypeOK, AttachmentInv, NEW r \in Requests, NEW status \in Statuses,
         NEW issue \in Requests \cup {NoIssue}, Answer(r, status, issue),
         UNCHANGED <<objects, opened, r2failed>>,
         issue = r => pc[r] = "cache",
         status \in {500, 503, 504} => pc[r] \in {"get", "reserve", "limit"} \/ toDelete[r] = {},
         pc[r] # "answered",
         status \in {500, 503, 504} /\ pc[r] \notin {"get", "reserve", "limit"} => pc[r] = "cleanup"
  PROVE  AttachmentInv'
<1>1. /\ pc' = [pc EXCEPT ![r] = "answered"]
      /\ answer' = [answer EXCEPT ![r] = [status |-> status, issue |-> issue]]
      /\ UNCHANGED <<up, created, toDelete, fault>>
  BY DEF Answer
<1>2. /\ pc'[r] = "answered" /\ \A q \in Requests \ {r} : pc'[q] = pc[q]
      /\ answer'[r].status = status /\ answer'[r].issue = issue
      /\ \A q \in Requests \ {r} : answer'[q] = answer[q]
  BY <1>1 DEF TypeOK, HandlerTypeOK
<1>3. ProgressInv(r) /\ StoredInv(r) /\ CleanedInv(r)
  BY DEF AttachmentInv
<1>4. StepOf(r)
  BY <1>1, <1>2 DEF StepOf
<1>5. ProgressInv(r)'
  <2>1. answer'[r] = [status |-> 200, issue |-> r] => pc[r] = "cache"
    BY <1>2
  <2> QED
    BY <1>1, <1>2, <1>3, <2>1 DEF ProgressInv
<1>6. StoredInv(r)'
  BY <1>1, <1>3 DEF StoredInv, TakenOut
<1>7. CleanedInv(r)'
  <2> SUFFICES ASSUME status \in {500, 503, 504}, NEW o \in created[r] \cap objects
               PROVE  o \in r2failed[r] \/ StoredAgain(r, o)
    BY <1>1, <1>2 DEF CleanedInv, StoredAgain
  <2>1. pc[r] = "cleanup" /\ toDelete[r] = {}
    BY <1>3 DEF ProgressInv
  <2> QED
    BY <1>3, <2>1 DEF CleanedInv
<1> QED
  BY <1>4, <1>5, <1>6, <1>7, OwnStepKeeps

\* It catches an error: everything it stored is to be deleted.
LEMMA FailKeeps ==
  ASSUME TypeOK, IdemInv, AttachmentInv, NEW r \in Requests, NEW kind \in Faults, Fail(r, kind),
         pc[r] \in Working, opened' \subseteq opened \cup {r},
         \/ UNCHANGED <<objects, r2failed>>
         \/ \E o \in Objects : /\ r2failed' = [r2failed EXCEPT ![r] = @ \cup {o}]
                               /\ objects \subseteq objects' /\ objects' \subseteq objects \cup {o}
  PROVE  AttachmentInv'
<1>1. /\ pc' = [pc EXCEPT ![r] = "cleanup"] /\ fault' = [fault EXCEPT ![r] = kind]
      /\ toDelete' = [toDelete EXCEPT ![r] = created[r]]
      /\ UNCHANGED <<up, created, attempt, answer>>
  BY DEF Fail
<1>2. /\ pc'[r] = "cleanup" /\ fault'[r] = kind /\ toDelete'[r] = created[r]
      /\ \A q \in Requests \ {r} :
           pc'[q] = pc[q] /\ fault'[q] = fault[q] /\ toDelete'[q] = toDelete[q]
  BY <1>1 DEF TypeOK, HandlerTypeOK
<1>3. kind # "none" /\ pc[r] # "answered"
  BY DEF Faults, Working
<1>4. answer[r] = NoAnswer
  BY <1>3 DEF IdemInv, AnswerInv
<1>5. StepOf(r)
  <2>1. /\ objects \subseteq objects' /\ \A q \in Requests : r2failed[q] \subseteq r2failed'[q]
        /\ \A o \in objects' \ objects : o \in r2failed'[r]
    <3>1. CASE UNCHANGED <<objects, r2failed>>
      BY <3>1
    <3>2. ASSUME NEW o \in Objects, r2failed' = [r2failed EXCEPT ![r] = @ \cup {o}],
                 objects \subseteq objects', objects' \subseteq objects \cup {o}
          PROVE  /\ objects \subseteq objects' /\ \A q \in Requests : r2failed[q] \subseteq r2failed'[q]
                 /\ \A p \in objects' \ objects : p \in r2failed'[r]
      BY <3>2, Noted DEF TypeOK, StoreTypeOK
    <3> QED
      BY <3>1, <3>2
  <2> QED
    BY <1>1, <1>2, <1>3, <2>1 DEF StepOf
<1>6. ProgressInv(r)'
  BY <1>1, <1>2, <1>3, <1>4 DEF ProgressInv, NoAnswer
<1>7. StoredInv(r)'
  BY <1>2, <1>3 DEF StoredInv
<1>8. CleanedInv(r)'
  BY <1>1, <1>2 DEF CleanedInv
<1> QED
  BY <1>5, <1>6, <1>7, <1>8, OwnStepKeeps

\* uploadAttachment: the object was there, or is there now and is r's own.
LEMMA UploadKeeps ==
  ASSUME TypeOK, UploadBound, IdemInv, AttachmentInv, NEW r \in Requests, NEW isNew \in BOOLEAN,
         Uploaded(r, isNew), pc[r] \in {"head", "put"},
         UNCHANGED <<opened, r2failed>>,
         IF isNew THEN objects' = objects \cup {Current(r)}
                  ELSE objects' = objects /\ Current(r) \in objects
  PROVE  AttachmentInv'
<1>1. /\ up' = [up EXCEPT ![r] = @ + 1]
      /\ created' = [created EXCEPT ![r] = IF isNew THEN @ \cup {Current(r)} ELSE @]
      /\ pc' = [pc EXCEPT ![r] = IF up[r] + 1 < Len(Attachments[r]) THEN "head" ELSE "token"]
      /\ UNCHANGED <<toDelete, fault, answer>>
  BY DEF Uploaded
<1>2. /\ up[r] \in Nat /\ up[r] < Len(Attachments[r]) /\ Len(Attachments[r]) \in Nat
      /\ Current(r) = Attachments[r][up[r] + 1]
  BY DEF TypeOK, HandlerTypeOK, UploadBound, Current
<1>3. /\ up'[r] = up[r] + 1
      /\ created'[r] = IF isNew THEN created[r] \cup {Current(r)} ELSE created[r]
      /\ pc'[r] = IF up[r] + 1 < Len(Attachments[r]) THEN "head" ELSE "token"
      /\ \A q \in Requests \ {r} :
           up'[q] = up[q] /\ created'[q] = created[q] /\ pc'[q] = pc[q]
  BY <1>1 DEF TypeOK, HandlerTypeOK
<1>4. answer[r] = NoAnswer
  BY DEF IdemInv, AnswerInv
<1>5. ProgressInv(r) /\ StoredInv(r)
  BY DEF AttachmentInv
<1>6. StepOf(r)
  BY <1>1, <1>3 DEF StepOf
<1>7. ProgressInv(r)'
  <2>1. r \notin opened
    BY <1>5 DEF ProgressInv
  <2>2. pc'[r] \in {"head", "token"} /\ (pc'[r] = "token" => up'[r] = Len(Attachments[r]))
    BY <1>2, <1>3
  <2> QED
    BY <1>1, <1>3, <1>4, <1>5, <2>1, <2>2 DEF ProgressInv, NoAnswer
<1>8. StoredInv(r)'
  <2> SUFFICES ASSUME fault[r] = "none", NEW i \in 1 .. up[r] + 1, i \in DOMAIN Attachments[r],
                      Attachments[r][i] \notin objects'
               PROVE  TakenOut(r, Attachments[r][i])'
    BY <1>1, <1>3 DEF StoredInv
  <2>1. Attachments[r][i] \notin objects /\ i # up[r] + 1
    BY <1>2
  <2>2. i \in 1 .. up[r]
    BY <1>2, <2>1
  <2>3. TakenOut(r, Attachments[r][i])
    BY <1>5, <2>1, <2>2 DEF StoredInv
  <2> QED
    BY <1>1, <1>3, <2>3 DEF TakenOut
<1>9. CleanedInv(r)'
  <2>1. pc'[r] # "cleanup" /\ answer'[r].status = 0
    BY <1>1, <1>3, <1>4 DEF NoAnswer
  <2> QED
    BY <2>1 DEF CleanedInv
<1> QED
  BY <1>6, <1>7, <1>8, <1>9, OwnStepKeeps

LEMMA UploadNewKeeps ==
  ASSUME TypeOK, UploadBound, IdemInv, AttachmentInv, NEW r \in Requests,
         Uploaded(r, TRUE), pc[r] \in {"head", "put"}, UNCHANGED <<opened, r2failed>>,
         objects' = objects \cup {Current(r)}
  PROVE  AttachmentInv'
<1>1. TRUE \in BOOLEAN
  OBVIOUS
<1> QED
  BY <1>1, UploadKeeps, Zenon

LEMMA UploadOldKeeps ==
  ASSUME TypeOK, UploadBound, IdemInv, AttachmentInv, NEW r \in Requests,
         Uploaded(r, FALSE), pc[r] \in {"head", "put"}, UNCHANGED <<opened, r2failed>>,
         objects' = objects, Current(r) \in objects
  PROVE  AttachmentInv'
<1>1. FALSE \in BOOLEAN
  OBVIOUS
<1> QED
  BY <1>1, UploadKeeps, Zenon

\* One delete settles.
LEMMA DeleteKeeps ==
  ASSUME TypeOK, IdemInv, AttachmentInv, NEW r \in Requests, CleanupDelete(r)
  PROVE  AttachmentInv'
<1>1. PICK o \in toDelete[r] :
        /\ toDelete' = [toDelete EXCEPT ![r] = @ \ {o}]
        /\ \/ objects' = objects \ {o} /\ UNCHANGED r2failed
           \/ objects' \in {objects, objects \ {o}} /\ r2failed' = [r2failed EXCEPT ![r] = @ \cup {o}]
  BY DEF CleanupDelete
<1>0. o \in Objects
  BY DEF TypeOK, HandlerTypeOK
<1>2. pc[r] = "cleanup" /\ UNCHANGED <<pc, up, created, fault, answer, opened>>
  BY DEF CleanupDelete
<1>3. toDelete'[r] = toDelete[r] \ {o} /\ \A q \in Requests \ {r} : toDelete'[q] = toDelete[q]
  BY <1>1 DEF TypeOK, HandlerTypeOK
<1>4. ProgressInv(r) /\ CleanedInv(r)
  BY DEF AttachmentInv
<1>5. fault[r] # "none" /\ o \in created[r]
  BY <1>2, <1>4 DEF ProgressInv
<1>6. StepOf(r)
  BY <1>0, <1>1, <1>2, <1>3, <1>5, Noted DEF StepOf, TypeOK, StoreTypeOK
<1>7. ProgressInv(r)'
  BY <1>2, <1>3, <1>4 DEF ProgressInv
<1>8. StoredInv(r)'
  BY <1>2, <1>5 DEF StoredInv
<1>9. CleanedInv(r)'
  <2> SUFFICES ASSUME NEW p \in created[r] \cap objects', p \notin toDelete'[r]
               PROVE  p \in r2failed'[r] \/ StoredAgain(r, p)'
    BY <1>2 DEF CleanedInv
  <2>1. p \in objects /\ (p = o => o \in r2failed'[r])
    <3>1. CASE objects' = objects \ {o} /\ UNCHANGED r2failed
      BY <3>1
    <3>2. CASE objects' \in {objects, objects \ {o}} /\ r2failed' = [r2failed EXCEPT ![r] = @ \cup {o}]
      <4>1. o \in r2failed'[r]
        BY <1>0, <3>2, Noted DEF TypeOK, StoreTypeOK
      <4> QED
        BY <3>2, <4>1
    <3> QED
      BY <1>1, <3>1, <3>2
  <2>2. \A q \in Requests : r2failed[q] \subseteq r2failed'[q]
    BY <1>0, <1>1, Noted DEF TypeOK, StoreTypeOK
  <2>3. CASE p # o
    <3>1. p \notin toDelete[r]
      BY <1>3, <2>3
    <3>2. p \in r2failed[r] \/ StoredAgain(r, p)
      BY <1>2, <1>4, <2>1, <3>1 DEF CleanedInv
    <3> QED
      BY <1>2, <2>2, <3>2 DEF StoredAgain
  <2> QED
    BY <2>1, <2>3
<1> QED
  BY <1>6, <1>7, <1>8, <1>9, OwnStepKeeps

LEMMA DoneRecord ==
  ASSUME NEW x \in Records, x.status = "done"
  PROVE  \E q \in Requests : x = Done(q)
  BY RecordFacts

LEMMA SameAttachments ==
  ASSUME AttachmentInv,
         UNCHANGED <<pc, up, created, toDelete, fault, answer, objects, opened, r2failed>>
  PROVE  AttachmentInv'
<1> SUFFICES ASSUME NEW r \in Requests
             PROVE  ProgressInv(r)' /\ StoredInv(r)' /\ CleanedInv(r)'
  BY DEF AttachmentInv
<1>1. ProgressInv(r) /\ StoredInv(r) /\ CleanedInv(r)
  BY DEF AttachmentInv
<1>2. ProgressInv(r)'
  BY <1>1 DEF ProgressInv
<1>3. StoredInv(r)'
  BY <1>1 DEF StoredInv, TakenOut
<1>4. CleanedInv(r)'
  BY <1>1 DEF CleanedInv, StoredAgain
<1> QED
  BY <1>2, <1>3, <1>4

LEMMA AttachmentHandle ==
  ASSUME TypeOK, UploadBound, IdemInv, AttachmentInv, NEW r \in Requests, Handle(r) \/ Die(r)
  PROVE  AttachmentInv'
<1>0. NoIssue \in Requests \cup {NoIssue} /\ r \in Requests \cup {NoIssue} /\ NoIssue # r
      /\ opened \subseteq opened \cup {r} /\ "cache" \in Stages
  BY DEF Stages
<1>b. Working \subseteq Stages /\ {"get", "dead", "answered", "cleanup", "reserve"} \subseteq Stages
      /\ {"limit", "head", "put", "token", "labels", "fetch", "keep", "create"} = Working
  BY StageFacts
<1>c. {400, 409, 413, 429, 500} \subseteq Statuses \ {200}
  BY StageFacts
<1>a. ProgressInv(r)
  BY DEF AttachmentInv
<1>1. ASSUME NEW status \in Statuses \ {200}, Answer(r, status, NoIssue),
             UNCHANGED <<objects, opened, r2failed>>, pc[r] # "answered",
             status \in {400, 409, 413, 429} \/ pc[r] \in {"get", "reserve", "limit"}
      PROVE  AttachmentInv'
  BY <1>0, <1>1, AnswerKeeps
<1>2. CASE Refuse(r) \/ Accept(r)
  <2>1. pc[r] = "new" /\ UNCHANGED <<objects, opened, r2failed>>
    BY <1>2 DEF Refuse, Accept
  <2>2. CASE Goto(r, "get")
    BY <1>0, <1>a, <2>1, <1>b, <2>2, MoveKeeps DEF ProgressInv
  <2>3. CASE \E status \in {400, 413} : Answer(r, status, NoIssue)
    BY <1>c, <1>1, <2>1, <2>3
  <2> QED
    BY <1>2, <2>2, <2>3 DEF Refuse, Accept
<1>3. CASE ReserveGet(r) \/ ReserveGetStale(r) \/ ReserveGetThrows(r)
  <2>1. pc[r] = "get" /\ UNCHANGED <<idem, objects, opened, r2failed>>
    BY <1>3 DEF ReserveGet, ReserveGetStale, ReserveGetThrows
  <2>2. r \notin opened
    BY <1>a, <2>1 DEF ProgressInv
  <2>3. CASE Goto(r, "reserve")
    BY <1>0, <2>1, <2>2, <1>b, <2>3, MoveKeeps
  <2>4. CASE Answer(r, 409, NoIssue) \/ Answer(r, 500, NoIssue)
    BY <1>c, <1>1, <2>1, <2>4
  <2>5. CASE idem[KeyOf[r]].status = "done" /\ Answer(r, 200, idem[KeyOf[r]].issue)
    <3>1. PICK q \in Requests : idem[KeyOf[r]] = Done(q)
      <4>1. idem[KeyOf[r]] \in Records
        BY DEF TypeOK, StoreTypeOK
      <4> QED
        BY <2>5, <4>1, DoneRecord
    <3>2. q \in opened /\ idem[KeyOf[r]].issue = q
      BY <3>1, RecordFacts DEF IdemInv, AnswerInv
    <3>3. q # r /\ 200 \in Statuses
      BY <2>2, <3>2 DEF Statuses
    <3>4. UNCHANGED <<objects, opened, r2failed>> /\ Answer(r, 200, q) /\ pc[r] # "answered"
      BY <2>1, <2>5, <3>2
    <3> QED
      BY <3>3, <3>4, AnswerKeeps
  <2> QED
    BY <1>3, <2>3, <2>4, <2>5 DEF ReserveGet, ReserveMiss, ReserveHit, ReserveGetStale, ReserveGetThrows
<1>4. CASE ReservePut(r) \/ ReservePutThrows(r)
  <2>1. pc[r] = "reserve" /\ UNCHANGED <<objects, opened, r2failed>>
    BY <1>4 DEF ReservePut, ReservePutThrows
  <2>2. CASE Goto(r, "limit")
    BY <1>0, <1>a, <2>1, <1>b, <2>2, MoveKeeps DEF ProgressInv
  <2>3. CASE Answer(r, 500, NoIssue)
    BY <1>c, <1>1, <2>1, <2>3
  <2> QED
    BY <1>4, <2>2, <2>3 DEF ReservePut, ReservePutThrows
<1>5. CASE CheckRateLimit(r)
  <2>1. pc[r] = "limit" /\ UNCHANGED <<objects, opened, r2failed>> /\ r \notin opened
    BY <1>5, <1>a DEF CheckRateLimit, ProgressInv
  <2>2. up[r] = 0
    BY <2>1 DEF UploadBound
  <2>3. CASE Attachments[r] = <<>> /\ Goto(r, "token")
    <3>1. up[r] = Len(Attachments[r])
      BY <2>2, <2>3
    <3> QED
      BY <1>0, <2>1, <2>3, <1>b, <3>1, MoveKeeps
  <2>4. CASE Goto(r, "head")
    BY <1>0, <2>1, <1>b, <2>4, MoveKeeps
  <2>5. CASE \E status \in {429, 500} : Answer(r, status, NoIssue)
    BY <1>c, <1>1, <2>1, <2>5
  <2> QED
    BY <1>5, <2>3, <2>4, <2>5 DEF CheckRateLimit
<1>6. CASE UploadHead(r) \/ UploadPut(r)
  <2>1. pc[r] \in {"head", "put"} /\ UNCHANGED <<opened, r2failed>> /\ r \notin opened
    BY <1>6, <1>a DEF UploadHead, UploadPut, ProgressInv
  <2>2. CASE Goto(r, "put") /\ UNCHANGED objects
    BY <1>0, <2>1, <1>b, <2>2, MoveKeeps
  <2>3. CASE Uploaded(r, TRUE) /\ objects' = objects \cup {Current(r)}
    BY <2>1, <2>3, UploadNewKeeps
  <2>4. CASE Uploaded(r, FALSE) /\ objects' = objects /\ Current(r) \in objects
    BY <2>1, <2>4, UploadOldKeeps
  <2>5. CASE UploadHead(r)
    BY <2>2, <2>4, <2>5 DEF UploadHead
  <2>6. CASE UploadPut(r)
    BY <2>3, <2>6 DEF UploadPut
  <2> QED
    BY <1>6, <2>5, <2>6
<1>7. CASE UploadThrows(r) \/ PrepareThrows(r) \/ CreateIssueThrows(r) \/ CreateIssueReplyLost(r)
  <2>1. pc[r] \in Working
    BY <1>7 DEF UploadThrows, PrepareThrows, CreateIssueThrows, CreateIssueReplyLost, NextGitHubStage, Working
  <2>2. PICK kind \in Faults : Fail(r, kind)
    BY <1>7 DEF UploadThrows, PrepareThrows, CreateIssueThrows, CreateIssueReplyLost, Faults
  <2>3. opened' \subseteq opened \cup {r}
    BY <1>7 DEF UploadThrows, PrepareThrows, CreateIssueThrows, CreateIssueReplyLost
  <2>4. \/ UNCHANGED <<objects, r2failed>>
        \/ \E o \in Objects : /\ r2failed' = [r2failed EXCEPT ![r] = @ \cup {o}]
                              /\ objects \subseteq objects' /\ objects' \subseteq objects \cup {o}
    <3>1. CASE UploadThrows(r) /\ pc[r] = "put"
      <4>1. Current(r) \in Objects
        BY <3>1, CurrentIsObject
      <4> QED
        BY <3>1, <4>1 DEF UploadThrows
    <3>2. CASE UploadThrows(r) /\ pc[r] # "put"
      BY <3>2 DEF UploadThrows
    <3> QED
      BY <1>7, <3>1, <3>2 DEF PrepareThrows, CreateIssueThrows, CreateIssueReplyLost
  <2> QED
    BY <2>1, <2>2, <2>3, <2>4, FailKeeps
<1>8. CASE Prepare(r)
  <2>1. /\ pc[r] \in {"token", "labels", "fetch", "keep"}
        /\ UNCHANGED <<objects, opened, r2failed>> /\ r \notin opened
    BY <1>8, <1>a DEF Prepare, NextGitHubStage, ProgressInv
  <2>2. up[r] = Len(Attachments[r])
    BY <1>a, <2>1 DEF ProgressInv
  <2>3. PICK s \in {"labels", "create", "fetch", "keep"} : Goto(r, s)
    BY <1>8 DEF Prepare, NextGitHubStage
  <2> QED
    BY <1>0, <2>1, <2>2, <1>b, <2>3, MoveKeeps
<1>9. CASE CreateIssue(r)
  <2>1. /\ pc[r] = "create" /\ UNCHANGED <<objects, r2failed>> /\ opened' = opened \cup {r}
        /\ Goto(r, "cache")
    BY <1>9 DEF CreateIssue
  <2>2. up[r] = Len(Attachments[r])
    BY <1>a, <2>1 DEF ProgressInv
  <2> QED
    BY <1>0, <2>1, <1>b, <2>2, MoveKeeps
<1>10. CASE CleanupDelete(r)
  BY <1>10, DeleteKeeps
<1>11. CASE RespondFailure(r)
  <2>1. /\ pc[r] = "cleanup" /\ toDelete[r] = {} /\ UNCHANGED <<objects, opened, r2failed>>
        /\ Answer(r, StatusOf(fault[r]), NoIssue)
    BY <1>11 DEF RespondFailure
  <2>2. StatusOf(fault[r]) \in Statuses
    BY StageFacts DEF TypeOK, HandlerTypeOK
  <2> QED
    BY <1>0, <2>1, <2>2, AnswerKeeps
<1>12. CASE CacheResponse(r) \/ CacheResponseThrows(r)
  <2>1. pc[r] = "cache" /\ UNCHANGED <<objects, opened, r2failed>>
    BY <1>12 DEF CacheResponse, CacheResponseThrows
  <2>2. CASE Answer(r, 200, r)
    <3>1. 200 \in Statuses
      BY DEF Statuses
    <3> QED
      BY <1>0, <2>1, <2>2, <3>1, AnswerKeeps
  <2>3. CASE UNCHANGED <<pc, up, created, toDelete, fault, answer>>
    BY <2>1, <2>3, SameAttachments
  <2> QED
    BY <1>12, <2>2, <2>3 DEF CacheResponse, CacheResponseThrows, Retry
<1>13. CASE Die(r)
  <2>1. /\ pc[r] \notin {"new", "answered", "dead"} /\ Goto(r, "dead")
        /\ UNCHANGED <<objects, opened, r2failed>>
    BY <1>13 DEF Die
  <2> QED
    BY <1>0, <1>b, <2>1, MoveKeeps
<1> QED
  BY <1>2, <1>3, <1>4, <1>5, <1>6, <1>7, <1>8, <1>9, <1>10, <1>11, <1>12, <1>13 DEF Handle

LEMMA AttachmentStep ==
  TypeOK /\ UploadBound /\ IdemInv /\ AttachmentInv /\ [Next]_vars => AttachmentInv'
<1> SUFFICES ASSUME TypeOK, UploadBound, IdemInv, AttachmentInv, [Next]_vars
             PROVE  AttachmentInv'
  OBVIOUS
<1>1. ASSUME NEW r \in Requests, Handle(r) \/ Die(r)
      PROVE  AttachmentInv'
  BY <1>1, AttachmentHandle
<1>2. CASE UNCHANGED <<handlerVars, objects, opened, r2failed>>
  BY <1>2, SameAttachments DEF handlerVars
<1> QED
  BY <1>1, <1>2 DEF Next, Expire, vars, handlerVars

LEMMA AttachmentAlways == Spec => []AttachmentInv
  BY AttachmentInit, AttachmentStep, TypeInv, IdemAlways, PTL DEF Spec

\* uploadAttachment and handleFeedback: what a created issue links to is in
\* R2, unless another request that failed had stored the same bytes.
THEOREM LinksResolve == Spec => []BrokenLinksExplained
<1>1. AttachmentInv => BrokenLinksExplained
  <2> SUFFICES ASSUME AttachmentInv, NEW r \in Requests, answer[r] = [status |-> 200, issue |-> r],
                      NEW i \in DOMAIN Attachments[r], Attachments[r][i] \notin objects
               PROVE  TakenOut(r, Attachments[r][i])
    BY DEF BrokenLinksExplained, TakenOut
  <2>1. up[r] = Len(Attachments[r]) /\ fault[r] = "none"
    BY DEF AttachmentInv, ProgressInv
  <2>2. i \in 1 .. up[r]
    BY <2>1
  <2> QED
    BY <2>1, <2>2 DEF AttachmentInv, StoredInv
<1> QED
  BY <1>1, AttachmentAlways, PTL

\* cleanupCreatedAttachments: a handler that answers 500, 503 or 504 leaves
\* nothing behind that it alone stored, unless R2 refused to delete it.
THEOREM FailureLeavesNoOrphan == Spec => []NoOrphanAfterFailure
<1>1. TypeOK /\ IdemInv /\ AttachmentInv => NoOrphanAfterFailure
  <2> SUFFICES ASSUME TypeOK, IdemInv, AttachmentInv, NEW r \in Requests,
                      answer[r].status \in {500, 503, 504}, NEW o \in created[r] \cap objects
               PROVE  o \in r2failed[r] \/ StoredAgain(r, o)
    BY DEF NoOrphanAfterFailure, StoredAgain
  <2>1. pc[r] # "cleanup"
    BY DEF IdemInv, AnswerInv, NoAnswer
  <2> QED
    BY <2>1 DEF AttachmentInv, CleanedInv
<1> QED
  BY <1>1, AttachmentAlways, IdemAlways, TypeCorrect, PTL
=============================================================================
