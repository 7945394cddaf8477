--------------------------- MODULE FeedbackWorker ---------------------------
(***************************************************************************)
(* The Cloudflare Worker behind the report's feedback dialog               *)
(* (feedback-worker/src): concurrent POST /feedback handlers over KV       *)
(* (idempotency records), R2 (attachments named by content hash) and       *)
(* GitHub (issues).  One action per await: whatever other handlers, the    *)
(* TTLs or the platform do may fall between any two of them.               *)
(*                                                                         *)
(* KV has no compare-and-put, a get may return what was stored a while     *)
(* ago, and a call that rejects may still have been applied; so may the    *)
(* createIssue mutation when its reply is lost.                            *)
(***************************************************************************)
EXTENDS Naturals, Sequences, FiniteSets

CONSTANTS
  Requests,      \* POSTs that reach the Worker
  Keys,          \* idempotency keys
  Objects,       \* R2 object keys: attachments/<sha256>.<ext>
  KeyOf,         \* the idempotencyKey of each payload
  Attachments,   \* image then voice, where present
  NoIssue        \* "no issue"; the issue a handler creates is named by its request

ASSUME KeyAssumption == KeyOf \in [Requests -> Keys]
ASSUME AttachmentAssumption == Attachments \in [Requests -> Seq(Objects)]
ASSUME IssueAssumption == NoIssue \notin Requests

MaxAttempts == 3   \* cacheResponseWithRetry's maxAttempts

VARIABLES
  pc,         \* the await each handler stands at
  up,         \* how many of its attachments are in uploadedAttachments
  created,    \* those of them with created = true
  toDelete,   \* deletes of cleanupCreatedAttachments that have not settled
  fault,      \* the class of the error a handler caught
  attempt,    \* cacheResponseWithRetry's loop counter
  answer,     \* the response each request got
  idem,       \* FEEDBACK_IDEMP: the record under idem:<key>
  objects,    \* FEEDBACK_ATTACHMENTS: the object keys stored
  opened,     \* GitHub: requests whose createIssue mutation was performed
  cause,      \* history: why a key may end up with more than one issue
  r2failed    \* history: the objects whose R2 put or delete each request saw reject

handlerVars == <<pc, up, created, toDelete, fault, attempt, answer>>
vars == <<pc, up, created, toDelete, fault, attempt, answer,
          idem, objects, opened, cause, r2failed>>

\* idem:<key> records.  The TTLs are 60 s and 300 s.
Absent == [status |-> "absent"]
InFlight == [status |-> "inflight", ttl |-> 60]
Done(issue) == [status |-> "done", ttl |-> 300, issue |-> issue]
Records == {Absent, InFlight} \cup {Done(q) : q \in Requests}

\* Response codes; 0 is "not answered".
Statuses == {0, 200, 400, 409, 413, 429, 500, 503, 504}
NoAnswer == [status |-> 0, issue |-> NoIssue]

\* Stages after reserveResponse and before createIssue has returned.
Working == {"limit", "head", "put", "token", "labels", "fetch", "keep", "create"}
Stages == {"new", "get", "reserve", "cleanup", "cache", "answered", "dead"} \cup Working

\* Handlers of the same key as r, other than r.
Rivals(r) == {q \in Requests \ {r} : KeyOf[q] = KeyOf[r]}

\* More than one issue for a key has one of these causes (see Causes below).
Blame(r, why) == cause' = [cause EXCEPT ![KeyOf[r]] = @ \cup {why}]
Causes == {"race", "stale", "slow", "lost", "uncached", "expired"}

Init ==
  /\ pc = [r \in Requests |-> "new"]
  /\ up = [r \in Requests |-> 0]
  /\ created = [r \in Requests |-> {}]
  /\ toDelete = [r \in Requests |-> {}]
  /\ fault = [r \in Requests |-> "none"]
  /\ attempt = [r \in Requests |-> 0]
  /\ answer = [r \in Requests |-> NoAnswer]
  /\ idem = [k \in Keys |-> Absent]
  /\ objects = {}
  /\ opened = {}
  /\ cause = [k \in Keys |-> {}]
  /\ r2failed = [r \in Requests |-> {}]

Goto(r, stage) ==
  /\ pc' = [pc EXCEPT ![r] = stage]
  /\ UNCHANGED <<up, created, toDelete, fault, attempt, answer>>

Answer(r, status, issue) ==
  /\ pc' = [pc EXCEPT ![r] = "answered"]
  /\ answer' = [answer EXCEPT ![r] = [status |-> status, issue |-> issue]]
  /\ UNCHANGED <<up, created, toDelete, fault, attempt>>

\* Mutant of Fail: a timeout returns its 504 before the cleanup.
FailTimeoutFirst(r, kind) ==
  /\ pc' = [pc EXCEPT ![r] = "cleanup"]
  /\ fault' = [fault EXCEPT ![r] = kind]
  /\ toDelete' = [toDelete EXCEPT ![r] = IF kind = "timeout" THEN {} ELSE created[r]]
  /\ UNCHANGED <<up, created, attempt, answer>>

\* Mutant of Fail: attachments found already stored are deleted as well.
FailDeletesAll(r, kind) ==
  /\ pc' = [pc EXCEPT ![r] = "cleanup"]
  /\ fault' = [fault EXCEPT ![r] = kind]
  /\ toDelete' = [toDelete EXCEPT ![r] = {Attachments[r][i] : i \in 1 .. up[r]}]
  /\ UNCHANGED <<up, created, attempt, answer>>

\* The catch block: the deletes of all created attachments start together.
Fail(r, kind) ==
  /\ pc' = [pc EXCEPT ![r] = "cleanup"]
  /\ fault' = [fault EXCEPT ![r] = kind]
  /\ toDelete' = [toDelete EXCEPT ![r] = created[r]]
  /\ UNCHANGED <<up, created, attempt, answer>>

\* GitHubTimeoutError, GitHubError, anything else.
Faults == {"timeout", "github", "other"}
StatusOf(kind) == CASE kind = "timeout" -> 504 [] kind = "github" -> 503 [] OTHER -> 500
-----------------------------------------------------------------------------
\* The size gate, JSON.parse and validatePayload: no side effect either way.
Refuse(r) ==
  /\ pc[r] = "new"
  /\ \E status \in {400, 413} : Answer(r, status, NoIssue)
  /\ UNCHANGED <<idem, objects, opened, cause, r2failed>>

Accept(r) ==
  /\ pc[r] = "new"
  /\ Goto(r, "get")
  /\ UNCHANGED <<idem, objects, opened, cause, r2failed>>

\* Mutant of ReserveHit: a done record that is not recognised is a miss.
ReserveHitInFlightOnly(r, seen) ==
  IF seen.status = "inflight"
  THEN Answer(r, 409, NoIssue) /\ UNCHANGED cause
  ELSE Goto(r, "reserve") /\ UNCHANGED cause

\* reserveResponse on what its get returned: replay, refuse, or reserve.
ReserveHit(r, seen) ==
  IF seen.status = "done"
  THEN Answer(r, 200, seen.issue) /\ UNCHANGED cause
  ELSE Answer(r, 409, NoIssue) /\ UNCHANGED cause

ReserveMiss(r) ==
  /\ Goto(r, "reserve")
  /\ IF \E q \in Rivals(r) : pc[q] = "reserve" THEN Blame(r, "race") ELSE UNCHANGED cause

ReserveGet(r) ==
  /\ pc[r] = "get"
  /\ IF idem[KeyOf[r]] = Absent THEN ReserveMiss(r) ELSE ReserveHit(r, idem[KeyOf[r]])
  /\ UNCHANGED <<idem, objects, opened, r2failed>>

\* The get returns an earlier state of the record: none, or the reservation.
ReserveGetStale(r) ==
  /\ pc[r] = "get"
  /\ idem[KeyOf[r]] # Absent
  /\ \/ Goto(r, "reserve") /\ Blame(r, "stale")
     \/ idem[KeyOf[r]] # InFlight /\ Answer(r, 409, NoIssue) /\ UNCHANGED cause
  /\ UNCHANGED <<idem, objects, opened, r2failed>>

ReserveGetThrows(r) ==
  /\ pc[r] = "get"
  /\ Answer(r, 500, NoIssue)
  /\ UNCHANGED <<idem, objects, opened, cause, r2failed>>

\* Mutant of Reservation: put without expirationTtl.
ReservationForever == [status |-> "inflight", ttl |-> 0]

\* Mutant of Reservation: the reservation does not reach KV.
ReservationLost == Absent

Reservation == InFlight

\* The put lands on whatever is there by now.
ReservePut(r) ==
  /\ pc[r] = "reserve"
  /\ idem' = [idem EXCEPT ![KeyOf[r]] = Reservation]
  /\ Goto(r, "limit")
  /\ UNCHANGED <<objects, opened, cause, r2failed>>

\* A rejected put reaches the catch-all: 500, with the put applied or not.
ReservePutThrows(r) ==
  /\ pc[r] = "reserve"
  /\ idem' \in {idem, [idem EXCEPT ![KeyOf[r]] = Reservation]}
  /\ Answer(r, 500, NoIssue)
  /\ UNCHANGED <<objects, opened, cause, r2failed>>

\* checkRateLimit in one step; the module RateLimit details it.  Its
\* rejection also reaches the catch-all.  The reservation stays.
CheckRateLimit(r) ==
  /\ pc[r] = "limit"
  /\ \/ Goto(r, IF Attachments[r] = <<>> THEN "token" ELSE "head")
     \/ \E status \in {429, 500} : Answer(r, status, NoIssue)
  /\ UNCHANGED <<idem, objects, opened, cause, r2failed>>
-----------------------------------------------------------------------------
\* The attachment that uploadAttachment is working on.
Current(r) == Attachments[r][up[r] + 1]

\* uploadAttachment returned and was pushed on uploadedAttachments.
Uploaded(r, isNew) ==
  /\ up' = [up EXCEPT ![r] = @ + 1]
  /\ created' = [created EXCEPT ![r] = IF isNew THEN @ \cup {Current(r)} ELSE @]
  /\ pc' = [pc EXCEPT ![r] = IF up[r] + 1 < Len(Attachments[r]) THEN "head" ELSE "token"]
  /\ UNCHANGED <<toDelete, fault, attempt, answer>>

UploadHead(r) ==
  /\ pc[r] = "head"
  /\ IF Current(r) \in objects THEN Uploaded(r, FALSE) ELSE Goto(r, "put")
  /\ UNCHANGED <<idem, objects, opened, cause, r2failed>>

UploadPut(r) ==
  /\ pc[r] = "put"
  /\ objects' = objects \cup {Current(r)}
  /\ Uploaded(r, TRUE)
  /\ UNCHANGED <<idem, opened, cause, r2failed>>

\* head or put rejects; the object of a rejected put may be stored, but the
\* handler does not know it.
UploadThrows(r) ==
  /\ pc[r] \in {"head", "put"}
  /\ objects' \in {objects, IF pc[r] = "put" THEN objects \cup {Current(r)} ELSE objects}
  /\ r2failed' = IF pc[r] = "put" THEN [r2failed EXCEPT ![r] = @ \cup {Current(r)}] ELSE r2failed
  /\ Fail(r, "other")
  /\ UNCHANGED <<idem, opened, cause>>
-----------------------------------------------------------------------------
\* getInstallationToken, then resolveLabelIds: the KV cache, and on a miss
\* the label pages and the KV put of the map.  Whatever rejects ends the
\* request, the put of the label cache included.
NextGitHubStage == [token |-> {"labels"}, labels |-> {"create", "fetch"},
                    fetch |-> {"keep"}, keep |-> {"create"}]

Prepare(r) ==
  /\ pc[r] \in DOMAIN NextGitHubStage
  /\ \E stage \in NextGitHubStage[pc[r]] : Goto(r, stage)
  /\ UNCHANGED <<idem, objects, opened, cause, r2failed>>

PrepareThrows(r) ==
  /\ pc[r] \in DOMAIN NextGitHubStage
  /\ \E kind \in (IF pc[r] \in {"token", "fetch"} THEN Faults ELSE {"other"}) : Fail(r, kind)
  /\ UNCHANGED <<idem, objects, opened, cause, r2failed>>

CreateIssue(r) ==
  /\ pc[r] = "create"
  /\ opened' = opened \cup {r}
  /\ Goto(r, "cache")
  /\ UNCHANGED <<idem, objects, cause, r2failed>>

CreateIssueThrows(r) ==
  /\ pc[r] = "create"
  /\ \E kind \in Faults : Fail(r, kind)
  /\ UNCHANGED <<idem, objects, opened, cause, r2failed>>

\* GitHub performed the mutation, but the handler sees an error.
CreateIssueReplyLost(r) ==
  /\ pc[r] = "create"
  /\ opened' = opened \cup {r}
  /\ Blame(r, "lost")
  /\ \E kind \in Faults : Fail(r, kind)
  /\ UNCHANGED <<idem, objects, r2failed>>

\* One delete of cleanupCreatedAttachments settles; allSettled ignores how.
CleanupDelete(r) ==
  /\ pc[r] = "cleanup"
  /\ \E o \in toDelete[r] :
       /\ toDelete' = [toDelete EXCEPT ![r] = @ \ {o}]
       /\ \/ objects' = objects \ {o} /\ UNCHANGED r2failed
          \/ objects' \in {objects, objects \ {o}} /\ r2failed' = [r2failed EXCEPT ![r] = @ \cup {o}]
  /\ UNCHANGED <<pc, up, created, fault, attempt, answer, idem, opened, cause>>

RespondFailure(r) ==
  /\ pc[r] = "cleanup"
  /\ toDelete[r] = {}
  /\ Answer(r, StatusOf(fault[r]), NoIssue)
  /\ UNCHANGED <<idem, objects, opened, cause, r2failed>>
-----------------------------------------------------------------------------

keyFor(r) == KeyOf[r]

CacheResponse(r) ==
  /\ pc[r] = "cache"
  /\ idem' = [idem EXCEPT ![keyFor(r)] = Done(r)]
  /\ Answer(r, 200, r)
  /\ UNCHANGED <<objects, opened, cause, r2failed>>

\* Mutant of Retry: the last failure is rethrown instead of swallowed.
RetryRethrows(r) ==
  IF attempt[r] + 1 < MaxAttempts
  THEN /\ attempt' = [attempt EXCEPT ![r] = @ + 1]
       /\ UNCHANGED <<pc, up, created, toDelete, fault, answer, cause>>
  ELSE Answer(r, 500, NoIssue) /\ Blame(r, "uncached")

\* Mutant of Retry: the loop never gives up.
RetryForever(r) ==
  UNCHANGED <<pc, up, created, toDelete, fault, attempt, answer, cause>>

\* After a failed cache write: another attempt, or 200 all the same.
Retry(r) ==
  IF attempt[r] + 1 < MaxAttempts
  THEN /\ attempt' = [attempt EXCEPT ![r] = @ + 1]
       /\ UNCHANGED <<pc, up, created, toDelete, fault, answer, cause>>
  ELSE Answer(r, 200, r) /\ Blame(r, "uncached")

CacheResponseThrows(r) ==
  /\ pc[r] = "cache"
  /\ idem' \in {idem, [idem EXCEPT ![keyFor(r)] = Done(r)]}
  /\ Retry(r)
  /\ UNCHANGED <<objects, opened, r2failed>>

\* The platform stops a handler (or the client disconnects) at an await.
Die(r) ==
  /\ pc[r] \notin {"new", "answered", "dead"}
  /\ Goto(r, "dead")
  /\ IF pc[r] = "cache" THEN Blame(r, "lost") ELSE UNCHANGED cause
  /\ UNCHANGED <<idem, objects, opened, r2failed>>

\* KV drops a record whose TTL has passed.  A reservation may lapse while its
\* handler still works: every GitHub call may take 10 s, and there are up to
\* 102 of them.
Expire(k) ==
  /\ idem[k] # Absent
  /\ idem[k].ttl > 0
  /\ idem' = [idem EXCEPT ![k] = Absent]
  /\ LET working == {r \in Requests : KeyOf[r] = k /\ pc[r] \in Working \cup {"cache"}}
         why == (IF idem[k].status = "done" THEN {"expired"} ELSE {})
                  \cup (IF working # {} THEN {"slow"} ELSE {})
     IN  cause' = [cause EXCEPT ![k] = @ \cup why]
  /\ UNCHANGED <<handlerVars, objects, opened, r2failed>>

Handle(r) ==
  \/ Refuse(r) \/ Accept(r)
  \/ ReserveGet(r) \/ ReserveGetStale(r) \/ ReserveGetThrows(r)
  \/ ReservePut(r) \/ ReservePutThrows(r)
  \/ CheckRateLimit(r)
  \/ UploadHead(r) \/ UploadPut(r) \/ UploadThrows(r)
  \/ Prepare(r) \/ PrepareThrows(r)
  \/ CreateIssue(r) \/ CreateIssueThrows(r) \/ CreateIssueReplyLost(r)
  \/ CleanupDelete(r) \/ RespondFailure(r)
  \/ CacheResponse(r) \/ CacheResponseThrows(r)

Next ==
  \/ \E r \in Requests : Handle(r) \/ Die(r)
  \/ \E k \in Keys : Expire(k)

Spec == Init /\ [][Next]_vars

\* Every await of a handler that has begun settles (GitHub calls are aborted
\* after 10 s, a stuck isolate is terminated) and KV expires what has a TTL.
FairSpec ==
  /\ Spec
  /\ \A r \in Requests : WF_vars(Handle(r) /\ pc[r] # "new")
  /\ \A k \in Keys : WF_vars(Expire(k))
-----------------------------------------------------------------------------
HandlerTypeOK ==
  /\ pc \in [Requests -> Stages]
  /\ up \in [Requests -> Nat]
  /\ created \in [Requests -> SUBSET Objects]
  /\ toDelete \in [Requests -> SUBSET Objects]
  /\ fault \in [Requests -> Faults \cup {"none"}]
  /\ attempt \in [Requests -> 0 .. MaxAttempts - 1]
  /\ answer \in [Requests -> [status : Statuses, issue : Requests \cup {NoIssue}]]

StoreTypeOK ==
  /\ idem \in [Keys -> Records]
  /\ objects \in SUBSET Objects
  /\ opened \in SUBSET Requests
  /\ cause \in [Keys -> SUBSET Causes]
  /\ r2failed \in [Requests -> SUBSET Objects]

\* Every variable stays in its domain.
TypeOK == HandlerTypeOK /\ StoreTypeOK

IssuesOf(k) == {r \in opened : KeyOf[r] = k}

\* Idempotency: a key has at most one issue, unless one of six things
\* happened to it.
\*   race      two gets missed before either reservation was put
\*   stale     a get did not see a record that was there
\*   slow      the reservation lapsed while its handler was at work
\*   lost      the issue was created, but the handler never learned of it or
\*             stopped before recording it
\*   uncached  all attempts to record the issue were rejected
\*   expired   the done record outlived its 300 s
\* Nothing else - no order of failures, retries, expiries and concurrent
\* handlers - makes a duplicate.
DuplicatesExplained ==
  \A k \in Keys : cause[k] = {} => \A q, r \in IssuesOf(k) : q = r

\* The replay contract: as long as none of the six happened, once a client
\* has been told 200, a retry will find that same issue in KV.
SuccessIsReplayable ==
  \A r \in Requests :
    answer[r].status = 200 /\ cause[KeyOf[r]] = {}
    => idem[KeyOf[r]] = Done(answer[r].issue)

\* A 200, first-hand or replayed, always names an issue that exists and that
\* was created for the caller's own idempotency key.
ReplayIsOwn ==
  \A r \in Requests :
    answer[r].status = 200 =>
      answer[r].issue \in opened /\ KeyOf[answer[r].issue] = KeyOf[r]

\* A client told of an error has opened no issue, except when GitHub's reply
\* was lost: in particular, failures after createIssue never become errors.
FailureOpensNoIssue ==
  \A r \in Requests :
    answer[r].status >= 400 /\ r \in opened => "lost" \in cause[KeyOf[r]]

\* The cleanup contract: a handler that answers 500, 503 or 504 after it put
\* attachments in R2 has taken them out again, whatever it failed on, also on
\* the second of them.  One may stay whose own delete R2 refused, or that another
\* request has put, too, or may have: R2 stored it and answered with an error.
NoOrphanAfterFailure ==
  \A r \in Requests :
    answer[r].status \in {500, 503, 504} =>
      \A o \in created[r] \cap objects :
        o \in r2failed[r] \/ \E q \in Requests \ {r} : o \in created[q] \cup r2failed[q]

\* A created issue's attachment links resolve, unless another request had
\* stored the same bytes itself, failed, and taken them out.
BrokenLinksExplained ==
  \A r \in Requests : answer[r] = [status |-> 200, issue |-> r] =>
    \A i \in DOMAIN Attachments[r] : Attachments[r][i] \notin objects =>
      \E q \in Requests \ {r} : Attachments[r][i] \in created[q] /\ fault[q] # "none"

\* Every accepted request is answered, unless its handler is stopped: the
\* handler has no unbounded loop, and the only thing of another handler's that it
\* waits for is the limiter's lock, which every call releases (RateLimit, NobodyStranded).
EventuallyAnswered ==
  \A r \in Requests : pc[r] = "get" ~> pc[r] \in {"answered", "dead"}

\* A handler that stopped or failed does not lock its key out for good.
KeysAreFreed == \A k \in Keys : []<>(idem[k].status # "inflight")
-----------------------------------------------------------------------------
(* Claims of the documentation and of comments in the code.                *)

\* index.ts: the cleanup leaves alone what a successful issue refers to.
LinkedObjectsRemain ==
  [][\A r \in Requests : answer[r] = [status |-> 200, issue |-> r] =>
       \A i \in DOMAIN Attachments[r] :
         Attachments[r][i] \in objects => Attachments[r][i] \in objects']_vars
=============================================================================
