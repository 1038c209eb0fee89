----------------------------- MODULE UploadQueue ----------------------------
(***************************************************************************)
(* The upload path of FileController.kt: the permit semaphore and the      *)
(* in-flight byte limiter that admit an upload, the locked wait queue with *)
(* its counter and its byte budget, the drain loop, and the timeout and    *)
(* error callbacks of the DeferredResult.                                  *)
(*                                                                         *)
(* Unlike a download, an upload is executed by the thread that admits it:  *)
(* the handler of one request stores the files of the requests it drains.  *)
(* Each access to a shared object is one step; the byte limiters are used  *)
(* through the atomic budget that module ByteLimiter proves them to        *)
(* implement.  The storing itself (FileService.uploadFile) is one step     *)
(* that succeeds or throws.  Spring is modelled as in DownloadQueue:       *)
(* callbacks run only after the handler returned, and the first setResult  *)
(* counts.                                                                 *)
(***************************************************************************)
EXTENDS Budget, SequencesExt

CONSTANTS
  Requests,          \* upload requests, each with its own connection
  Size,              \* effectiveFile.size.coerceAtLeast(0) of each request
  MaxConcurrency,    \* app.upload.max-concurrency
  MaxInFlightBytes,  \* app.upload.max-inflight-bytes
  MaxQueueBytes,     \* app.upload.max-queue-bytes
  MaxQueueRequests,  \* app.upload.max-queue-requests
  StackLimit,        \* drains of one thread that fit on its stack
  NoRequest          \* null

ASSUME UploadAssumption ==
  /\ IsFiniteSet(Requests)
  /\ Size \in [Requests -> Nat]
  /\ MaxConcurrency \in Nat
  /\ MaxInFlightBytes \in Nat
  /\ MaxQueueBytes \in Nat
  /\ MaxQueueRequests \in Nat
  /\ StackLimit \in Nat
  /\ NoRequest \notin Requests

VARIABLES
  permits,          \* uploadSemaphore
  inFlightBytes,    \* uploadInFlightLimiter
  queuedCount,      \* uploadQueuedCount
  queueBytes,       \* uploadQueueBytesLimiter
  queue,            \* uploadQueue
  locked,           \* uploadQueueLock is held by a poll
  drainInProgress,  \* uploadDrainInProgress
  entry,            \* QueuedUploadRequest.active, and who cleared it
  result,           \* the DeferredResult of each request
  pc,               \* where the handler thread of each request is
  next,             \* the upload it executes, or looks at in the queue
  depth,            \* drains nested in each other on its stack
  cb,               \* where the container thread that answers its timeout is
  stored,           \* the uploads whose file and row have been written
  offers,           \* history: requests in the order they were queued
  dropped           \* history: permits the fast path took and forgot

budgets == <<permits, inFlightBytes, queuedCount, queueBytes>>
line == <<queue, locked, drainInProgress>>
request == <<entry, result, stored>>
history == <<offers, dropped>>
vars == <<budgets, line, request, pc, next, depth, cb, history>>

EntryStates == {"none", "active", "claimed", "cancelled", "leaked"}
Results == {"none", "200", "400", "500", "503"}
HandlerLabels ==
  {"new", "checkCount", "tryPermit", "tryBytes", "reserve", "countUp", "countDown", "unreserve",
   "refuse", "offer", "drain", "lock", "look", "pollPermit", "pollBytes", "undo", "take",
   "backPermit", "backBytes", "dec", "free", "store", "succeed", "fail", "freeInFlight",
   "freePermit", "nested", "exit", "recheckCount", "recheckPermits", "return", "returned",
   "overflowed"}
CallbackLabels == {"quiet", "claim", "remove", "dec", "free", "answer", "done"}

(* No counter goes below zero, and every variable keeps its type.          *)
TypeOK ==
  /\ permits \in Nat /\ inFlightBytes \in Nat /\ queuedCount \in Nat /\ queueBytes \in Nat
  /\ queue \in Seq(Requests) /\ locked \in BOOLEAN /\ drainInProgress \in BOOLEAN
  /\ entry \in [Requests -> EntryStates]
  /\ result \in [Requests -> Results]
  /\ pc \in [Requests -> HandlerLabels]
  /\ next \in [Requests -> Requests \cup {NoRequest}]
  /\ depth \in [Requests -> 0..StackLimit]
  /\ cb \in [Requests -> CallbackLabels]
  /\ stored \subseteq Requests
  /\ offers \in Seq(Requests) /\ dropped \in Nat

Init ==
  /\ permits = MaxConcurrency
  /\ inFlightBytes = 0 /\ queuedCount = 0 /\ queueBytes = 0
  /\ queue = <<>> /\ locked = FALSE /\ drainInProgress = FALSE
  /\ entry = [r \in Requests |-> "none"]
  /\ result = [r \in Requests |-> "none"]
  /\ pc = [r \in Requests |-> "new"]
  /\ next = [r \in Requests |-> NoRequest]
  /\ depth = [r \in Requests |-> 0]
  /\ cb = [r \in Requests |-> "quiet"]
  /\ stored = {}
  /\ offers = <<>> /\ dropped = 0

Goto(r, from, to) == pc[r] = from /\ pc' = [pc EXCEPT ![r] = to]
Callback(r, from, to) == cb[r] = from /\ cb' = [cb EXCEPT ![r] = to]

(* setResult: the first result counts.                                     *)
Answered(q, status) ==
  [result EXCEPT ![q] = IF result[q] = "none" THEN status ELSE result[q]]

(* What a step on the budgets, on the queue or on a request leaves alone.  *)
beyondBudgets == <<line, request, next, depth, cb, history>>
beyondLine == <<budgets, request, next, depth, cb, history>>
beyondRequest == <<budgets, line, next, depth, cb, history>>
beyondControl == <<budgets, line, request, cb, history>>

-----------------------------------------------------------------------------
(* Plausible errors in the code, which the properties must notice.         *)

(* The newest upload is put at the front of the queue.                     *)
OfferFirst(r) ==
  /\ ~locked
  /\ Goto(r, "offer", "drain")
  /\ queue' = <<r>> \o queue
  /\ entry' = [entry EXCEPT ![r] = "active"]
  /\ offers' = Append(offers, r)
  /\ UNCHANGED <<budgets, locked, drainInProgress, result, stored, next, depth, cb,
                 dropped>>

(* A head that does not fit keeps the permit.                              *)
UndoForgotten(r) ==
  /\ Goto(r, "undo", "exit")
  /\ locked' = FALSE
  /\ next' = [next EXCEPT ![r] = NoRequest]
  /\ UNCHANGED <<budgets, queue, drainInProgress, request, depth, cb, history>>

(* acquire() instead of tryAcquire(): the poll waits for a permit.         *)
PollPermitWaits(r) ==
  /\ permits > 0
  /\ Goto(r, "pollPermit", "pollBytes")
  /\ permits' = permits - 1
  /\ UNCHANGED <<inFlightBytes, queuedCount, queueBytes, line, request, next, depth, cb,
                 history>>

(* The drain ends without looking again.                                   *)
RecheckForgotten(r) ==
  /\ Goto(r, "recheckCount", "return")
  /\ UNCHANGED <<beyondControl, next, depth>>

(* The entry is removed from the queue without the lock.                   *)
CancelRemoveUnlocked(r) ==
  /\ \/ /\ Callback(r, "remove", "dec")
        /\ \E i \in DOMAIN queue : queue[i] = r /\ queue' = RemoveAt(queue, i)
        /\ UNCHANGED entry
     \/ /\ Callback(r, "remove", "answer")
        /\ r \notin Range(queue)
        /\ entry' = [entry EXCEPT ![r] = "leaked"]
        /\ UNCHANGED queue
  /\ UNCHANGED <<budgets, locked, drainInProgress, result, stored, pc, next, depth, history>>

(* The bytes of a cancelled entry stay reserved.                           *)
CancelFreeForgotten(r) ==
  /\ Callback(r, "free", "answer")
  /\ UNCHANGED <<budgets, line, request, pc, next, depth, history>>

-----------------------------------------------------------------------------
(* uploadFile up to the drain.                                             *)

(* No user, no path, or no file: 400 (lines 384-395).                      *)
Reject(r) ==
  /\ Goto(r, "new", "return")
  /\ result' = Answered(r, "400")
  /\ UNCHANGED <<beyondRequest, entry, stored>>

Admit(r) ==
  /\ Goto(r, "new", "checkCount")
  /\ UNCHANGED <<beyondControl, next, depth>>

CheckCount(r) ==
  /\ Goto(r, "checkCount", IF queuedCount = 0 THEN "tryPermit" ELSE "reserve")
  /\ UNCHANGED <<beyondControl, next, depth>>

TryPermit(r) ==
  \/ /\ permits > 0
     /\ Goto(r, "tryPermit", "tryBytes")
     /\ permits' = permits - 1
     /\ UNCHANGED <<beyondBudgets, inFlightBytes, queuedCount, queueBytes>>
  \/ /\ permits = 0
     /\ Goto(r, "tryPermit", "reserve")
     /\ UNCHANGED <<beyondControl, next, depth>>

(* The last operand of line 400.  When it is false the permit taken by the *)
(* operand before it is not released.                                      *)
TryBytes(r) ==
  \/ /\ Fits(inFlightBytes, Size[r], MaxInFlightBytes)
     /\ Goto(r, "tryBytes", "store")
     /\ inFlightBytes' = Charged(inFlightBytes, Size[r])
     /\ next' = [next EXCEPT ![r] = r]
     /\ UNCHANGED <<permits, queuedCount, queueBytes, line, request, depth, cb, history>>
  \/ /\ ~Fits(inFlightBytes, Size[r], MaxInFlightBytes)
     /\ Goto(r, "tryBytes", "reserve")
     /\ dropped' = dropped + 1
     /\ UNCHANGED <<budgets, line, request, next, depth, cb, offers>>

Reserve(r) ==
  \/ /\ Fits(queueBytes, Size[r], MaxQueueBytes)
     /\ Goto(r, "reserve", "countUp")
     /\ queueBytes' = Charged(queueBytes, Size[r])
     /\ UNCHANGED <<beyondBudgets, permits, inFlightBytes, queuedCount>>
  \/ /\ ~Fits(queueBytes, Size[r], MaxQueueBytes)
     /\ Goto(r, "reserve", "refuse")
     /\ UNCHANGED <<beyondControl, next, depth>>

CountUp(r) ==
  /\ Goto(r, "countUp", IF queuedCount + 1 > MaxQueueRequests THEN "countDown" ELSE "offer")
  /\ queuedCount' = queuedCount + 1
  /\ UNCHANGED <<beyondBudgets, permits, inFlightBytes, queueBytes>>

CountDown(r) ==
  /\ Goto(r, "countDown", "unreserve")
  /\ queuedCount' = queuedCount - 1
  /\ UNCHANGED <<beyondBudgets, permits, inFlightBytes, queueBytes>>

Unreserve(r) ==
  /\ Goto(r, "unreserve", "refuse")
  /\ queueBytes' = Refunded(queueBytes, Size[r])
  /\ UNCHANGED <<beyondBudgets, permits, inFlightBytes, queuedCount>>

(* setUploadUnavailable: 503 with Retry-After.                             *)
Refuse(r) ==
  /\ Goto(r, "refuse", "return")
  /\ result' = Answered(r, "503")
  /\ UNCHANGED <<beyondRequest, entry, stored>>

Offer(r) ==
  /\ ~locked
  /\ Goto(r, "offer", "drain")
  /\ queue' = Append(queue, r)
  /\ entry' = [entry EXCEPT ![r] = "active"]
  /\ offers' = Append(offers, r)
  /\ UNCHANGED <<budgets, locked, drainInProgress, result, stored, next, depth, cb,
                 dropped>>

-----------------------------------------------------------------------------
(* drainUploadQueue and pollNextQueuedUploadReady.                         *)

DrainEnter(r) ==
  /\ Goto(r, "drain", IF drainInProgress THEN "return" ELSE "lock")
  /\ drainInProgress' = TRUE
  /\ UNCHANGED <<beyondLine, queue, locked>>

Lock(r) ==
  /\ ~locked
  /\ Goto(r, "lock", "look")
  /\ locked' = TRUE
  /\ UNCHANGED <<beyondLine, queue, drainInProgress>>

(* The head of the queue, while it is there; entries that were cancelled   *)
(* are dropped on the way.                                                 *)
Look(r) ==
  \/ /\ queue = <<>>
     /\ Goto(r, "look", "exit")
     /\ locked' = FALSE
     /\ UNCHANGED <<beyondLine, queue, drainInProgress>>
  \/ /\ queue # <<>> /\ entry[Head(queue)] # "active"
     /\ pc[r] = "look" /\ UNCHANGED pc
     /\ queue' = Tail(queue)
     /\ UNCHANGED <<beyondLine, locked, drainInProgress>>
  \/ /\ queue # <<>> /\ entry[Head(queue)] = "active"
     /\ Goto(r, "look", "pollPermit")
     /\ next' = [next EXCEPT ![r] = Head(queue)]
     /\ UNCHANGED <<beyondControl, depth>>

PollPermit(r) ==
  \/ /\ permits > 0
     /\ Goto(r, "pollPermit", "pollBytes")
     /\ permits' = permits - 1
     /\ UNCHANGED <<beyondBudgets, inFlightBytes, queuedCount, queueBytes>>
  \/ /\ permits = 0
     /\ Goto(r, "pollPermit", "exit")
     /\ locked' = FALSE
     /\ next' = [next EXCEPT ![r] = NoRequest]
     /\ UNCHANGED <<budgets, queue, drainInProgress, request, depth, cb, history>>

PollBytes(r) ==
  LET size == Size[next[r]] IN
  \/ /\ Goto(r, "pollBytes", "take")
     /\ Fits(inFlightBytes, size, MaxInFlightBytes)
     /\ inFlightBytes' = Charged(inFlightBytes, size)
     /\ UNCHANGED <<beyondBudgets, permits, queuedCount, queueBytes>>
  \/ /\ Goto(r, "pollBytes", "undo")
     /\ ~Fits(inFlightBytes, size, MaxInFlightBytes)
     /\ UNCHANGED <<beyondControl, next, depth>>

(* The head does not fit: its permit is released, and the poll ends.       *)
Undo(r) ==
  /\ Goto(r, "undo", "exit")
  /\ permits' = permits + 1
  /\ locked' = FALSE
  /\ next' = [next EXCEPT ![r] = NoRequest]
  /\ UNCHANGED <<inFlightBytes, queuedCount, queueBytes, queue, drainInProgress, request, depth,
                 cb, history>>

(* removeFirst and the compareAndSet of active, which a timeout may have   *)
(* cleared since the head was looked at.                                   *)
Take(r) ==
  /\ \/ /\ Goto(r, "take", "dec")
        /\ entry[next[r]] = "active"
        /\ entry' = [entry EXCEPT ![next[r]] = "claimed"]
     \/ /\ Goto(r, "take", "backPermit")
        /\ entry[next[r]] # "active"
        /\ UNCHANGED entry
  /\ queue' = Tail(queue)
  /\ UNCHANGED <<budgets, locked, drainInProgress, result, stored, next, depth, cb,
                 history>>

BackPermit(r) ==
  /\ Goto(r, "backPermit", "backBytes")
  /\ permits' = permits + 1
  /\ UNCHANGED <<beyondBudgets, inFlightBytes, queuedCount, queueBytes>>

BackBytes(r) ==
  /\ Goto(r, "backBytes", "look")
  /\ inFlightBytes' = Refunded(inFlightBytes, Size[next[r]])
  /\ next' = [next EXCEPT ![r] = NoRequest]
  /\ UNCHANGED <<permits, queuedCount, queueBytes, line, request, depth, cb, history>>

DecCount(r) ==
  /\ Goto(r, "dec", "free")
  /\ queuedCount' = queuedCount - 1
  /\ UNCHANGED <<beyondBudgets, permits, inFlightBytes, queueBytes>>

(* The last access of the poll, which then leaves the lock.                *)
FreeBytes(r) ==
  /\ Goto(r, "free", "store")
  /\ queueBytes' = Refunded(queueBytes, Size[next[r]])
  /\ locked' = FALSE
  /\ UNCHANGED <<permits, inFlightBytes, queuedCount, queue, drainInProgress, request, next,
                 depth, cb, history>>

-----------------------------------------------------------------------------
(* completeUpload, on the thread of request r, for the upload next[r].     *)

(* fileService.uploadFile writes the file and its row, or throws.          *)
Store(r) ==
  \/ /\ Goto(r, "store", "succeed")
     /\ stored' = stored \cup {next[r]}
     /\ UNCHANGED <<beyondRequest, entry, result>>
  \/ /\ Goto(r, "store", "fail")
     /\ UNCHANGED <<beyondControl, next, depth>>

Succeed(r) ==
  /\ Goto(r, "succeed", "freeInFlight")
  /\ result' = Answered(next[r], "200")
  /\ UNCHANGED <<beyondRequest, entry, stored>>

Fail(r) ==
  /\ Goto(r, "fail", "freeInFlight")
  /\ result' = Answered(next[r], "500")
  /\ UNCHANGED <<beyondRequest, entry, stored>>

FreeInFlight(r) ==
  /\ Goto(r, "freeInFlight", "freePermit")
  /\ inFlightBytes' = Refunded(inFlightBytes, Size[next[r]])
  /\ UNCHANGED <<beyondBudgets, permits, queuedCount, queueBytes>>

(* The finally block ends with a drain: after the fast path it is the      *)
(* first of this thread, in the drain loop it is nested in the loop.       *)
FreePermit(r) ==
  /\ Goto(r, "freePermit", IF entry[next[r]] = "none" THEN "drain" ELSE "nested")
  /\ permits' = permits + 1
  /\ next' = [next EXCEPT ![r] = NoRequest]
  /\ UNCHANGED <<inFlightBytes, queuedCount, queueBytes, line, request, depth, cb, history>>

(* The nested drain finds the flag set, and the loop polls again.          *)
NestedDrain(r) ==
  /\ drainInProgress
  /\ Goto(r, "nested", "lock")
  /\ UNCHANGED <<beyondControl, next, depth>>

Exit(r) ==
  /\ Goto(r, "exit", "recheckCount")
  /\ drainInProgress' = FALSE
  /\ UNCHANGED <<beyondLine, queue, locked>>

RecheckCount(r) ==
  /\ Goto(r, "recheckCount", IF queuedCount > 0 THEN "recheckPermits" ELSE "return")
  /\ UNCHANGED <<beyondControl, next, depth>>

(* The drain calls itself from its finally block.                          *)
RecheckPermits(r) ==
  \/ /\ permits = 0
     /\ Goto(r, "recheckPermits", "return")
     /\ UNCHANGED <<beyondControl, next, depth>>
  \/ /\ permits > 0
     /\ depth[r] < StackLimit
     /\ Goto(r, "recheckPermits", "drain")
     /\ depth' = [depth EXCEPT ![r] = depth[r] + 1]
     /\ UNCHANGED <<beyondControl, next>>

(* No stack is left for the call: the handler ends with an Error, and the  *)
(* client is sent a 500.                                                   *)
StackOverflow(r) ==
  /\ permits > 0
  /\ depth[r] = StackLimit
  /\ Goto(r, "recheckPermits", "overflowed")
  /\ UNCHANGED <<beyondControl, next, depth>>

(* The handler returns, and the result is sent once it is set.             *)
Return(r) ==
  /\ Goto(r, "return", "returned")
  /\ depth' = [depth EXCEPT ![r] = 0]
  /\ UNCHANGED <<beyondControl, next>>

-----------------------------------------------------------------------------
(* The callbacks of a request without a result, and cancelQueuedUpload.    *)

(* queue-timeout-ms has passed, or the container saw the connection fail.  *)
(* Both callbacks cancel the request (lines 431-438).                      *)
ContainerEvent(r) ==
  /\ pc[r] = "returned"
  /\ result[r] = "none"
  /\ Callback(r, "quiet", "claim")
  /\ UNCHANGED <<budgets, line, request, pc, next, depth, history>>

CancelClaim(r) ==
  \/ /\ entry[r] = "active"
     /\ Callback(r, "claim", "remove")
     /\ entry' = [entry EXCEPT ![r] = "cancelled"]
     /\ UNCHANGED <<budgets, line, result, stored, pc, next, depth, history>>
  \/ /\ entry[r] # "active"
     /\ Callback(r, "claim", "answer")
     /\ UNCHANGED <<budgets, line, request, pc, next, depth, history>>

(* A poll may have dropped the entry from the queue already.               *)
CancelRemove(r) ==
  /\ ~locked
  /\ \/ /\ Callback(r, "remove", "dec")
        /\ \E i \in DOMAIN queue : queue[i] = r /\ queue' = RemoveAt(queue, i)
        /\ UNCHANGED entry
     \/ /\ Callback(r, "remove", "answer")
        /\ r \notin Range(queue)
        /\ entry' = [entry EXCEPT ![r] = "leaked"]
        /\ UNCHANGED queue
  /\ UNCHANGED <<budgets, locked, drainInProgress, result, stored, pc, next, depth, history>>

CancelDec(r) ==
  /\ Callback(r, "dec", "free")
  /\ queuedCount' = queuedCount - 1
  /\ UNCHANGED <<permits, inFlightBytes, queueBytes, line, request, pc, next, depth, history>>

CancelFree(r) ==
  /\ Callback(r, "free", "answer")
  /\ queueBytes' = Refunded(queueBytes, Size[r])
  /\ UNCHANGED <<permits, inFlightBytes, queuedCount, line, request, pc, next, depth, history>>

(* setUploadUnavailable after a timeout that could cancel, Spring's own    *)
(* answer otherwise: an error, unless there is a result.                   *)
CallbackAnswer(r) ==
  /\ Callback(r, "answer", "done")
  /\ result' = Answered(r, "503")
  /\ UNCHANGED <<budgets, line, entry, stored, pc, next, depth, history>>

-----------------------------------------------------------------------------
HandlerStep(r) ==
  \/ CheckCount(r) \/ TryPermit(r) \/ TryBytes(r)
  \/ Reserve(r) \/ CountUp(r) \/ CountDown(r) \/ Unreserve(r) \/ Refuse(r) \/ Offer(r)
  \/ DrainEnter(r) \/ Lock(r) \/ Look(r) \/ PollPermit(r) \/ PollBytes(r) \/ Undo(r)
  \/ Take(r) \/ BackPermit(r) \/ BackBytes(r) \/ DecCount(r) \/ FreeBytes(r)
  \/ Store(r) \/ Succeed(r) \/ Fail(r) \/ FreeInFlight(r) \/ FreePermit(r) \/ NestedDrain(r)
  \/ Exit(r) \/ RecheckCount(r) \/ RecheckPermits(r) \/ StackOverflow(r) \/ Return(r)

CallbackStep(r) ==
  CancelClaim(r) \/ CancelRemove(r) \/ CancelDec(r) \/ CancelFree(r) \/ CallbackAnswer(r)

Next ==
  \E r \in Requests :
    \/ Reject(r) \/ Admit(r)
    \/ HandlerStep(r)
    \/ ContainerEvent(r) \/ CallbackStep(r)

Spec == Init /\ [][Next]_vars

(* Threads that can run do run, and the container's timer fires; the lock  *)
(* need not be fair.                                                       *)
FairSpec ==
  /\ Spec
  /\ \A r \in Requests :
       WF_vars(HandlerStep(r)) /\ WF_vars(ContainerEvent(r) \/ CallbackStep(r))

-----------------------------------------------------------------------------
(* A handler that holds a permit, and one that holds in-flight bytes.      *)
HandlerPermits ==
  {r \in Requests :
    pc[r] \in {"tryBytes", "pollBytes", "undo", "take", "backPermit", "dec", "free", "store",
               "succeed", "fail", "freeInFlight", "freePermit"}}
InFlight ==
  {r \in Requests :
    pc[r] \in {"take", "backPermit", "backBytes", "dec", "free", "store", "succeed", "fail",
               "freeInFlight"}}

(* Permits are neither created nor returned twice, on the fast path, on    *)
(* the four exits of the poll, or when storing throws.  The only permits   *)
(* that do not come back are those of line 400 (see EveryPermitReturned).  *)
PermitsConserved == permits + Cardinality(HandlerPermits) + dropped = MaxConcurrency

TakenAt(labels) == {next[d] : d \in {d \in Requests : pc[d] \in labels}}
SlotHolders ==
  {r \in Requests :
    \/ pc[r] \in {"countDown", "offer"}
    \/ entry[r] \in {"active", "leaked"}
    \/ entry[r] = "claimed" /\ r \in TakenAt({"dec"})
    \/ entry[r] = "cancelled" /\ cb[r] \in {"remove", "dec"}}
ByteHolders ==
  {r \in Requests :
    \/ pc[r] \in {"countUp", "countDown", "unreserve", "offer"}
    \/ entry[r] \in {"active", "leaked"}
    \/ entry[r] = "claimed" /\ r \in TakenAt({"dec", "free"})
    \/ entry[r] = "cancelled" /\ cb[r] \in {"remove", "dec", "free"}}

(* The counter of the queue agrees with the entries that use it, while     *)
(* different threads queue, drain and cancel (lines 405-429, 444-457,      *)
(* 483-513); the only drift is that of the leaked entries.  The queue      *)
(* stays within its limit, although the counter is raised first and        *)
(* lowered again.                                                          *)
SlotsConserved ==
  /\ queuedCount = Cardinality(SlotHolders)
  /\ Len(queue) <= MaxQueueRequests

(* The two byte limiters agree with the uploads that wait and with those   *)
(* that are being executed or taken from the queue, whoever executes them; *)
(* neither exceeds its limit, nor is ever clamped at zero.                 *)
BytesConserved ==
  /\ queueBytes = MapThenSumSet(LAMBDA r : Size[r], ByteHolders)
  /\ queueBytes <= MaxQueueBytes
  /\ inFlightBytes = MapThenSumSet(LAMBDA r : Size[next[r]], InFlight)
  /\ inFlightBytes <= MaxInFlightBytes

(* What a queued upload reserves is given back once, whichever thread ends *)
(* its wait.                                                               *)
ReservationsConserved == SlotsConserved /\ BytesConserved

(* A request whose callback won the race for its entry is never executed,  *)
(* no upload is executed by two threads, and whoever is told 200 has its   *)
(* file stored.  What a poll takes from the head under the lock is what it *)
(* looked at, although cancelling clears active without the lock.          *)
UploadHasOneFate ==
  /\ \A r \in Requests : entry[r] \in {"cancelled", "leaked"} => r \notin stored
  /\ \A d, e \in Requests : next[d] = next[e] /\ next[d] # NoRequest => d = e
  /\ \A r \in Requests : result[r] = "200" => r \in stored
  /\ \A r \in Requests :
       pc[r] \in {"pollPermit", "pollBytes", "take"} => queue # <<>> /\ Head(queue) = next[r]

(* Queued uploads are taken strictly in the order of arrival: whoever is   *)
(* taken has nobody waiting in front of it.                                *)
Before(q, r) == \E i, j \in DOMAIN offers : offers[i] = q /\ offers[j] = r /\ i < j
FirstComeFirstServed ==
  [][\A r \in Requests : entry[r] = "active" /\ entry'[r] = "claimed" =>
       \A q \in Requests : Before(q, r) => entry[q] # "active"]_vars

(* Each completed upload drains the queue, and a drain looks again after   *)
(* it has cleared its flag (lines 475-480, 533): when every handler has    *)
(* returned, an upload can only wait for a permit that is gone for good.   *)
(* A drain whose head does not fit the bytes in flight does not give up:   *)
(* it tries again, until it has no stack left.                             *)
HandlersDone == \A r \in Requests : pc[r] \in {"new", "returned"}
Waiting == {r \in Requests : entry[r] = "active"}
NoLostWakeup ==
  HandlersDone /\ Waiting # {} => permits = 0

(* Every upload that arrives comes to an end: its handler, which may be    *)
(* executing the uploads of others, returns, and it has a result; or the   *)
(* handler ran out of stack and the client has a 500.  In particular no    *)
(* two threads wait for each other's lock, flag or permit for ever.        *)
EveryRequestAnswered ==
  []<>(\A r \in Requests :
         pc[r] \in {"new", "overflowed"} \/ (pc[r] = "returned" /\ result[r] # "none"))

-----------------------------------------------------------------------------
(* What the repository's documents say, and the code does not do.          *)

AtRest == HandlersDone /\ \A r \in Requests : cb[r] \in {"quiet", "done"}

(* memo/bdg.md:303: when a request is done, its finally returns permit and *)
(* bytes.  So once all threads are at rest, all permits are back.          *)
EveryPermitReturned == AtRest => permits = MaxConcurrency
=============================================================================
