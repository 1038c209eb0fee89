--------------------------- MODULE DownloadQueue ----------------------------
(***************************************************************************)
(* The download path of FileController.kt: the permit semaphore, the wait  *)
(* queue with its counter and its byte budget, the drain loop, and the     *)
(* timeout and error callbacks of the DeferredResult.                      *)
(*                                                                         *)
(* Every request is served by a thread of its own, which runs              *)
(* downloadFile and, inside it, drainDownloadQueue; a container thread     *)
(* runs the callbacks of a request once its handler has returned; a        *)
(* thread of the MVC executor runs the StreamingResponseBody.  Each access *)
(* to a shared object is one step.  The byte limiter is used through the   *)
(* atomic budget that module ByteLimiter proves it to implement.           *)
(*                                                                         *)
(* Spring and Tomcat are modelled from how the code uses them: callbacks   *)
(* run only after the handler returned, setResult is accepted once, and an *)
(* accepted body is handed to the executor by the thread that called       *)
(* setResult or, if it came first, by the return of the handler.           *)
(***************************************************************************)
EXTENDS Budget, SequencesExt

CONSTANTS
  Requests,          \* download requests, each with its own connection
  Size,              \* download.fileSize.coerceAtLeast(0) of each request
  MaxConcurrency,    \* app.download.max-concurrency
  MaxQueueBytes,     \* app.download.max-queue-bytes
  MaxQueueRequests,  \* app.download.max-queue-requests
  PoolThreads,       \* threads of the MVC executor that run bodies at once
  StackLimit,        \* nested drains that fit on a thread's stack
  NoRequest          \* null

ASSUME DownloadAssumption ==
  /\ IsFiniteSet(Requests)
  /\ Size \in [Requests -> Nat]
  /\ MaxConcurrency \in Nat
  /\ MaxQueueBytes \in Nat
  /\ MaxQueueRequests \in Nat
  /\ PoolThreads \in Nat
  /\ StackLimit \in Nat
  /\ NoRequest \notin Requests

VARIABLES
  permits,          \* downloadSemaphore
  queuedCount,      \* downloadQueuedCount
  queueBytes,       \* downloadQueueBytesLimiter
  queue,            \* downloadQueue
  drainInProgress,  \* downloadDrainInProgress
  entry,            \* QueuedDownloadRequest.active, and who cleared it
  result,           \* the DeferredResult of each request
  pc,               \* where the handler thread of each request is
  next,             \* the request its drain loop has taken
  depth,            \* drains nested in each other on its stack
  cb,               \* where the container thread that answers its timeout is
  stream,           \* the response body of each request
  offers,           \* history: requests in the order they were queued
  freed             \* history: a body ended, or a drain ran out of stack, since a
                    \* drain last took a permit

shared == <<permits, queuedCount, queueBytes, queue, drainInProgress>>
request == <<entry, result>>
handler == <<pc, next, depth>>
history == <<offers, freed>>
vars == <<shared, request, handler, cb, stream, history>>

EntryStates == {"none", "active", "claimed", "cancelled", "leaked"}
Results == {"none", "body", "4xx", "503"}
HandlerLabels ==
  {"new", "checkCount", "tryFast", "fastDeliver", "reserve", "countUp", "countDown",
   "unreserve", "refuse", "offer", "drain", "acquire", "poll", "emptyRelease", "claim",
   "dec", "free", "deliver", "dispatch", "giveBack", "nested", "exit", "recheckCount",
   "recheckPermits", "return", "returned", "overflowed"}
CallbackLabels == {"quiet", "claim", "remove", "dec", "free", "answer", "done"}
StreamStates == {"none", "accepted", "submitted", "running", "done", "lost"}

CountersOK == permits \in Nat /\ queuedCount \in Nat /\ queueBytes \in Nat

ControlOK ==
  /\ queue \in Seq(Requests)
  /\ drainInProgress \in BOOLEAN
  /\ entry \in [Requests -> EntryStates]
  /\ result \in [Requests -> Results]
  /\ pc \in [Requests -> HandlerLabels]
  /\ next \in [Requests -> Requests \cup {NoRequest}]
  /\ depth \in [Requests -> 0..StackLimit]
  /\ cb \in [Requests -> CallbackLabels]
  /\ stream \in [Requests -> StreamStates]
  /\ offers \in Seq(Requests)
  /\ freed \in BOOLEAN

(* No counter goes below zero, and every variable keeps its type.          *)
TypeOK == CountersOK /\ ControlOK

Init ==
  /\ permits = MaxConcurrency
  /\ queuedCount = 0
  /\ queueBytes = 0
  /\ queue = <<>>
  /\ drainInProgress = FALSE
  /\ entry = [r \in Requests |-> "none"]
  /\ result = [r \in Requests |-> "none"]
  /\ pc = [r \in Requests |-> "new"]
  /\ next = [r \in Requests |-> NoRequest]
  /\ depth = [r \in Requests |-> 0]
  /\ cb = [r \in Requests |-> "quiet"]
  /\ stream = [r \in Requests |-> "none"]
  /\ offers = <<>>
  /\ freed = FALSE

Goto(r, from, to) == pc[r] = from /\ pc' = [pc EXCEPT ![r] = to]
Callback(r, from, to) == cb[r] = from /\ cb' = [cb EXCEPT ![r] = to]

-----------------------------------------------------------------------------
(* Plausible errors in the code, which the properties must notice.         *)

(* The count is compared before it is raised.                              *)
CountUpOffByOne(r) ==
  /\ Goto(r, "countUp", IF queuedCount > MaxQueueRequests THEN "countDown" ELSE "offer")
  /\ queuedCount' = queuedCount + 1
  /\ UNCHANGED <<permits, queueBytes, queue, drainInProgress, request, next, depth,
                 cb, stream, history>>

(* The count is not rolled back.                                           *)
CountDownForgotten(r) ==
  /\ Goto(r, "countDown", "unreserve")
  /\ UNCHANGED <<shared, request, next, depth, cb, stream, history>>

(* The bytes are not rolled back.                                          *)
UnreserveForgotten(r) ==
  /\ Goto(r, "unreserve", "refuse")
  /\ UNCHANGED <<shared, request, next, depth, cb, stream, history>>

(* The count is rolled back a second time, with the bytes.                 *)
UnreserveTwice(r) ==
  /\ Goto(r, "unreserve", "refuse")
  /\ queueBytes' = Refunded(queueBytes, Size[r])
  /\ queuedCount' = queuedCount - 1
  /\ UNCHANGED <<permits, queue, drainInProgress, request, next, depth, cb, stream,
                 history>>

(* The newest request is put at the front of the queue.                    *)
OfferFirst(r) ==
  /\ Goto(r, "offer", "drain")
  /\ queue' = <<r>> \o queue
  /\ entry' = [entry EXCEPT ![r] = "active"]
  /\ offers' = Append(offers, r)
  /\ UNCHANGED <<permits, queuedCount, queueBytes, drainInProgress, result, next, depth,
                 cb, stream, freed>>

(* The drain flag is set without looking at it.                            *)
DrainEnterUnguarded(r) ==
  /\ Goto(r, "drain", "acquire")
  /\ drainInProgress' = TRUE
  /\ UNCHANGED <<permits, queuedCount, queueBytes, queue, request, next, depth,
                 cb, stream, history>>

(* The drain loop clears active without looking at it.                     *)
ClaimUnguarded(r) ==
  /\ Goto(r, "claim", "dec")
  /\ entry' = [entry EXCEPT ![next[r]] = "claimed"]
  /\ UNCHANGED <<shared, result, next, depth, cb, stream, history>>

(* A refused result keeps its permit.                                      *)
GiveBackForgotten(r) ==
  /\ Goto(r, "giveBack", "nested")
  /\ UNCHANGED <<shared, request, next, depth, cb, stream, history>>

(* The drain flag is a lock: the nested call waits for it to be free.      *)
NestedDrainWaits(r) ==
  /\ ~drainInProgress
  /\ Goto(r, "nested", "acquire")
  /\ drainInProgress' = TRUE
  /\ UNCHANGED <<permits, queuedCount, queueBytes, queue, request, next, depth,
                 cb, stream, history>>

(* The drain ends without looking again.                                   *)
RecheckForgotten(r) ==
  /\ Goto(r, "recheckCount", "return")
  /\ UNCHANGED <<shared, request, next, depth, cb, stream, history>>

-----------------------------------------------------------------------------
(* downloadFile up to the drain.                                           *)

(* The rate limiter refuses, or the file has no row (lines 158-174): 429   *)
(* or 404, which nothing here tells apart.                                 *)
EarlyAnswer(r) ==
  /\ Goto(r, "new", "return")
  /\ result' = [result EXCEPT ![r] = "4xx"]
  /\ UNCHANGED <<shared, entry, next, depth, cb, stream, history>>

Admit(r) ==
  /\ Goto(r, "new", "checkCount")
  /\ UNCHANGED <<shared, request, next, depth, cb, stream, history>>

CheckCount(r) ==
  /\ Goto(r, "checkCount", IF queuedCount = 0 THEN "tryFast" ELSE "reserve")
  /\ UNCHANGED <<shared, request, next, depth, cb, stream, history>>

TryFast(r) ==
  \/ /\ permits > 0
     /\ Goto(r, "tryFast", "fastDeliver")
     /\ permits' = permits - 1
     /\ UNCHANGED <<queuedCount, queueBytes, queue, drainInProgress, request, next, depth,
                    cb, stream, history>>
  \/ /\ permits = 0
     /\ Goto(r, "tryFast", "reserve")
     /\ UNCHANGED <<shared, request, next, depth, cb, stream, history>>

(* completeDownload before the handler returned: nobody else knows this    *)
(* DeferredResult yet, so setResult is accepted.                           *)
FastDeliver(r) ==
  /\ result[r] = "none"
  /\ Goto(r, "fastDeliver", "return")
  /\ result' = [result EXCEPT ![r] = "body"]
  /\ stream' = [stream EXCEPT ![r] = "accepted"]
  /\ UNCHANGED <<shared, entry, next, depth, cb, history>>

Reserve(r) ==
  \/ /\ Fits(queueBytes, Size[r], MaxQueueBytes)
     /\ Goto(r, "reserve", "countUp")
     /\ queueBytes' = Charged(queueBytes, Size[r])
     /\ UNCHANGED <<permits, queuedCount, queue, drainInProgress, request, next, depth,
                    cb, stream, history>>
  \/ /\ ~Fits(queueBytes, Size[r], MaxQueueBytes)
     /\ Goto(r, "reserve", "refuse")
     /\ UNCHANGED <<shared, request, next, depth, cb, stream, history>>

CountUp(r) ==
  /\ Goto(r, "countUp", IF queuedCount + 1 > MaxQueueRequests THEN "countDown" ELSE "offer")
  /\ queuedCount' = queuedCount + 1
  /\ UNCHANGED <<permits, queueBytes, queue, drainInProgress, request, next, depth,
                 cb, stream, history>>

CountDown(r) ==
  /\ Goto(r, "countDown", "unreserve")
  /\ queuedCount' = queuedCount - 1
  /\ UNCHANGED <<permits, queueBytes, queue, drainInProgress, request, next, depth,
                 cb, stream, history>>

Unreserve(r) ==
  /\ Goto(r, "unreserve", "refuse")
  /\ queueBytes' = Refunded(queueBytes, Size[r])
  /\ UNCHANGED <<permits, queuedCount, queue, drainInProgress, request, next, depth,
                 cb, stream, history>>

(* setDownloadUnavailable: 503 with Retry-After.                           *)
Refuse(r) ==
  /\ Goto(r, "refuse", "return")
  /\ result' = [result EXCEPT ![r] = "503"]
  /\ UNCHANGED <<shared, entry, next, depth, cb, stream, history>>

Offer(r) ==
  /\ Goto(r, "offer", "drain")
  /\ queue' = Append(queue, r)
  /\ entry' = [entry EXCEPT ![r] = "active"]
  /\ offers' = Append(offers, r)
  /\ UNCHANGED <<permits, queuedCount, queueBytes, drainInProgress, result, next, depth,
                 cb, stream, freed>>

-----------------------------------------------------------------------------
(* drainDownloadQueue, pollNextQueuedDownload and completeDownload.        *)

DrainEnter(r) ==
  /\ Goto(r, "drain", IF drainInProgress THEN "return" ELSE "acquire")
  /\ drainInProgress' = TRUE
  /\ UNCHANGED <<permits, queuedCount, queueBytes, queue, request, next, depth,
                 cb, stream, history>>

Acquire(r) ==
  \/ /\ permits > 0
     /\ Goto(r, "acquire", "poll")
     /\ permits' = permits - 1
     /\ freed' = FALSE
     /\ UNCHANGED <<queuedCount, queueBytes, queue, drainInProgress, request, next, depth,
                    cb, stream, offers>>
  \/ /\ permits = 0
     /\ Goto(r, "acquire", "exit")
     /\ UNCHANGED <<shared, request, next, depth, cb, stream, history>>

Poll(r) ==
  \/ /\ queue # <<>>
     /\ Goto(r, "poll", "claim")
     /\ next' = [next EXCEPT ![r] = Head(queue)]
     /\ queue' = Tail(queue)
     /\ UNCHANGED <<permits, queuedCount, queueBytes, drainInProgress, request, depth,
                    cb, stream, history>>
  \/ /\ queue = <<>>
     /\ Goto(r, "poll", "emptyRelease")
     /\ UNCHANGED <<shared, request, next, depth, cb, stream, history>>

EmptyRelease(r) ==
  /\ Goto(r, "emptyRelease", "exit")
  /\ permits' = permits + 1
  /\ UNCHANGED <<queuedCount, queueBytes, queue, drainInProgress, request, next, depth,
                 cb, stream, history>>

(* active.compareAndSet(true, false); a cancelled entry is skipped.        *)
Claim(r) ==
  \/ /\ Goto(r, "claim", "dec")
     /\ entry[next[r]] = "active"
     /\ entry' = [entry EXCEPT ![next[r]] = "claimed"]
     /\ UNCHANGED <<shared, result, next, depth, cb, stream, history>>
  \/ /\ Goto(r, "claim", "poll")
     /\ entry[next[r]] # "active"
     /\ next' = [next EXCEPT ![r] = NoRequest]
     /\ UNCHANGED <<shared, request, depth, cb, stream, history>>

DecCount(r) ==
  /\ Goto(r, "dec", "free")
  /\ queuedCount' = queuedCount - 1
  /\ UNCHANGED <<permits, queueBytes, queue, drainInProgress, request, next, depth,
                 cb, stream, history>>

FreeBytes(r) ==
  /\ Goto(r, "free", "deliver")
  /\ queueBytes' = Refunded(queueBytes, Size[next[r]])
  /\ UNCHANGED <<permits, queuedCount, queue, drainInProgress, request, next, depth,
                 cb, stream, history>>

(* setResult on the request that was taken.  If the handler of that        *)
(* request has already returned, this thread also dispatches the result.   *)
Deliver(r) ==
  LET q == next[r] IN
  \/ /\ pc[r] = "deliver"
     /\ result[q] = "none"
     /\ result' = [result EXCEPT ![q] = "body"]
     /\ stream' = [stream EXCEPT ![q] = "accepted"]
     /\ \/ /\ pc[q] \in {"returned", "overflowed"}
           /\ Goto(r, "deliver", "dispatch")
           /\ UNCHANGED next
        \/ /\ pc[q] \notin {"returned", "overflowed"}
           /\ Goto(r, "deliver", "acquire")
           /\ next' = [next EXCEPT ![r] = NoRequest]
     /\ UNCHANGED <<shared, entry, depth, cb, history>>
  \/ /\ Goto(r, "deliver", "giveBack")
     /\ result[q] # "none"
     /\ next' = [next EXCEPT ![r] = NoRequest]
     /\ UNCHANGED <<shared, request, depth, cb, stream, history>>

(* The container takes the accepted body, unless the request was completed *)
(* meanwhile or its handler failed before it could register: then the body *)
(* never runs.                                                             *)
Dispatch(r) ==
  LET q == next[r] IN
  /\ Goto(r, "dispatch", "acquire")
  /\ stream' = [stream EXCEPT
       ![q] = IF pc[q] = "returned" /\ cb[q] # "done" THEN "submitted" ELSE "lost"]
  /\ next' = [next EXCEPT ![r] = NoRequest]
  /\ UNCHANGED <<shared, request, depth, cb, history>>

(* setResult was refused: line 303 releases the permit.                    *)
GiveBack(r) ==
  /\ Goto(r, "giveBack", "nested")
  /\ permits' = permits + 1
  /\ UNCHANGED <<queuedCount, queueBytes, queue, drainInProgress, request, next, depth,
                 cb, stream, history>>

(* Line 304 calls drainDownloadQueue from inside the drain loop.           *)
NestedDrain(r) ==
  /\ drainInProgress
  /\ Goto(r, "nested", "acquire")
  /\ UNCHANGED <<shared, request, next, depth, cb, stream, history>>

Exit(r) ==
  /\ Goto(r, "exit", "recheckCount")
  /\ drainInProgress' = FALSE
  /\ UNCHANGED <<permits, queuedCount, queueBytes, queue, request, next, depth,
                 cb, stream, history>>

RecheckCount(r) ==
  /\ Goto(r, "recheckCount", IF queuedCount > 0 THEN "recheckPermits" ELSE "return")
  /\ UNCHANGED <<shared, request, next, depth, cb, stream, history>>

(* The drain calls itself from its finally block.                          *)
RecheckPermits(r) ==
  \/ /\ permits = 0
     /\ Goto(r, "recheckPermits", "return")
     /\ UNCHANGED <<shared, request, next, depth, cb, stream, history>>
  \/ /\ permits > 0
     /\ depth[r] < StackLimit
     /\ Goto(r, "recheckPermits", "drain")
     /\ depth' = [depth EXCEPT ![r] = depth[r] + 1]
     /\ UNCHANGED <<shared, request, next, cb, stream, history>>

(* No stack is left for the call: the handler ends with an Error, the      *)
(* client is sent a 500, and nothing will dispatch a result it was given.  *)
StackOverflow(r) ==
  /\ permits > 0
  /\ depth[r] = StackLimit
  /\ Goto(r, "recheckPermits", "overflowed")
  /\ stream' = [stream EXCEPT ![r] = IF stream[r] = "accepted" THEN "lost" ELSE stream[r]]
  /\ freed' = TRUE
  /\ UNCHANGED <<shared, request, next, depth, cb, offers>>

(* The handler returns; a result it was given already is dispatched.       *)
Return(r) ==
  /\ Goto(r, "return", "returned")
  /\ stream' = [stream EXCEPT ![r] = IF stream[r] = "accepted" THEN "submitted" ELSE stream[r]]
  /\ depth' = [depth EXCEPT ![r] = 0]
  /\ UNCHANGED <<shared, request, next, cb, history>>

-----------------------------------------------------------------------------
(* The callbacks of a request that is waiting, and cancelQueuedRequest.    *)

(* queue-timeout-ms has passed, or the container saw the connection fail.  *)
(* Both callbacks cancel the request (lines 202-209).                      *)
ContainerEvent(r) ==
  /\ pc[r] = "returned"
  /\ result[r] = "none" \/ stream[r] = "accepted"
  /\ Callback(r, "quiet", "claim")
  /\ UNCHANGED <<shared, request, handler, stream, history>>

CancelClaim(r) ==
  \/ /\ entry[r] = "active"
     /\ Callback(r, "claim", "remove")
     /\ entry' = [entry EXCEPT ![r] = "cancelled"]
     /\ UNCHANGED <<shared, result, handler, stream, history>>
  \/ /\ entry[r] # "active"
     /\ Callback(r, "claim", "answer")
     /\ UNCHANGED <<shared, request, handler, stream, history>>

(* The drain loop may have polled the entry already.                       *)
CancelRemove(r) ==
  \/ /\ Callback(r, "remove", "dec")
     /\ \E i \in DOMAIN queue : queue[i] = r /\ queue' = RemoveAt(queue, i)
     /\ UNCHANGED <<permits, queuedCount, queueBytes, drainInProgress, request, handler,
                    stream, history>>
  \/ /\ Callback(r, "remove", "answer")
     /\ r \notin Range(queue)
     /\ entry' = [entry EXCEPT ![r] = "leaked"]
     /\ UNCHANGED <<shared, result, handler, stream, history>>

CancelDec(r) ==
  /\ Callback(r, "dec", "free")
  /\ queuedCount' = queuedCount - 1
  /\ UNCHANGED <<permits, queueBytes, queue, drainInProgress, request, handler, stream, history>>

CancelFree(r) ==
  /\ Callback(r, "free", "answer")
  /\ queueBytes' = Refunded(queueBytes, Size[r])
  /\ UNCHANGED <<permits, queuedCount, queue, drainInProgress, request, handler, stream, history>>

(* setDownloadUnavailable after a timeout that could cancel, Spring's own  *)
(* answer otherwise: either way the request is answered, with an error,    *)
(* unless it has a result.                                                 *)
CallbackAnswer(r) ==
  /\ Callback(r, "answer", "done")
  /\ result' = [result EXCEPT ![r] = IF @ = "none" THEN "503" ELSE @]
  /\ UNCHANGED <<shared, entry, handler, stream, history>>

-----------------------------------------------------------------------------
(* The MVC executor (WebMvcAsyncConfig).                                   *)

Streaming == {r \in Requests : stream[r] = "running"}

StartBody(r) ==
  /\ stream[r] = "submitted"
  /\ Cardinality(Streaming) < PoolThreads
  /\ stream' = [stream EXCEPT ![r] = "running"]
  /\ UNCHANGED <<shared, request, handler, cb, history>>

(* The body ends, normally or not, and its finally releases the permit.    *)
FinishBody(r) ==
  /\ stream[r] = "running"
  /\ stream' = [stream EXCEPT ![r] = "done"]
  /\ permits' = permits + 1
  /\ freed' = TRUE
  /\ UNCHANGED <<queuedCount, queueBytes, queue, drainInProgress, request, handler,
                 cb, offers>>

(* The async timeout or a connection error while the body waits for a busy *)
(* executor cancels its task: the body never runs.                         *)
CancelBody(r) ==
  /\ stream[r] = "submitted"
  /\ Cardinality(Streaming) >= PoolThreads
  /\ stream' = [stream EXCEPT ![r] = "lost"]
  /\ UNCHANGED <<shared, request, handler, cb, history>>

-----------------------------------------------------------------------------
HandlerStep(r) ==
  \/ CheckCount(r) \/ TryFast(r) \/ FastDeliver(r)
  \/ Reserve(r) \/ CountUp(r) \/ CountDown(r) \/ Unreserve(r) \/ Refuse(r) \/ Offer(r)
  \/ DrainEnter(r) \/ Acquire(r) \/ Poll(r) \/ EmptyRelease(r) \/ Claim(r)
  \/ DecCount(r) \/ FreeBytes(r) \/ Deliver(r) \/ Dispatch(r) \/ GiveBack(r) \/ NestedDrain(r)
  \/ Exit(r) \/ RecheckCount(r) \/ RecheckPermits(r) \/ StackOverflow(r) \/ Return(r)

CallbackStep(r) ==
  CancelClaim(r) \/ CancelRemove(r) \/ CancelDec(r) \/ CancelFree(r) \/ CallbackAnswer(r)

Next ==
  \E r \in Requests :
    \/ EarlyAnswer(r) \/ Admit(r)
    \/ HandlerStep(r)
    \/ ContainerEvent(r) \/ CallbackStep(r)
    \/ StartBody(r) \/ FinishBody(r) \/ CancelBody(r)

Spec == Init /\ [][Next]_vars

(* Threads that can run do run, and the container's timer fires; clients   *)
(* and the end of a slow download are left free.                           *)
FairSpec ==
  /\ Spec
  /\ \A r \in Requests :
       WF_vars(HandlerStep(r)) /\ WF_vars(ContainerEvent(r) \/ CallbackStep(r))

-----------------------------------------------------------------------------
(* Who holds a permit: a handler between tryAcquire and handing it on, or  *)
(* a response body that has not released it.                               *)
HandlerPermits ==
  {r \in Requests : pc[r] \in {"fastDeliver", "poll", "emptyRelease", "claim", "dec", "free",
                               "deliver", "giveBack"}}
BodyPermits == {r \in Requests : stream[r] \in {"accepted", "submitted", "running", "lost"}}

(* No permit is created, dropped or held twice on any other path: fast     *)
(* path, drain, refused result, empty poll, end of the body.  The permit   *)
(* of a lost body is held forever, which BodyPermitsReturned denies.       *)
PermitsConserved ==
  permits + Cardinality(HandlerPermits) + Cardinality(BodyPermits) = MaxConcurrency

(* Whose count has not been given back: a handler about to queue or to     *)
(* roll back, an entry nobody has claimed, a claimed or cancelled entry    *)
(* whose decrement is still to come, and the leaked ones.                  *)
TakenAt(labels) == {next[d] : d \in {d \in Requests : pc[d] \in labels}}
SlotHolders ==
  {r \in Requests :
    \/ pc[r] \in {"countDown", "offer"}
    \/ entry[r] \in {"active", "leaked"}
    \/ entry[r] = "claimed" /\ r \in TakenAt({"dec"})
    \/ entry[r] = "cancelled" /\ cb[r] \in {"remove", "dec"}}

ByteHolders ==
  {r \in Requests :
    \/ pc[r] \in {"countUp", "countDown", "unreserve", "offer"}
    \/ entry[r] \in {"active", "leaked"}
    \/ entry[r] = "claimed" /\ r \in TakenAt({"dec", "free"})
    \/ entry[r] = "cancelled" /\ cb[r] \in {"remove", "dec", "free"}}

(* The counter and the byte budget agree with the entries that use them,   *)
(* while entries are queued, served and cancelled by different threads     *)
(* (lines 182-200, 215-226, 256-267): the only drift is that of the leaked *)
(* entries, and the budget is never exceeded.                              *)
SlotsConserved == queuedCount = Cardinality(SlotHolders)
BytesConserved ==
  /\ queueBytes = MapThenSumSet(LAMBDA r : Size[r], ByteHolders)
  /\ queueBytes <= MaxQueueBytes

(* max-queue-requests bounds the queue itself, although the counter is     *)
(* raised first and lowered again (lines 188-193).                         *)
QueueWithinLimit == Len(queue) <= MaxQueueRequests

(* A request whose timeout or error callback won the race for its entry is *)
(* never served, and one entry is never handed to two drain loops.         *)
EntryHasOneFate ==
  \A r \in Requests :
    /\ entry[r] \in {"cancelled", "leaked"} => result[r] # "body" /\ stream[r] = "none"
    /\ Cardinality({d \in Requests : next[d] = r}) <= 1

(* The drain that line 304 starts while a drain is running always finds    *)
(* the flag set by its own thread, so it never serves anybody.             *)
NestedDrainIsNoop == \A r \in Requests : pc[r] = "nested" => drainInProgress

(* What FileController.kt:284 says of every body, however it ends: its     *)
(* permit comes back.  When no thread is at work any more and no body is   *)
(* under way, all permits are there.                                       *)
ThreadsDone == \A r \in Requests : pc[r] \in {"new", "returned"} /\ cb[r] \in {"quiet", "done"}
BodyPermitsReturned ==
  ThreadsDone /\ (\A r \in Requests : stream[r] \in {"none", "done", "lost"})
    => permits = MaxConcurrency

(* What memo/bdg.md:303 says of every completion: its finally gives the    *)
(* permit back and drains again.  When no thread is at work any more, no   *)
(* request waits beside a free permit.                                     *)
Waiting == {r \in Requests : entry[r] = "active"}
CompletionDrains == ThreadsDone /\ Waiting # {} => permits = 0

(* The recheck of lines 248-252 closes the window between the last poll of *)
(* a drain and its reset of the flag: when every handler is done, a        *)
(* request waits beside a free permit only if a body has released it       *)
(* (CompletionDrains) or a drain ran out of stack, and no drain has taken  *)
(* a permit since.                                                         *)
HandlersDone == \A r \in Requests : pc[r] \in {"new", "returned", "overflowed"}
NoLostWakeup == HandlersDone /\ Waiting # {} /\ permits > 0 => freed

(* Every download that arrives comes to an end, without any help of other  *)
(* downloads: its handler returns and it has a result, or the handler ran  *)
(* out of stack and the client has a 500.                                  *)
EveryRequestAnswered ==
  []<>(\A r \in Requests :
         pc[r] \in {"new", "overflowed"} \/ (pc[r] = "returned" /\ result[r] # "none"))

(* The refinement mapping to the service that clients see.                 *)
Standing(s, e, answer) ==
  CASE s \in {"accepted", "submitted", "running"} -> "streaming"
    [] s \in {"done", "lost"} -> "closed"
    [] s = "none" /\ (answer # "none" \/ e \in {"cancelled", "leaked"}) -> "refused"
    [] s = "none" /\ answer = "none" /\ e = "active" -> "waiting"
    [] s = "none" /\ answer = "none" /\ e = "claimed" -> "chosen"
    [] s = "none" /\ answer = "none" /\ e = "none" -> "new"

Outcome == [r \in Requests |-> Standing(stream[r], entry[r], result[r])]

Service == INSTANCE DownloadService WITH outcome <- Outcome, line <- offers

(* At most MaxConcurrency bodies are open at once, the waiting line is     *)
(* bounded and is served strictly in the order of arrival, and an outcome  *)
(* never changes.                                                          *)
ImplementsService == Service!Spec
=============================================================================
