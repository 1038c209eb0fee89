------------------------- MODULE DownloadQueueProofs ------------------------
(***************************************************************************)
(* Proofs about DownloadQueue, for any finite set of requests and any      *)
(* limits.                                                                 *)
(***************************************************************************)
EXTENDS DownloadQueue, DataLemmas

-----------------------------------------------------------------------------
(* The inductive invariant.                                                *)

(* Labels before a request is queued or answered, labels at which next is  *)
(* in use, and labels inside the region that drainInProgress guards.       *)
FreshLabels ==
  {"new", "checkCount", "tryFast", "fastDeliver", "reserve", "countUp", "countDown",
   "unreserve", "refuse", "offer"}
TakenLabels == {"claim", "dec", "free", "deliver", "dispatch"}
DrainLabels == TakenLabels \cup {"acquire", "poll", "emptyRelease", "giveBack", "nested", "exit"}

(* The flag lets one thread into the drain loop at a time.                 *)
OneDrainer ==
  \A r \in Requests : pc[r] \in DrainLabels =>
    drainInProgress /\ \A d \in Requests : pc[d] \in DrainLabels => d = r

(* Nobody else knows a request that has not been queued.                   *)
Fresh ==
  \A r \in Requests : pc[r] \in FreshLabels =>
    entry[r] = "none" /\ result[r] = "none" /\ cb[r] = "quiet" /\ stream[r] = "none"

(* next is set exactly while the thread handles the request it has taken.  *)
NextInUse ==
  \A r \in Requests :
    /\ pc[r] \in TakenLabels => next[r] \in Requests
    /\ pc[r] \notin TakenLabels => next[r] = NoRequest

(* A polled entry is out of the queue, but not yet the drain's own.        *)
Polled ==
  \A r \in Requests : pc[r] = "claim" =>
    /\ entry[next[r]] \in {"active", "cancelled", "leaked"}
    /\ \A i \in DOMAIN queue : queue[i] # next[r]

(* A claimed entry belongs to the drain until it is delivered.             *)
Claimed ==
  \A r \in Requests : pc[r] \in {"dec", "free", "deliver", "dispatch"} => entry[next[r]] = "claimed"

(* A body waiting for dispatch belongs to a handler that has ended.        *)
Undispatched ==
  \A r \in Requests : pc[r] = "dispatch" =>
    stream[next[r]] = "accepted" /\ pc[next[r]] \in {"returned", "overflowed"}

(* What is in the queue waits or is being cancelled, and is there once.    *)
InQueue ==
  \A i \in DOMAIN queue :
    \/ entry[queue[i]] = "active"
    \/ entry[queue[i]] = "cancelled" /\ cb[queue[i]] = "remove"
Distinct == \A i, j \in DOMAIN queue : queue[i] = queue[j] => i = j

(* A callback that is cancelling owns the entry.                           *)
Cancelling == \A r \in Requests : cb[r] \in {"remove", "dec", "free"} => entry[r] = "cancelled"

(* Bodies belong to requests that were served, never to cancelled ones.    *)
Served ==
  \A r \in Requests :
    /\ stream[r] # "none" => result[r] = "body"
    /\ result[r] = "body" => entry[r] \in {"none", "claimed"}

Wiring ==
  /\ OneDrainer /\ Fresh /\ NextInUse /\ Polled /\ Claimed /\ Undispatched
  /\ InQueue /\ Distinct /\ Cancelling /\ Served

Inv == CountersOK /\ ControlOK /\ Wiring /\ PermitsConserved /\ SlotsConserved

(* What one step shows about the permits, and about the count.             *)
PermitsOK == permits \in Nat /\ PermitsConserved
SlotsOK == queuedCount \in Nat /\ SlotsConserved

-----------------------------------------------------------------------------
(* The wiring is preserved.                                                *)

(* A handler moves between labels that carry the same obligations, and     *)
(* touches nothing the wiring speaks of.                                   *)
SameDuties(from, to) ==
  /\ to \in FreshLabels => from \in FreshLabels
  /\ to \in DrainLabels => from \in DrainLabels
  /\ to \in TakenLabels <=> from \in TakenLabels
  /\ to = "claim" => from = "claim"
  /\ to \in {"dec", "free", "deliver"} => from \in {"dec", "free", "deliver"}
  /\ to # "dispatch"
  /\ from \notin {"returned", "overflowed"}

LEMMA QuietMove ==
  ASSUME Inv, NEW r \in Requests, NEW from \in HandlerLabels, NEW to \in HandlerLabels,
         SameDuties(from, to), Goto(r, from, to),
         UNCHANGED <<queue, drainInProgress, entry, result, next, cb, stream>>
  PROVE  Wiring'
<1> USE DEF Inv, ControlOK, Wiring, SameDuties, Goto
<1>1. OneDrainer' /\ Fresh'
  BY DEF OneDrainer, Fresh
<1>2. NextInUse' /\ Polled'
  BY DEF NextInUse, Polled, TakenLabels
<1>3. Claimed'
  BY DEF Claimed
<1>4. Undispatched'
  <2> SUFFICES ASSUME NEW d \in Requests, pc'[d] = "dispatch"
               PROVE  stream[next[d]] = "accepted" /\ pc'[next[d]] \in {"returned", "overflowed"}
    BY DEF Undispatched
  <2>1. d # r /\ pc[d] = "dispatch" /\ next[d] \in Requests
    BY DEF NextInUse, TakenLabels
  <2>2. next[d] # r
    BY <2>1 DEF Undispatched
  <2> QED
    BY <2>1, <2>2 DEF Undispatched
<1>5. InQueue' /\ Distinct' /\ Cancelling' /\ Served'
  BY DEF InQueue, Distinct, Cancelling, Served
<1> QED
  BY <1>1, <1>2, <1>3, <1>4, <1>5

(* A container thread moves without taking or leaving the entry.           *)
LEMMA QuietCallback ==
  ASSUME Inv, NEW r \in Requests, NEW from \in CallbackLabels, NEW to \in CallbackLabels,
         to \in {"remove", "dec", "free"} => from \in {"remove", "dec", "free"},
         from # "remove", pc[r] \notin FreshLabels, Callback(r, from, to),
         UNCHANGED <<queue, drainInProgress, entry, result, pc, next, stream>>
  PROVE  Wiring'
<1> USE DEF Inv, ControlOK, Wiring, Callback
<1>1. Fresh' /\ Cancelling'
  BY DEF Fresh, Cancelling
<1>2. InQueue'
  BY DEF InQueue
<1>3. OneDrainer' /\ NextInUse' /\ Polled' /\ Claimed' /\ Undispatched' /\ Distinct' /\ Served'
  BY DEF OneDrainer, NextInUse, Polled, Claimed, Undispatched, Distinct, Served
<1> QED
  BY <1>1, <1>2, <1>3

(* A body that has been dispatched moves on.                               *)
LEMMA BodyMove ==
  ASSUME Inv, NEW r \in Requests, NEW to \in StreamStates, stream[r] \in {"submitted", "running"},
         to # "none", stream' = [stream EXCEPT ![r] = to],
         UNCHANGED <<queue, drainInProgress, entry, result, pc, next, cb>>
  PROVE  Wiring'
<1> USE DEF Inv, ControlOK, Wiring
<1>1. Fresh' /\ Served'
  BY DEF Fresh, Served
<1>2. Undispatched'
  BY DEF Undispatched, NextInUse, TakenLabels
<1>3. OneDrainer' /\ NextInUse' /\ Polled' /\ Claimed' /\ InQueue' /\ Distinct' /\ Cancelling'
  BY DEF OneDrainer, NextInUse, Polled, Claimed, InQueue, Distinct, Cancelling
<1> QED
  BY <1>1, <1>2, <1>3

(* A handler ends; a body it was given may change hands.                   *)
LEMMA HandlerEnds ==
  ASSUME Inv, NEW r \in Requests, NEW to \in {"returned", "overflowed"},
         NEW from \in {"return", "recheckPermits"}, Goto(r, from, to),
         \E s \in StreamStates :
           stream' = [stream EXCEPT ![r] = s] /\ (s = "none" <=> stream[r] = "none"),
         UNCHANGED <<queue, drainInProgress, entry, result, next, cb>>
  PROVE  Wiring'
<1> USE DEF Inv, ControlOK, Wiring, Goto
<1>1. OneDrainer' /\ NextInUse' /\ Fresh'
  BY DEF OneDrainer, NextInUse, Fresh, DrainLabels, TakenLabels, FreshLabels
<1>2. Polled' /\ Claimed'
  BY DEF Polled, Claimed
<1>3. Undispatched'
  <2> SUFFICES ASSUME NEW d \in Requests, pc'[d] = "dispatch"
               PROVE  stream'[next[d]] = "accepted" /\ pc'[next[d]] \in {"returned", "overflowed"}
    BY DEF Undispatched
  <2>1. d # r /\ pc[d] = "dispatch" /\ next[d] \in Requests
    BY DEF NextInUse, TakenLabels
  <2>2. next[d] # r
    BY <2>1 DEF Undispatched
  <2> QED
    BY <2>1, <2>2 DEF Undispatched
<1>4. InQueue' /\ Distinct' /\ Cancelling' /\ Served'
  BY DEF InQueue, Distinct, Cancelling, Served
<1> QED
  BY <1>1, <1>2, <1>3, <1>4

(* Every step of a handler, a callback or a body preserves the wiring.     *)
LEMMA WiringStep == Inv /\ [Next]_vars => Wiring'
<1> SUFFICES ASSUME Inv, [Next]_vars PROVE Wiring'
  OBVIOUS
<1> USE DEF Inv, ControlOK, Wiring, shared, request, handler, history
<1> DEFINE Rest == <<queue, drainInProgress, entry, result, next, cb, stream>>
<1>1. ASSUME NEW r \in Requests, EarlyAnswer(r)
      PROVE  Wiring'
  <2>1. pc[r] = "new" /\ entry[r] = "none" /\ stream[r] = "none"
    BY <1>1 DEF EarlyAnswer, Goto, Fresh, FreshLabels
  <2>2. OneDrainer' /\ Fresh' /\ NextInUse'
    BY <1>1 DEF EarlyAnswer, Goto, OneDrainer, Fresh, NextInUse, DrainLabels, TakenLabels, FreshLabels
  <2>3. Polled' /\ Claimed' /\ Undispatched'
    BY <1>1 DEF EarlyAnswer, Goto, Polled, Claimed, Undispatched, NextInUse, TakenLabels
  <2>4. InQueue' /\ Distinct' /\ Cancelling' /\ Served'
    BY <1>1, <2>1 DEF EarlyAnswer, InQueue, Distinct, Cancelling, Served
  <2> QED
    BY <2>2, <2>3, <2>4
<1>2. ASSUME NEW r \in Requests, Admit(r) PROVE Wiring'
  <2>1. Goto(r, "new", "checkCount") /\ UNCHANGED Rest
    BY <1>2 DEF Admit
  <2> QED
    BY <2>1, QuietMove DEF SameDuties, HandlerLabels, FreshLabels, DrainLabels, TakenLabels
<1>3. ASSUME NEW r \in Requests, CheckCount(r) PROVE Wiring'
  <2>1. /\ Goto(r, "checkCount", "tryFast") \/ Goto(r, "checkCount", "reserve")
        /\ UNCHANGED Rest
    BY <1>3 DEF CheckCount
  <2> QED
    BY <2>1, QuietMove DEF SameDuties, HandlerLabels, FreshLabels, DrainLabels, TakenLabels
<1>4. ASSUME NEW r \in Requests, TryFast(r) PROVE Wiring'
  <2>1. /\ Goto(r, "tryFast", "fastDeliver") \/ Goto(r, "tryFast", "reserve")
        /\ UNCHANGED Rest
    BY <1>4 DEF TryFast
  <2> QED
    BY <2>1, QuietMove DEF SameDuties, HandlerLabels, FreshLabels, DrainLabels, TakenLabels
<1>5. ASSUME NEW r \in Requests, FastDeliver(r) PROVE Wiring'
  <2>1. pc[r] = "fastDeliver" /\ entry[r] = "none" /\ stream[r] = "none"
    BY <1>5 DEF FastDeliver, Goto, Fresh, FreshLabels
  <2>2. OneDrainer' /\ Fresh' /\ NextInUse'
    BY <1>5 DEF FastDeliver, Goto, OneDrainer, Fresh, NextInUse, DrainLabels, TakenLabels, FreshLabels
  <2>3. Polled' /\ Claimed'
    BY <1>5 DEF FastDeliver, Goto, Polled, Claimed, NextInUse, TakenLabels
  <2>4. Undispatched'
    BY <1>5, <2>1 DEF FastDeliver, Goto, Undispatched, NextInUse, TakenLabels
  <2>5. InQueue' /\ Distinct' /\ Cancelling' /\ Served'
    BY <1>5, <2>1 DEF FastDeliver, InQueue, Distinct, Cancelling, Served
  <2> QED
    BY <2>2, <2>3, <2>4, <2>5
<1>6. ASSUME NEW r \in Requests, Reserve(r) PROVE Wiring'
  <2>1. /\ Goto(r, "reserve", "countUp") \/ Goto(r, "reserve", "refuse")
        /\ UNCHANGED Rest
    BY <1>6 DEF Reserve
  <2> QED
    BY <2>1, QuietMove DEF SameDuties, HandlerLabels, FreshLabels, DrainLabels, TakenLabels
<1>7. ASSUME NEW r \in Requests, CountUp(r) PROVE Wiring'
  <2>1. /\ Goto(r, "countUp", "countDown") \/ Goto(r, "countUp", "offer")
        /\ UNCHANGED Rest
    BY <1>7 DEF CountUp
  <2> QED
    BY <2>1, QuietMove DEF SameDuties, HandlerLabels, FreshLabels, DrainLabels, TakenLabels
<1>8. ASSUME NEW r \in Requests, CountDown(r) PROVE Wiring'
  <2>1. Goto(r, "countDown", "unreserve") /\ UNCHANGED Rest
    BY <1>8 DEF CountDown
  <2> QED
    BY <2>1, QuietMove DEF SameDuties, HandlerLabels, FreshLabels, DrainLabels, TakenLabels
<1>9. ASSUME NEW r \in Requests, Unreserve(r) PROVE Wiring'
  <2>1. Goto(r, "unreserve", "refuse") /\ UNCHANGED Rest
    BY <1>9 DEF Unreserve
  <2> QED
    BY <2>1, QuietMove DEF SameDuties, HandlerLabels, FreshLabels, DrainLabels, TakenLabels
<1>10. ASSUME NEW r \in Requests, Refuse(r) PROVE Wiring'
  <2>1. pc[r] = "refuse" /\ entry[r] = "none" /\ stream[r] = "none"
    BY <1>10 DEF Refuse, Goto, Fresh, FreshLabels
  <2>2. OneDrainer' /\ Fresh' /\ NextInUse'
    BY <1>10 DEF Refuse, Goto, OneDrainer, Fresh, NextInUse, DrainLabels, TakenLabels, FreshLabels
  <2>3. Polled' /\ Claimed' /\ Undispatched'
    BY <1>10 DEF Refuse, Goto, Polled, Claimed, Undispatched, NextInUse, TakenLabels
  <2>4. InQueue' /\ Distinct' /\ Cancelling' /\ Served'
    BY <1>10, <2>1 DEF Refuse, InQueue, Distinct, Cancelling, Served
  <2> QED
    BY <2>2, <2>3, <2>4
<1>11. ASSUME NEW r \in Requests, Offer(r) PROVE Wiring'
  <2>1. pc[r] = "offer" /\ entry[r] = "none" /\ result[r] = "none" /\ cb[r] = "quiet"
    BY <1>11 DEF Offer, Goto, Fresh, FreshLabels
  <2>2. \A i \in DOMAIN queue : queue[i] # r
    BY <2>1 DEF InQueue
  <2>3. /\ DOMAIN queue' = DOMAIN queue \cup {Len(queue) + 1}
        /\ \A i \in DOMAIN queue : queue'[i] = queue[i]
        /\ queue'[Len(queue) + 1] = r
    BY <1>11 DEF Offer
  <2>4. OneDrainer' /\ Fresh' /\ NextInUse'
    BY <1>11 DEF Offer, Goto, OneDrainer, Fresh, NextInUse, DrainLabels, TakenLabels, FreshLabels
  <2>5. \A d \in Requests : pc'[d] \in TakenLabels => pc[d] = pc'[d] /\ next[d] \in Requests
    BY <1>11 DEF Offer, Goto, NextInUse, TakenLabels
  <2>6. Claimed' /\ Undispatched'
    BY <1>11, <2>1, <2>5 DEF Offer, Goto, Claimed, Undispatched, TakenLabels
  <2>7. Polled'
    BY <1>11, <2>1, <2>3, <2>5 DEF Offer, Polled, TakenLabels
  <2>8. InQueue' /\ Distinct'
    BY <1>11, <2>1, <2>2, <2>3 DEF Offer, InQueue, Distinct
  <2>9. Cancelling' /\ Served'
    BY <1>11, <2>1 DEF Offer, Cancelling, Served
  <2> QED
    BY <2>4, <2>6, <2>7, <2>8, <2>9
<1>12. ASSUME NEW r \in Requests, DrainEnter(r) PROVE Wiring'
  <2>1. Fresh' /\ NextInUse' /\ Polled' /\ Claimed'
    BY <1>12 DEF DrainEnter, Goto, Fresh, NextInUse, Polled, Claimed, TakenLabels, FreshLabels
  <2>2. OneDrainer'
    BY <1>12 DEF DrainEnter, Goto, OneDrainer, DrainLabels, TakenLabels
  <2>3. Undispatched'
    <3>1. \A d \in Requests : pc'[d] = "dispatch" => pc[d] = "dispatch" /\ next[d] \in Requests
      BY <1>12 DEF DrainEnter, Goto, NextInUse, TakenLabels
    <3> QED
      BY <1>12, <3>1 DEF DrainEnter, Goto, Undispatched
  <2>4. InQueue' /\ Distinct' /\ Cancelling' /\ Served'
    BY <1>12 DEF DrainEnter, InQueue, Distinct, Cancelling, Served
  <2> QED
    BY <2>1, <2>2, <2>3, <2>4
<1>13. ASSUME NEW r \in Requests, Acquire(r) PROVE Wiring'
  <2>1. /\ Goto(r, "acquire", "poll") \/ Goto(r, "acquire", "exit")
        /\ UNCHANGED Rest
    BY <1>13 DEF Acquire
  <2> QED
    BY <2>1, QuietMove DEF SameDuties, HandlerLabels, FreshLabels, DrainLabels, TakenLabels
<1>14. ASSUME NEW r \in Requests, Poll(r) PROVE Wiring'
  <2>1. CASE queue = <<>>
    <3>1. Goto(r, "poll", "emptyRelease") /\ UNCHANGED Rest
      BY <1>14, <2>1 DEF Poll
    <3> QED
      BY <3>1, QuietMove DEF SameDuties, HandlerLabels, FreshLabels, DrainLabels, TakenLabels
  <2>2. CASE queue # <<>>
    <3>1. /\ Goto(r, "poll", "claim")
          /\ next' = [next EXCEPT ![r] = queue[1]]
          /\ queue' = Tail(queue)
          /\ UNCHANGED <<drainInProgress, entry, result, cb, stream>>
      BY <1>14, <2>2 DEF Poll
    <3>2. /\ 1 \in DOMAIN queue /\ queue[1] \in Requests
          /\ \A i \in DOMAIN queue' : i + 1 \in DOMAIN queue /\ i + 1 # 1 /\ queue'[i] = queue[i + 1]
      BY <2>2, <3>1
    <3>3. OneDrainer' /\ Fresh'
      BY <3>1 DEF Goto, OneDrainer, Fresh, DrainLabels, TakenLabels, FreshLabels
    <3>4. NextInUse'
      BY <3>1, <3>2 DEF Goto, NextInUse, TakenLabels
    <3>5. \A d \in Requests : pc'[d] \in TakenLabels => d = r
      BY <3>1 DEF Goto, OneDrainer, DrainLabels
    <3>6. entry[queue[1]] \in {"active", "cancelled", "leaked"}
      BY <3>2 DEF InQueue
    <3>7. \A i \in DOMAIN queue' : queue'[i] # queue[1]
      BY <3>2 DEF Distinct
    <3>8. Polled' /\ Claimed' /\ Undispatched'
      BY <3>1, <3>5, <3>6, <3>7 DEF Goto, Polled, Claimed, Undispatched, TakenLabels
    <3>9. InQueue'
      BY <3>1, <3>2 DEF InQueue
    <3>10. Distinct'
      <4> SUFFICES ASSUME NEW i \in DOMAIN queue', NEW j \in DOMAIN queue', queue'[i] = queue'[j]
                   PROVE  i = j
        BY DEF Distinct
      <4>1. i + 1 = j + 1
        BY <3>2 DEF Distinct
      <4>2. i \in Int /\ j \in Int
        BY <3>1
      <4> QED
        BY <4>1, <4>2
    <3>11. Cancelling' /\ Served'
      BY <3>1 DEF Cancelling, Served
    <3> QED
      BY <3>3, <3>4, <3>8, <3>9, <3>10, <3>11
  <2> QED
    BY <2>1, <2>2
<1>15. ASSUME NEW r \in Requests, EmptyRelease(r) PROVE Wiring'
  <2>1. Goto(r, "emptyRelease", "exit") /\ UNCHANGED Rest
    BY <1>15 DEF EmptyRelease
  <2> QED
    BY <2>1, QuietMove DEF SameDuties, HandlerLabels, FreshLabels, DrainLabels, TakenLabels
<1>16. ASSUME NEW r \in Requests, Claim(r) PROVE Wiring'
  <2>1. /\ pc[r] = "claim" /\ next[r] \in Requests
        /\ entry[next[r]] \in {"active", "cancelled", "leaked"}
        /\ \A i \in DOMAIN queue : queue[i] # next[r]
    BY <1>16 DEF Claim, Goto, NextInUse, TakenLabels, Polled
  <2>2. CASE entry[next[r]] = "active"
    <3>1. /\ Goto(r, "claim", "dec")
          /\ entry' = [entry EXCEPT ![next[r]] = "claimed"]
          /\ UNCHANGED <<queue, drainInProgress, result, next, cb, stream>>
      BY <1>16, <2>2 DEF Claim
    <3>2. OneDrainer' /\ NextInUse'
      BY <3>1 DEF Goto, OneDrainer, NextInUse, DrainLabels, TakenLabels
    <3>3. Fresh'
      BY <2>2, <3>1 DEF Goto, Fresh, FreshLabels
    <3>4. \A d \in Requests : pc'[d] \in TakenLabels => d = r
      BY <3>1 DEF Goto, OneDrainer, DrainLabels, TakenLabels
    <3>5. Polled' /\ Claimed' /\ Undispatched'
      BY <2>1, <3>1, <3>4 DEF Goto, Polled, Claimed, Undispatched, TakenLabels
    <3>6. InQueue' /\ Distinct'
      BY <2>1, <3>1 DEF InQueue, Distinct
    <3>7. Cancelling'
      BY <2>2, <3>1 DEF Cancelling
    <3>8. Served'
      BY <2>1, <2>2, <3>1 DEF Served
    <3> QED
      BY <3>2, <3>3, <3>5, <3>6, <3>7, <3>8
  <2>3. CASE entry[next[r]] # "active"
    <3>1. /\ Goto(r, "claim", "poll")
          /\ next' = [next EXCEPT ![r] = NoRequest]
          /\ UNCHANGED <<queue, drainInProgress, entry, result, cb, stream>>
      BY <1>16, <2>3 DEF Claim
    <3>2. OneDrainer' /\ Fresh' /\ NextInUse'
      BY <3>1 DEF Goto, OneDrainer, Fresh, NextInUse, DrainLabels, TakenLabels, FreshLabels
    <3>3. \A d \in Requests : pc'[d] \notin TakenLabels
      BY <3>1 DEF Goto, OneDrainer, DrainLabels, TakenLabels
    <3>4. Polled' /\ Claimed' /\ Undispatched'
      BY <3>3 DEF Polled, Claimed, Undispatched, TakenLabels
    <3>5. InQueue' /\ Distinct' /\ Cancelling' /\ Served'
      BY <3>1 DEF InQueue, Distinct, Cancelling, Served
    <3> QED
      BY <3>2, <3>4, <3>5
  <2> QED
    BY <2>2, <2>3
<1>17. ASSUME NEW r \in Requests, DecCount(r) PROVE Wiring'
  <2>1. Goto(r, "dec", "free") /\ UNCHANGED Rest
    BY <1>17 DEF DecCount
  <2> QED
    BY <2>1, QuietMove DEF SameDuties, HandlerLabels, FreshLabels, DrainLabels, TakenLabels
<1>18. ASSUME NEW r \in Requests, FreeBytes(r) PROVE Wiring'
  <2>1. Goto(r, "free", "deliver") /\ UNCHANGED Rest
    BY <1>18 DEF FreeBytes
  <2> QED
    BY <2>1, QuietMove DEF SameDuties, HandlerLabels, FreshLabels, DrainLabels, TakenLabels
<1>19. ASSUME NEW r \in Requests, Deliver(r) PROVE Wiring'
  <2>1. /\ pc[r] = "deliver" /\ next[r] \in Requests /\ entry[next[r]] = "claimed"
        /\ pc[next[r]] \notin FreshLabels
    BY <1>19 DEF Deliver, Goto, NextInUse, TakenLabels, Claimed, Fresh
  <2>2. \A d \in Requests : pc[d] \in DrainLabels => d = r
    BY <2>1 DEF OneDrainer, DrainLabels, TakenLabels
  <2>3. CASE result[next[r]] = "none" /\ pc[next[r]] \in {"returned", "overflowed"}
    <3>1. /\ Goto(r, "deliver", "dispatch")
          /\ result' = [result EXCEPT ![next[r]] = "body"]
          /\ stream' = [stream EXCEPT ![next[r]] = "accepted"]
          /\ UNCHANGED <<queue, drainInProgress, entry, next, cb>>
      BY <1>19, <2>3 DEF Deliver
    <3>2. OneDrainer' /\ NextInUse'
      BY <3>1 DEF Goto, OneDrainer, NextInUse, DrainLabels, TakenLabels
    <3>3. Fresh'
      BY <2>1, <3>1 DEF Goto, Fresh, FreshLabels
    <3>4. next[r] # r
      BY <2>1, <2>3
    <3>5. \A d \in Requests : pc'[d] \in TakenLabels => d = r
      BY <2>2, <3>1 DEF Goto, DrainLabels
    <3>6. Polled' /\ Claimed' /\ Undispatched'
      BY <2>1, <2>3, <3>1, <3>4, <3>5 DEF Goto, Polled, Claimed, Undispatched, TakenLabels
    <3>7. InQueue' /\ Distinct' /\ Cancelling' /\ Served'
      BY <2>1, <3>1 DEF InQueue, Distinct, Cancelling, Served
    <3> QED
      BY <3>2, <3>3, <3>6, <3>7
  <2>4. CASE result[next[r]] = "none" /\ pc[next[r]] \notin {"returned", "overflowed"}
    <3>1. /\ Goto(r, "deliver", "acquire")
          /\ result' = [result EXCEPT ![next[r]] = "body"]
          /\ stream' = [stream EXCEPT ![next[r]] = "accepted"]
          /\ next' = [next EXCEPT ![r] = NoRequest]
          /\ UNCHANGED <<queue, drainInProgress, entry, cb>>
      BY <1>19, <2>4 DEF Deliver
    <3>2. OneDrainer' /\ NextInUse'
      BY <3>1 DEF Goto, OneDrainer, NextInUse, DrainLabels, TakenLabels
    <3>3. Fresh'
      BY <2>1, <3>1 DEF Goto, Fresh, FreshLabels
    <3>4. \A d \in Requests : pc'[d] \notin TakenLabels
      BY <2>2, <3>1 DEF Goto, DrainLabels, TakenLabels
    <3>5. Polled' /\ Claimed' /\ Undispatched'
      BY <3>4 DEF Polled, Claimed, Undispatched, TakenLabels
    <3>6. InQueue' /\ Distinct' /\ Cancelling' /\ Served'
      BY <2>1, <3>1 DEF InQueue, Distinct, Cancelling, Served
    <3> QED
      BY <3>2, <3>3, <3>5, <3>6
  <2>5. CASE result[next[r]] # "none"
    <3>1. /\ Goto(r, "deliver", "giveBack")
          /\ next' = [next EXCEPT ![r] = NoRequest]
          /\ UNCHANGED <<queue, drainInProgress, entry, result, cb, stream>>
      BY <1>19, <2>5 DEF Deliver
    <3>2. OneDrainer' /\ Fresh' /\ NextInUse'
      BY <3>1 DEF Goto, OneDrainer, Fresh, NextInUse, DrainLabels, TakenLabels, FreshLabels
    <3>3. \A d \in Requests : pc'[d] \notin TakenLabels
      BY <2>2, <3>1 DEF Goto, DrainLabels, TakenLabels
    <3>4. Polled' /\ Claimed' /\ Undispatched'
      BY <3>3 DEF Polled, Claimed, Undispatched, TakenLabels
    <3>5. InQueue' /\ Distinct' /\ Cancelling' /\ Served'
      BY <3>1 DEF InQueue, Distinct, Cancelling, Served
    <3> QED
      BY <3>2, <3>4, <3>5
  <2> QED
    BY <2>3, <2>4, <2>5
<1>20. ASSUME NEW r \in Requests, Dispatch(r) PROVE Wiring'
  <2>1. /\ pc[r] = "dispatch" /\ next[r] \in Requests
        /\ stream[next[r]] = "accepted" /\ pc[next[r]] \in {"returned", "overflowed"}
    BY <1>20 DEF Dispatch, Goto, NextInUse, TakenLabels, Undispatched
  <2>2. PICK s \in {"submitted", "lost"} : stream' = [stream EXCEPT ![next[r]] = s]
    BY <1>20 DEF Dispatch
  <2>3. /\ Goto(r, "dispatch", "acquire")
        /\ next' = [next EXCEPT ![r] = NoRequest]
        /\ UNCHANGED <<queue, drainInProgress, entry, result, cb>>
    BY <1>20 DEF Dispatch
  <2>4. OneDrainer' /\ NextInUse'
    BY <2>3 DEF Goto, OneDrainer, NextInUse, DrainLabels, TakenLabels
  <2>5. Fresh'
    BY <2>1, <2>2, <2>3 DEF Goto, Fresh, FreshLabels
  <2>6. \A d \in Requests : pc'[d] \notin TakenLabels
    BY <2>3 DEF Goto, OneDrainer, DrainLabels, TakenLabels
  <2>7. Polled' /\ Claimed' /\ Undispatched'
    BY <2>6 DEF Polled, Claimed, Undispatched, TakenLabels
  <2>8. InQueue' /\ Distinct' /\ Cancelling'
    BY <2>3 DEF InQueue, Distinct, Cancelling
  <2>9. Served'
    BY <2>1, <2>2, <2>3 DEF Served
  <2> QED
    BY <2>4, <2>5, <2>7, <2>8, <2>9
<1>21. ASSUME NEW r \in Requests, GiveBack(r) PROVE Wiring'
  <2>1. Goto(r, "giveBack", "nested") /\ UNCHANGED Rest
    BY <1>21 DEF GiveBack
  <2> QED
    BY <2>1, QuietMove DEF SameDuties, HandlerLabels, FreshLabels, DrainLabels, TakenLabels
<1>22. ASSUME NEW r \in Requests, NestedDrain(r) PROVE Wiring'
  <2>1. Goto(r, "nested", "acquire") /\ UNCHANGED Rest
    BY <1>22 DEF NestedDrain
  <2> QED
    BY <2>1, QuietMove DEF SameDuties, HandlerLabels, FreshLabels, DrainLabels, TakenLabels
<1>23. ASSUME NEW r \in Requests, Exit(r) PROVE Wiring'
  <2>1. \A d \in Requests : pc'[d] \notin DrainLabels
    BY <1>23 DEF Exit, Goto, OneDrainer, DrainLabels, TakenLabels
  <2>2. OneDrainer' /\ Fresh' /\ NextInUse'
    BY <1>23, <2>1 DEF Exit, Goto, OneDrainer, Fresh, NextInUse, DrainLabels, TakenLabels, FreshLabels
  <2>3. Polled' /\ Claimed' /\ Undispatched'
    BY <2>1 DEF Polled, Claimed, Undispatched, DrainLabels, TakenLabels
  <2>4. InQueue' /\ Distinct' /\ Cancelling' /\ Served'
    BY <1>23 DEF Exit, InQueue, Distinct, Cancelling, Served
  <2> QED
    BY <2>2, <2>3, <2>4
<1>24. ASSUME NEW r \in Requests, RecheckCount(r) PROVE Wiring'
  <2>1. /\ Goto(r, "recheckCount", "recheckPermits") \/ Goto(r, "recheckCount", "return")
        /\ UNCHANGED Rest
    BY <1>24 DEF RecheckCount
  <2> QED
    BY <2>1, QuietMove DEF SameDuties, HandlerLabels, FreshLabels, DrainLabels, TakenLabels
<1>25. ASSUME NEW r \in Requests, RecheckPermits(r) PROVE Wiring'
  <2>1. /\ Goto(r, "recheckPermits", "drain") \/ Goto(r, "recheckPermits", "return")
        /\ UNCHANGED Rest
    BY <1>25 DEF RecheckPermits
  <2> QED
    BY <2>1, QuietMove DEF SameDuties, HandlerLabels, FreshLabels, DrainLabels, TakenLabels
<1>26. ASSUME NEW r \in Requests, StackOverflow(r) PROVE Wiring'
  <2>1. /\ Goto(r, "recheckPermits", "overflowed")
        /\ \E s \in StreamStates : stream' = [stream EXCEPT ![r] = s] /\ (s = "none" <=> stream[r] = "none")
        /\ UNCHANGED <<queue, drainInProgress, entry, result, next, cb>>
    BY <1>26 DEF StackOverflow, StreamStates
  <2> QED
    BY <2>1, HandlerEnds
<1>27. ASSUME NEW r \in Requests, Return(r) PROVE Wiring'
  <2>1. /\ Goto(r, "return", "returned")
        /\ \E s \in StreamStates : stream' = [stream EXCEPT ![r] = s] /\ (s = "none" <=> stream[r] = "none")
        /\ UNCHANGED <<queue, drainInProgress, entry, result, next, cb>>
    BY <1>27 DEF Return, StreamStates
  <2> QED
    BY <2>1, HandlerEnds
<1>28. ASSUME NEW r \in Requests, ContainerEvent(r)
       PROVE  Wiring'
  <2>1. /\ Callback(r, "quiet", "claim") /\ pc[r] \notin FreshLabels
        /\ UNCHANGED <<queue, drainInProgress, entry, result, pc, next, stream>>
    BY <1>28 DEF ContainerEvent, FreshLabels
  <2> QED
    BY <2>1, QuietCallback DEF CallbackLabels
<1>29. ASSUME NEW r \in Requests, CancelClaim(r) PROVE Wiring'
  <2>1. pc[r] \notin FreshLabels
    BY <1>29 DEF CancelClaim, Callback, Fresh
  <2>2. CASE entry[r] = "active"
    <3>1. /\ Callback(r, "claim", "remove")
          /\ entry' = [entry EXCEPT ![r] = "cancelled"]
          /\ UNCHANGED <<queue, drainInProgress, result, pc, next, stream>>
      BY <1>29, <2>2 DEF CancelClaim
    <3>2. OneDrainer' /\ NextInUse' /\ Distinct' /\ Undispatched'
      BY <3>1 DEF OneDrainer, NextInUse, Distinct, Undispatched
    <3>3. Fresh'
      BY <2>1, <3>1 DEF Callback, Fresh
    <3>4. Polled' /\ Claimed'
      BY <2>2, <3>1 DEF Polled, Claimed, NextInUse, TakenLabels
    <3>5. InQueue'
      BY <3>1 DEF Callback, InQueue
    <3>6. Cancelling' /\ Served'
      BY <2>2, <3>1 DEF Callback, Cancelling, Served
    <3> QED
      BY <3>2, <3>3, <3>4, <3>5, <3>6
  <2>3. CASE entry[r] # "active"
    <3>1. /\ Callback(r, "claim", "answer")
          /\ UNCHANGED <<queue, drainInProgress, entry, result, pc, next, stream>>
      BY <1>29, <2>3 DEF CancelClaim
    <3> QED
      BY <2>1, <3>1, QuietCallback DEF CallbackLabels
  <2> QED
    BY <2>2, <2>3
<1>30. ASSUME NEW r \in Requests, CancelRemove(r) PROVE Wiring'
  <2>1. pc[r] \notin FreshLabels /\ entry[r] = "cancelled" /\ cb[r] = "remove"
    BY <1>30 DEF CancelRemove, Callback, Fresh, Cancelling
  <2>2. CASE r \in Range(queue)
    <3>1. /\ Callback(r, "remove", "dec")
          /\ UNCHANGED <<drainInProgress, entry, result, pc, next, stream>>
      BY <1>30, <2>2 DEF CancelRemove
    <3>2. PICK i \in DOMAIN queue : queue[i] = r /\ queue' = RemoveAt(queue, i)
      BY <1>30, <2>2 DEF CancelRemove
    <3>3. /\ DOMAIN queue' = 1 .. Len(queue) - 1
          /\ \A j \in DOMAIN queue' : queue'[j] = queue[IF j < i THEN j ELSE j + 1]
      BY <3>2, RemoveAtElements
    <3>4. \A j \in DOMAIN queue' :
            \E k \in DOMAIN queue : k = (IF j < i THEN j ELSE j + 1) /\ k # i /\ queue'[j] = queue[k]
      BY <3>2, <3>3
    <3>5. \A j \in DOMAIN queue' : queue'[j] # r
      BY <3>2, <3>4 DEF Distinct
    <3>6. OneDrainer' /\ NextInUse' /\ Claimed' /\ Undispatched' /\ Served'
      BY <3>1 DEF OneDrainer, NextInUse, Claimed, Undispatched, Served
    <3>7. Fresh' /\ Cancelling'
      BY <2>1, <3>1 DEF Callback, Fresh, Cancelling
    <3>8. Polled'
      BY <3>1, <3>4 DEF Polled
    <3>9. InQueue'
      BY <3>1, <3>4, <3>5 DEF Callback, InQueue
    <3>10. Distinct'
      <4> SUFFICES ASSUME NEW j \in DOMAIN queue', NEW k \in DOMAIN queue', queue'[j] = queue'[k]
                   PROVE  j = k
        BY DEF Distinct
      <4>1. (IF j < i THEN j ELSE j + 1) = (IF k < i THEN k ELSE k + 1)
        BY <3>4 DEF Distinct
      <4>2. i \in Int /\ j \in Int /\ k \in Int
        BY <3>2, <3>3
      <4> QED
        BY <4>1, <4>2
    <3> QED
      BY <3>6, <3>7, <3>8, <3>9, <3>10
  <2>3. CASE r \notin Range(queue)
    <3>1. /\ Callback(r, "remove", "answer")
          /\ entry' = [entry EXCEPT ![r] = "leaked"]
          /\ UNCHANGED <<queue, drainInProgress, result, pc, next, stream>>
      BY <1>30, <2>3 DEF CancelRemove, Range
    <3>2. \A i \in DOMAIN queue : queue[i] # r
      BY <2>3 DEF Range
    <3>3. OneDrainer' /\ NextInUse' /\ Distinct' /\ Undispatched'
      BY <3>1 DEF OneDrainer, NextInUse, Distinct, Undispatched
    <3>4. Fresh' /\ Cancelling'
      BY <2>1, <3>1 DEF Callback, Fresh, Cancelling
    <3>5. Polled' /\ Claimed'
      BY <2>1, <3>1 DEF Polled, Claimed, NextInUse, TakenLabels
    <3>6. InQueue'
      BY <3>1, <3>2 DEF Callback, InQueue
    <3>7. Served'
      BY <2>1, <3>1 DEF Served
    <3> QED
      BY <3>3, <3>4, <3>5, <3>6, <3>7
  <2> QED
    BY <2>2, <2>3
<1>31. ASSUME NEW r \in Requests, CancelDec(r) PROVE Wiring'
  <2>1. /\ Callback(r, "dec", "free") /\ pc[r] \notin FreshLabels
        /\ UNCHANGED <<queue, drainInProgress, entry, result, pc, next, stream>>
    BY <1>31 DEF CancelDec, Callback, Fresh
  <2> QED
    BY <2>1, QuietCallback DEF CallbackLabels
<1>32. ASSUME NEW r \in Requests, CancelFree(r) PROVE Wiring'
  <2>1. /\ Callback(r, "free", "answer") /\ pc[r] \notin FreshLabels
        /\ UNCHANGED <<queue, drainInProgress, entry, result, pc, next, stream>>
    BY <1>32 DEF CancelFree, Callback, Fresh
  <2> QED
    BY <2>1, QuietCallback DEF CallbackLabels
<1>33. ASSUME NEW r \in Requests, CallbackAnswer(r) PROVE Wiring'
  <2>1. /\ Callback(r, "answer", "done") /\ pc[r] \notin FreshLabels
        /\ UNCHANGED <<queue, drainInProgress, entry, pc, next, stream>>
    BY <1>33 DEF CallbackAnswer, Callback, Fresh
  <2>2. /\ \A q \in Requests : q # r => result'[q] = result[q]
        /\ result[r] # "none" => result'[r] = result[r]
        /\ result[r] = "none" => result'[r] = "503"
    BY <1>33 DEF CallbackAnswer
  <2>3. Fresh' /\ Cancelling'
    BY <2>1, <2>2 DEF Callback, Fresh, Cancelling
  <2>4. InQueue'
    BY <2>1 DEF Callback, InQueue
  <2>5. Served'
    BY <2>1, <2>2 DEF Served
  <2>6. OneDrainer' /\ NextInUse' /\ Polled' /\ Claimed' /\ Undispatched' /\ Distinct'
    BY <2>1 DEF OneDrainer, NextInUse, Polled, Claimed, Undispatched, Distinct
  <2> QED
    BY <2>3, <2>4, <2>5, <2>6
<1>34. ASSUME NEW r \in Requests, StartBody(r) PROVE Wiring'
  BY <1>34, BodyMove DEF StartBody, StreamStates
<1>35. ASSUME NEW r \in Requests, FinishBody(r) PROVE Wiring'
  BY <1>35, BodyMove DEF FinishBody, StreamStates
<1>36. ASSUME NEW r \in Requests, CancelBody(r) PROVE Wiring'
  BY <1>36, BodyMove DEF CancelBody, StreamStates
<1>37. CASE UNCHANGED vars
  BY <1>37 DEF vars, OneDrainer, Fresh, NextInUse, Polled, Claimed, Undispatched, InQueue,
     Distinct, Cancelling, Served
<1> QED
  BY <1>1, <1>2, <1>3, <1>4, <1>5, <1>6, <1>7, <1>8, <1>9, <1>10, <1>11, <1>12, <1>13,
     <1>14, <1>15, <1>16, <1>17, <1>18, <1>19, <1>20, <1>21, <1>22, <1>23, <1>24, <1>25,
     <1>26, <1>27, <1>28, <1>29, <1>30, <1>31, <1>32, <1>33, <1>34, <1>35, <1>36, <1>37
  DEF Next, HandlerStep, CallbackStep

-----------------------------------------------------------------------------
(* A handler stays among its labels.                                       *)
LEMMA GotoLabel ==
  ASSUME pc \in [Requests -> HandlerLabels], NEW r \in Requests, NEW from,
         NEW to \in HandlerLabels, Goto(r, from, to)
  PROVE  pc' \in [Requests -> HandlerLabels]
BY DEF Goto

(* Every step keeps the types of the control variables.                    *)
LEMMA ControlStep == Inv /\ [Next]_vars => ControlOK'
<1> SUFFICES ASSUME Inv, [Next]_vars PROVE ControlOK'
  OBVIOUS
<1> USE DEF Inv, ControlOK, HandlerLabels, CallbackLabels, EntryStates, Results, StreamStates,
            shared, request, handler, history
<1>1. ASSUME NEW r \in Requests, EarlyAnswer(r)
        PROVE ControlOK'
  BY <1>1 DEF EarlyAnswer, Goto
<1>2. ASSUME NEW r \in Requests, Admit(r) PROVE ControlOK'
  BY <1>2 DEF Admit, Goto
<1>3. ASSUME NEW r \in Requests, CheckCount(r) PROVE ControlOK'
  BY <1>3 DEF CheckCount, Goto
<1>4. ASSUME NEW r \in Requests, TryFast(r) PROVE ControlOK'
  BY <1>4 DEF TryFast, Goto
<1>5. ASSUME NEW r \in Requests, FastDeliver(r) PROVE ControlOK'
  BY <1>5 DEF FastDeliver, Goto
<1>6. ASSUME NEW r \in Requests, Reserve(r) PROVE ControlOK'
  BY <1>6 DEF Reserve, Goto
<1>7. ASSUME NEW r \in Requests, CountUp(r) PROVE ControlOK'
  BY <1>7 DEF CountUp, Goto
<1>8. ASSUME NEW r \in Requests, CountDown(r) PROVE ControlOK'
  BY <1>8 DEF CountDown, Goto
<1>9. ASSUME NEW r \in Requests, Unreserve(r) PROVE ControlOK'
  BY <1>9 DEF Unreserve, Goto
<1>10. ASSUME NEW r \in Requests, Refuse(r) PROVE ControlOK'
  BY <1>10 DEF Refuse, Goto
<1>11. ASSUME NEW r \in Requests, Offer(r) PROVE ControlOK'
  BY <1>11 DEF Offer, Goto
<1>12. ASSUME NEW r \in Requests, DrainEnter(r) PROVE ControlOK'
  BY <1>12 DEF DrainEnter, Goto
<1>13. ASSUME NEW r \in Requests, Acquire(r) PROVE ControlOK'
  BY <1>13 DEF Acquire, Goto
<1>14. ASSUME NEW r \in Requests, Poll(r) PROVE ControlOK'
  <2>1. /\ pc' \in [Requests -> HandlerLabels]
        /\ UNCHANGED <<drainInProgress, entry, result, depth, cb, stream, offers, freed>>
    BY <1>14 DEF Poll, Goto
  <2>2. queue' \in Seq(Requests) /\ next' \in [Requests -> Requests \cup {NoRequest}]
    <3>1. CASE queue = <<>>
      BY <1>14, <3>1 DEF Poll
    <3>2. CASE queue # <<>>
      <4>1. Head(queue) \in Requests /\ Tail(queue) \in Seq(Requests)
        BY <3>2
      <4> QED
        BY <1>14, <3>2, <4>1 DEF Poll
    <3> QED
      BY <3>1, <3>2
  <2> QED
    BY <2>1, <2>2
<1>15. ASSUME NEW r \in Requests, EmptyRelease(r) PROVE ControlOK'
  BY <1>15 DEF EmptyRelease, Goto
<1>16. ASSUME NEW r \in Requests, Claim(r) PROVE ControlOK'
  <2>1. pc' \in [Requests -> HandlerLabels]
    <3>1. Goto(r, "claim", "dec") \/ Goto(r, "claim", "poll")
      BY <1>16 DEF Claim
    <3> QED
      BY <3>1, GotoLabel
  <2>2. /\ entry' \in [Requests -> EntryStates]
        /\ next' \in [Requests -> Requests \cup {NoRequest}]
    BY <1>16 DEF Claim
  <2>3. UNCHANGED <<shared, result, depth, cb, stream, history>>
    BY <1>16 DEF Claim
  <2> QED
    BY <2>1, <2>2, <2>3
<1>17. ASSUME NEW r \in Requests, DecCount(r) PROVE ControlOK'
  BY <1>17 DEF DecCount, Goto
<1>18. ASSUME NEW r \in Requests, FreeBytes(r) PROVE ControlOK'
  BY <1>18 DEF FreeBytes, Goto
<1>19. ASSUME NEW r \in Requests, Deliver(r) PROVE ControlOK'
  <2>1. pc' \in [Requests -> HandlerLabels]
    <3>1. \/ Goto(r, "deliver", "dispatch") \/ Goto(r, "deliver", "acquire")
          \/ Goto(r, "deliver", "giveBack")
      BY <1>19 DEF Deliver
    <3> QED
      BY <3>1, GotoLabel
  <2>2. next' \in [Requests -> Requests \cup {NoRequest}]
    BY <1>19 DEF Deliver
  <2>3. result' \in [Requests -> Results] /\ stream' \in [Requests -> StreamStates]
    BY <1>19 DEF Deliver
  <2>4. UNCHANGED <<shared, entry, depth, cb, history>>
    BY <1>19 DEF Deliver
  <2> QED
    BY <2>1, <2>2, <2>3, <2>4
<1>20. ASSUME NEW r \in Requests, Dispatch(r) PROVE ControlOK'
  BY <1>20 DEF Dispatch, Goto
<1>21. ASSUME NEW r \in Requests, GiveBack(r) PROVE ControlOK'
  BY <1>21 DEF GiveBack, Goto
<1>22. ASSUME NEW r \in Requests, NestedDrain(r) PROVE ControlOK'
  BY <1>22 DEF NestedDrain, Goto
<1>23. ASSUME NEW r \in Requests, Exit(r) PROVE ControlOK'
  BY <1>23 DEF Exit, Goto
<1>24. ASSUME NEW r \in Requests, RecheckCount(r) PROVE ControlOK'
  BY <1>24 DEF RecheckCount, Goto
<1>25. ASSUME NEW r \in Requests, RecheckPermits(r) PROVE ControlOK'
  <2>1. /\ pc' \in [Requests -> HandlerLabels]
        /\ UNCHANGED <<queue, drainInProgress, entry, result, next, cb, stream, offers, freed>>
    BY <1>25 DEF RecheckPermits, Goto
  <2>2. depth' \in [Requests -> 0..StackLimit]
    <3>1. StackLimit \in Nat /\ depth[r] \in 0..StackLimit
      BY DownloadAssumption
    <3>2. CASE UNCHANGED depth
      BY <3>2
    <3>3. CASE depth[r] < StackLimit /\ depth' = [depth EXCEPT ![r] = depth[r] + 1]
      <4>1. depth[r] + 1 \in 0..StackLimit
        BY <3>1, <3>3
      <4> QED
        BY <3>3, <4>1
    <3> QED
      BY <1>25, <3>2, <3>3 DEF RecheckPermits
  <2> QED
    BY <2>1, <2>2
<1>26. ASSUME NEW r \in Requests, StackOverflow(r) PROVE ControlOK'
  BY <1>26 DEF StackOverflow, Goto
<1>27. ASSUME NEW r \in Requests, Return(r) PROVE ControlOK'
  BY <1>27, DownloadAssumption DEF Return, Goto
<1>28. ASSUME NEW r \in Requests, ContainerEvent(r)
        PROVE ControlOK'
  BY <1>28 DEF ContainerEvent, Callback
<1>29. ASSUME NEW r \in Requests, CancelClaim(r) PROVE ControlOK'
  BY <1>29 DEF CancelClaim, Callback
<1>30. ASSUME NEW r \in Requests, CancelRemove(r) PROVE ControlOK'
  <2>1. /\ cb' \in [Requests -> CallbackLabels] /\ entry' \in [Requests -> EntryStates]
        /\ UNCHANGED <<drainInProgress, result, pc, next, depth, stream, offers, freed>>
    BY <1>30 DEF CancelRemove, Callback
  <2>2. queue' \in Seq(Requests)
    <3>1. CASE UNCHANGED queue
      BY <3>1
    <3>2. ASSUME NEW i \in DOMAIN queue, queue' = RemoveAt(queue, i)
        PROVE queue' \in Seq(Requests)
      BY <3>2, RemoveAtElements
    <3> QED
      BY <1>30, <3>1, <3>2 DEF CancelRemove
  <2> QED
    BY <2>1, <2>2
<1>31. ASSUME NEW r \in Requests, CancelDec(r) PROVE ControlOK'
  BY <1>31 DEF CancelDec, Callback
<1>32. ASSUME NEW r \in Requests, CancelFree(r) PROVE ControlOK'
  BY <1>32 DEF CancelFree, Callback
<1>33. ASSUME NEW r \in Requests, CallbackAnswer(r) PROVE ControlOK'
  BY <1>33 DEF CallbackAnswer, Callback
<1>34. ASSUME NEW r \in Requests, StartBody(r) PROVE ControlOK'
  BY <1>34 DEF StartBody
<1>35. ASSUME NEW r \in Requests, FinishBody(r) PROVE ControlOK'
  BY <1>35 DEF FinishBody
<1>36. ASSUME NEW r \in Requests, CancelBody(r) PROVE ControlOK'
  BY <1>36 DEF CancelBody
<1>37. CASE UNCHANGED vars
  BY <1>37 DEF vars
<1> QED
    BY <1>1, <1>2, <1>3, <1>4, <1>5, <1>6, <1>7, <1>8, <1>9, <1>10, <1>11, <1>12, <1>13, <1>14,
     <1>15, <1>16, <1>17, <1>18, <1>19, <1>20, <1>21, <1>22, <1>23, <1>24, <1>25, <1>26, <1>27,
     <1>28, <1>29, <1>30, <1>31, <1>32, <1>33, <1>34, <1>35, <1>36, <1>37 DEF Next, HandlerStep,
     CallbackStep

-----------------------------------------------------------------------------
(* Counting the holders of permits and of queue slots.                     *)

(* One request joins a set of requests.                                    *)
LEMMA OneMore ==
  ASSUME NEW S \in SUBSET Requests, NEW r \in Requests, r \notin S
  PROVE  Cardinality(S) \in Nat /\ Cardinality(S \cup {r}) = Cardinality(S) + 1
<1>1. IsFiniteSet(S)
  BY DownloadAssumption, FS_Subset
<1> QED
  BY <1>1, FS_AddElement, FS_CardinalityType

(* One request leaves a set of requests.                                   *)
LEMMA OneLess ==
  ASSUME NEW S \in SUBSET Requests, NEW r \in S
  PROVE  Cardinality(S) \in Nat /\ Cardinality(S \ {r}) = Cardinality(S) - 1
<1>1. IsFiniteSet(S)
  BY DownloadAssumption, FS_Subset
<1> QED
  BY <1>1, FS_RemoveElement, FS_CardinalityType

(* Both sets of permit holders are finite.                                 *)
LEMMA PermitSets ==
  /\ HandlerPermits \in SUBSET Requests /\ BodyPermits \in SUBSET Requests
  /\ Cardinality(HandlerPermits) \in Nat /\ Cardinality(BodyPermits) \in Nat
<1>1. HandlerPermits \in SUBSET Requests /\ BodyPermits \in SUBSET Requests
  BY DEF HandlerPermits, BodyPermits
<1> QED
  BY <1>1, DownloadAssumption, FS_Subset, FS_CardinalityType

(* A step that takes and gives no permit.                                  *)
LEMMA SamePermits ==
  ASSUME Inv, permits' = permits,
         HandlerPermits' = HandlerPermits, BodyPermits' = BodyPermits
  PROVE  PermitsOK'
  BY DEF Inv, CountersOK, PermitsConserved, PermitsOK

(* A handler takes a permit.                                               *)
LEMMA PermitTaken ==
  ASSUME Inv, NEW r \in Requests, permits > 0, permits' = permits - 1, r \notin HandlerPermits,
         HandlerPermits' = HandlerPermits \cup {r}, BodyPermits' = BodyPermits
  PROVE  PermitsOK'
<1>1. Cardinality(HandlerPermits') = Cardinality(HandlerPermits) + 1
  BY OneMore, PermitSets
<1> QED
  BY <1>1, PermitSets DEF Inv, CountersOK, PermitsConserved, PermitsOK

(* A handler returns its permit.                                           *)
LEMMA PermitReturned ==
  ASSUME Inv, NEW r \in HandlerPermits, permits' = permits + 1,
         HandlerPermits' = HandlerPermits \ {r}, BodyPermits' = BodyPermits
  PROVE  PermitsOK'
<1>1. Cardinality(HandlerPermits') = Cardinality(HandlerPermits) - 1
  BY OneLess, PermitSets
<1> QED
  BY <1>1, PermitSets DEF Inv, CountersOK, PermitsConserved, PermitsOK

(* A handler passes its permit on to a response body.                      *)
LEMMA PermitPassedOn ==
  ASSUME Inv, NEW r \in HandlerPermits, NEW q \in Requests, q \notin BodyPermits,
         HandlerPermits' = HandlerPermits \ {r}, BodyPermits' = BodyPermits \cup {q},
         permits' = permits
  PROVE  PermitsOK'
<1>1. Cardinality(HandlerPermits') = Cardinality(HandlerPermits) - 1
  BY OneLess, PermitSets
<1>2. Cardinality(BodyPermits') = Cardinality(BodyPermits) + 1
  BY OneMore, PermitSets
<1> QED
  BY <1>1, <1>2, PermitSets DEF Inv, CountersOK, PermitsConserved, PermitsOK

(* A body returns its permit.                                              *)
LEMMA BodyEnded ==
  ASSUME Inv, NEW r \in BodyPermits, permits' = permits + 1,
         HandlerPermits' = HandlerPermits, BodyPermits' = BodyPermits \ {r}
  PROVE  PermitsOK'
<1>1. Cardinality(BodyPermits') = Cardinality(BodyPermits) - 1
  BY OneLess, PermitSets
<1> QED
  BY <1>1, PermitSets DEF Inv, CountersOK, PermitsConserved, PermitsOK

(* Permits are conserved by every step.                                    *)
LEMMA PermitsStep == Inv /\ [Next]_vars => PermitsOK'
<1> SUFFICES ASSUME Inv, [Next]_vars PROVE PermitsOK'
  OBVIOUS
<1> USE DEF Inv, CountersOK, ControlOK, Wiring, shared, request, handler, history
<1>1. ASSUME NEW r \in Requests, EarlyAnswer(r)
        PROVE PermitsOK'
  BY <1>1, SamePermits DEF EarlyAnswer, Goto, HandlerPermits, BodyPermits
<1>2. ASSUME NEW r \in Requests, Admit(r) PROVE PermitsOK'
  BY <1>2, SamePermits DEF Admit, Goto, HandlerPermits, BodyPermits
<1>3. ASSUME NEW r \in Requests, CheckCount(r) PROVE PermitsOK'
  BY <1>3, SamePermits DEF CheckCount, Goto, HandlerPermits, BodyPermits
<1>4. ASSUME NEW r \in Requests, TryFast(r) PROVE PermitsOK'
  <2>1. CASE permits = 0
    BY <1>4, <2>1, SamePermits DEF TryFast, Goto, HandlerPermits, BodyPermits
  <2>2. CASE permits > 0
    <3>1. HandlerPermits' = HandlerPermits \cup {r} /\ r \notin HandlerPermits
      BY <1>4, <2>2 DEF TryFast, Goto, HandlerPermits
    <3>2. BodyPermits' = BodyPermits /\ permits' = permits - 1
      BY <1>4, <2>2 DEF TryFast, BodyPermits
    <3> QED
      BY <2>2, <3>1, <3>2, PermitTaken
  <2> QED
    BY <2>1, <2>2
<1>5. ASSUME NEW r \in Requests, FastDeliver(r) PROVE PermitsOK'
  <2>1. stream[r] = "none" /\ pc[r] = "fastDeliver"
    BY <1>5 DEF FastDeliver, Goto, Fresh, FreshLabels
  <2>2. HandlerPermits' = HandlerPermits \ {r} /\ r \in HandlerPermits
    BY <1>5 DEF FastDeliver, Goto, HandlerPermits
  <2>3. BodyPermits' = BodyPermits \cup {r} /\ r \notin BodyPermits /\ permits' = permits
    BY <1>5, <2>1 DEF FastDeliver, BodyPermits
  <2> QED
    BY <2>2, <2>3, PermitPassedOn
<1>6. ASSUME NEW r \in Requests, Reserve(r) PROVE PermitsOK'
  BY <1>6, SamePermits DEF Reserve, Goto, HandlerPermits, BodyPermits
<1>7. ASSUME NEW r \in Requests, CountUp(r) PROVE PermitsOK'
  BY <1>7, SamePermits DEF CountUp, Goto, HandlerPermits, BodyPermits
<1>8. ASSUME NEW r \in Requests, CountDown(r) PROVE PermitsOK'
  BY <1>8, SamePermits DEF CountDown, Goto, HandlerPermits, BodyPermits
<1>9. ASSUME NEW r \in Requests, Unreserve(r) PROVE PermitsOK'
  BY <1>9, SamePermits DEF Unreserve, Goto, HandlerPermits, BodyPermits
<1>10. ASSUME NEW r \in Requests, Refuse(r) PROVE PermitsOK'
  BY <1>10, SamePermits DEF Refuse, Goto, HandlerPermits, BodyPermits
<1>11. ASSUME NEW r \in Requests, Offer(r) PROVE PermitsOK'
  BY <1>11, SamePermits DEF Offer, Goto, HandlerPermits, BodyPermits
<1>12. ASSUME NEW r \in Requests, DrainEnter(r) PROVE PermitsOK'
  BY <1>12, SamePermits DEF DrainEnter, Goto, HandlerPermits, BodyPermits
<1>13. ASSUME NEW r \in Requests, Acquire(r) PROVE PermitsOK'
  <2>1. CASE permits = 0
    BY <1>13, <2>1, SamePermits DEF Acquire, Goto, HandlerPermits, BodyPermits
  <2>2. CASE permits > 0
    <3>1. HandlerPermits' = HandlerPermits \cup {r} /\ r \notin HandlerPermits
      BY <1>13, <2>2 DEF Acquire, Goto, HandlerPermits
    <3>2. BodyPermits' = BodyPermits /\ permits' = permits - 1
      BY <1>13, <2>2 DEF Acquire, BodyPermits
    <3> QED
      BY <2>2, <3>1, <3>2, PermitTaken
  <2> QED
    BY <2>1, <2>2
<1>14. ASSUME NEW r \in Requests, Poll(r) PROVE PermitsOK'
  BY <1>14, SamePermits DEF Poll, Goto, HandlerPermits, BodyPermits
<1>15. ASSUME NEW r \in Requests, EmptyRelease(r) PROVE PermitsOK'
  <2>1. HandlerPermits' = HandlerPermits \ {r} /\ r \in HandlerPermits
    BY <1>15 DEF EmptyRelease, Goto, HandlerPermits
  <2>2. BodyPermits' = BodyPermits /\ permits' = permits + 1
    BY <1>15 DEF EmptyRelease, BodyPermits
  <2> QED
    BY <2>1, <2>2, PermitReturned
<1>16. ASSUME NEW r \in Requests, Claim(r) PROVE PermitsOK'
  BY <1>16, SamePermits DEF Claim, Goto, HandlerPermits, BodyPermits
<1>17. ASSUME NEW r \in Requests, DecCount(r) PROVE PermitsOK'
  BY <1>17, SamePermits DEF DecCount, Goto, HandlerPermits, BodyPermits
<1>18. ASSUME NEW r \in Requests, FreeBytes(r) PROVE PermitsOK'
  BY <1>18, SamePermits DEF FreeBytes, Goto, HandlerPermits, BodyPermits
<1>19. ASSUME NEW r \in Requests, Deliver(r) PROVE PermitsOK'
  <2>1. pc[r] = "deliver" /\ next[r] \in Requests
    BY <1>19 DEF Deliver, Goto, NextInUse, TakenLabels
  <2>2. CASE result[next[r]] = "none"
    <3>1. stream[next[r]] = "none"
      BY <2>1, <2>2 DEF Served
    <3>2. HandlerPermits' = HandlerPermits \ {r} /\ r \in HandlerPermits
      BY <1>19, <2>1, <2>2 DEF Deliver, Goto, HandlerPermits
    <3>3. /\ BodyPermits' = BodyPermits \cup {next[r]} /\ next[r] \notin BodyPermits
          /\ permits' = permits
      BY <1>19, <2>1, <2>2, <3>1 DEF Deliver, BodyPermits
    <3> QED
      BY <2>1, <3>2, <3>3, PermitPassedOn
  <2>3. CASE result[next[r]] # "none"
    BY <1>19, <2>3, SamePermits DEF Deliver, Goto, HandlerPermits, BodyPermits
  <2> QED
    BY <2>2, <2>3
<1>20. ASSUME NEW r \in Requests, Dispatch(r) PROVE PermitsOK'
  <2>1. next[r] \in Requests /\ stream[next[r]] = "accepted"
    BY <1>20 DEF Dispatch, Goto, NextInUse, TakenLabels, Undispatched
  <2> QED
    BY <1>20, <2>1, SamePermits DEF Dispatch, Goto, HandlerPermits, BodyPermits
<1>21. ASSUME NEW r \in Requests, GiveBack(r) PROVE PermitsOK'
  <2>1. HandlerPermits' = HandlerPermits \ {r} /\ r \in HandlerPermits
    BY <1>21 DEF GiveBack, Goto, HandlerPermits
  <2>2. BodyPermits' = BodyPermits /\ permits' = permits + 1
    BY <1>21 DEF GiveBack, BodyPermits
  <2> QED
    BY <2>1, <2>2, PermitReturned
<1>22. ASSUME NEW r \in Requests, NestedDrain(r) PROVE PermitsOK'
  BY <1>22, SamePermits DEF NestedDrain, Goto, HandlerPermits, BodyPermits
<1>23. ASSUME NEW r \in Requests, Exit(r) PROVE PermitsOK'
  BY <1>23, SamePermits DEF Exit, Goto, HandlerPermits, BodyPermits
<1>24. ASSUME NEW r \in Requests, RecheckCount(r) PROVE PermitsOK'
  BY <1>24, SamePermits DEF RecheckCount, Goto, HandlerPermits, BodyPermits
<1>25. ASSUME NEW r \in Requests, RecheckPermits(r) PROVE PermitsOK'
  BY <1>25, SamePermits DEF RecheckPermits, Goto, HandlerPermits, BodyPermits
<1>26. ASSUME NEW r \in Requests, StackOverflow(r) PROVE PermitsOK'
  BY <1>26, SamePermits DEF StackOverflow, Goto, HandlerPermits, BodyPermits
<1>27. ASSUME NEW r \in Requests, Return(r) PROVE PermitsOK'
  BY <1>27, SamePermits DEF Return, Goto, HandlerPermits, BodyPermits
<1>28. ASSUME NEW r \in Requests, ContainerEvent(r)
        PROVE PermitsOK'
  BY <1>28, SamePermits DEF ContainerEvent, Callback, HandlerPermits, BodyPermits
<1>29. ASSUME NEW r \in Requests, CancelClaim(r) PROVE PermitsOK'
  BY <1>29, SamePermits DEF CancelClaim, Callback, HandlerPermits, BodyPermits
<1>30. ASSUME NEW r \in Requests, CancelRemove(r) PROVE PermitsOK'
  BY <1>30, SamePermits DEF CancelRemove, Callback, HandlerPermits, BodyPermits
<1>31. ASSUME NEW r \in Requests, CancelDec(r) PROVE PermitsOK'
  BY <1>31, SamePermits DEF CancelDec, Callback, HandlerPermits, BodyPermits
<1>32. ASSUME NEW r \in Requests, CancelFree(r) PROVE PermitsOK'
  BY <1>32, SamePermits DEF CancelFree, Callback, HandlerPermits, BodyPermits
<1>33. ASSUME NEW r \in Requests, CallbackAnswer(r) PROVE PermitsOK'
  BY <1>33, SamePermits DEF CallbackAnswer, Callback, HandlerPermits, BodyPermits
<1>34. ASSUME NEW r \in Requests, StartBody(r) PROVE PermitsOK'
  BY <1>34, SamePermits DEF StartBody, HandlerPermits, BodyPermits
<1>35. ASSUME NEW r \in Requests, FinishBody(r) PROVE PermitsOK'
  <2>1. BodyPermits' = BodyPermits \ {r} /\ r \in BodyPermits
    BY <1>35 DEF FinishBody, BodyPermits
  <2>2. HandlerPermits' = HandlerPermits /\ permits' = permits + 1
    BY <1>35 DEF FinishBody, HandlerPermits
  <2> QED
    BY <2>1, <2>2, BodyEnded
<1>36. ASSUME NEW r \in Requests, CancelBody(r) PROVE PermitsOK'
  BY <1>36, SamePermits DEF CancelBody, HandlerPermits, BodyPermits
<1>37. CASE UNCHANGED vars
  BY <1>37, SamePermits DEF vars, HandlerPermits, BodyPermits
<1> QED
    BY <1>1, <1>2, <1>3, <1>4, <1>5, <1>6, <1>7, <1>8, <1>9, <1>10, <1>11, <1>12, <1>13, <1>14,
     <1>15, <1>16, <1>17, <1>18, <1>19, <1>20, <1>21, <1>22, <1>23, <1>24, <1>25, <1>26, <1>27,
     <1>28, <1>29, <1>30, <1>31, <1>32, <1>33, <1>34, <1>35, <1>36, <1>37 DEF Next, HandlerStep,
     CallbackStep

(* The threads at a label and what they have taken stay the same.          *)
LEMMA SameTaken ==
  ASSUME \A d \in Requests : /\ pc'[d] = "dec" <=> pc[d] = "dec"
                             /\ pc[d] = "dec" => next'[d] = next[d]
  PROVE  TakenAt({"dec"})' = TakenAt({"dec"})
<1>1. {d \in Requests : pc'[d] \in {"dec"}} = {d \in Requests : pc[d] \in {"dec"}}
  OBVIOUS
<1> DEFINE D == {d \in Requests : pc[d] \in {"dec"}}
<1>2. {next'[d] : d \in D} = {next[d] : d \in D}
  OBVIOUS
<1> QED
  BY <1>1, <1>2 DEF TakenAt
(* The set of slot holders is finite.                                      *)
LEMMA SlotSet == SlotHolders \in SUBSET Requests /\ Cardinality(SlotHolders) \in Nat
<1>1. SlotHolders \in SUBSET Requests
  BY DEF SlotHolders
<1> QED
  BY <1>1, DownloadAssumption, FS_Subset, FS_CardinalityType

(* A step that takes no slot and gives none back.                          *)
LEMMA SameSlots ==
  ASSUME Inv, queuedCount' = queuedCount, SlotHolders' = SlotHolders
  PROVE  SlotsOK'
  BY DEF Inv, CountersOK, SlotsConserved, SlotsOK

(* A request is counted.                                                   *)
LEMMA SlotTaken ==
  ASSUME Inv, NEW r \in Requests, r \notin SlotHolders, queuedCount' = queuedCount + 1,
         SlotHolders' = SlotHolders \cup {r}
  PROVE  SlotsOK'
<1>1. Cardinality(SlotHolders') = Cardinality(SlotHolders) + 1
  BY OneMore, SlotSet
<1> QED
  BY <1>1, SlotSet DEF Inv, SlotsConserved, SlotsOK

(* A request gives its count back.                                         *)
LEMMA SlotReturned ==
  ASSUME Inv, NEW r \in SlotHolders, queuedCount' = queuedCount - 1,
         SlotHolders' = SlotHolders \ {r}
  PROVE  SlotsOK'
<1>1. Cardinality(SlotHolders') = Cardinality(SlotHolders) - 1 /\ Cardinality(SlotHolders') \in Nat
  BY OneLess, SlotSet, FS_CardinalityType, FS_Subset, DownloadAssumption
<1> QED
  BY <1>1, SlotSet DEF Inv, SlotsConserved, SlotsOK

(* The counter of queued requests is right after every step.               *)
LEMMA SlotsStep == Inv /\ [Next]_vars => SlotsOK'
<1> SUFFICES ASSUME Inv, [Next]_vars PROVE SlotsOK'
  OBVIOUS
<1> USE DEF Inv, CountersOK, ControlOK, Wiring, shared, request, handler, history
<1>1. ASSUME NEW r \in Requests, EarlyAnswer(r)
        PROVE SlotsOK'
  BY <1>1, SameSlots DEF EarlyAnswer, Goto, SlotHolders, TakenAt
<1>2. ASSUME NEW r \in Requests, Admit(r) PROVE SlotsOK'
  BY <1>2, SameSlots DEF Admit, Goto, SlotHolders, TakenAt
<1>3. ASSUME NEW r \in Requests, CheckCount(r) PROVE SlotsOK'
  BY <1>3, SameSlots DEF CheckCount, Goto, SlotHolders, TakenAt
<1>4. ASSUME NEW r \in Requests, TryFast(r) PROVE SlotsOK'
  BY <1>4, SameSlots DEF TryFast, Goto, SlotHolders, TakenAt
<1>5. ASSUME NEW r \in Requests, FastDeliver(r) PROVE SlotsOK'
  BY <1>5, SameSlots DEF FastDeliver, Goto, SlotHolders, TakenAt
<1>6. ASSUME NEW r \in Requests, Reserve(r) PROVE SlotsOK'
  BY <1>6, SameSlots DEF Reserve, Goto, SlotHolders, TakenAt
<1>7. ASSUME NEW r \in Requests, CountUp(r) PROVE SlotsOK'
  <2>1. pc[r] = "countUp" /\ entry[r] = "none"
    BY <1>7 DEF CountUp, Goto, Fresh, FreshLabels
  <2>2. SlotHolders' = SlotHolders \cup {r} /\ r \notin SlotHolders
    BY <1>7, <2>1 DEF CountUp, Goto, SlotHolders, TakenAt
  <2> QED
    BY <1>7, <2>2, SlotTaken DEF CountUp
<1>8. ASSUME NEW r \in Requests, CountDown(r) PROVE SlotsOK'
  <2>1. pc[r] = "countDown" /\ entry[r] = "none"
    BY <1>8 DEF CountDown, Goto, Fresh, FreshLabels
  <2>2. SlotHolders' = SlotHolders \ {r} /\ r \in SlotHolders
    BY <1>8, <2>1 DEF CountDown, Goto, SlotHolders, TakenAt
  <2> QED
    BY <1>8, <2>2, SlotReturned DEF CountDown
<1>9. ASSUME NEW r \in Requests, Unreserve(r) PROVE SlotsOK'
  BY <1>9, SameSlots DEF Unreserve, Goto, SlotHolders, TakenAt
<1>10. ASSUME NEW r \in Requests, Refuse(r) PROVE SlotsOK'
  BY <1>10, SameSlots DEF Refuse, Goto, SlotHolders, TakenAt
<1>11. ASSUME NEW r \in Requests, Offer(r) PROVE SlotsOK'
  BY <1>11, SameSlots DEF Offer, Goto, SlotHolders, TakenAt
<1>12. ASSUME NEW r \in Requests, DrainEnter(r) PROVE SlotsOK'
  BY <1>12, SameSlots DEF DrainEnter, Goto, SlotHolders, TakenAt
<1>13. ASSUME NEW r \in Requests, Acquire(r) PROVE SlotsOK'
  BY <1>13, SameSlots DEF Acquire, Goto, SlotHolders, TakenAt
<1>14. ASSUME NEW r \in Requests, Poll(r) PROVE SlotsOK'
  <2>1. TakenAt({"dec"})' = TakenAt({"dec"})
    BY <1>14, SameTaken DEF Poll, Goto
  <2>2. /\ \A q \in Requests : pc'[q] \in {"countDown", "offer"} <=> pc[q] \in {"countDown", "offer"}
        /\ UNCHANGED <<queuedCount, entry, cb>>
    BY <1>14 DEF Poll, Goto
  <2> QED
    BY <2>1, <2>2, SameSlots DEF SlotHolders
<1>15. ASSUME NEW r \in Requests, EmptyRelease(r) PROVE SlotsOK'
  BY <1>15, SameSlots DEF EmptyRelease, Goto, SlotHolders, TakenAt
<1>16. ASSUME NEW r \in Requests, Claim(r) PROVE SlotsOK'
  <2>1. /\ next[r] \in Requests
        /\ \A q \in Requests : pc'[q] \in {"countDown", "offer"} <=> pc[q] \in {"countDown", "offer"}
        /\ UNCHANGED <<queuedCount, cb>>
    BY <1>16 DEF Claim, Goto, NextInUse, TakenLabels
  <2>2. CASE entry[next[r]] # "active"
    <3>1. TakenAt({"dec"})' = TakenAt({"dec"}) /\ UNCHANGED entry
      BY <1>16, <2>2, SameTaken DEF Claim, Goto
    <3> QED
      BY <2>1, <3>1, SameSlots DEF SlotHolders
  <2>3. CASE entry[next[r]] = "active"
    <3>1. TakenAt({"dec"})' = TakenAt({"dec"}) \cup {next[r]}
      BY <1>16, <2>3 DEF Claim, Goto, TakenAt
    <3>2. /\ entry'[next[r]] = "claimed"
          /\ \A q \in Requests : q # next[r] => entry'[q] = entry[q]
      BY <1>16, <2>1, <2>3 DEF Claim
    <3>3. \A q \in Requests : q \in SlotHolders' <=> q \in SlotHolders
      BY <2>1, <2>3, <3>1, <3>2 DEF SlotHolders
    <3> QED
      BY <2>1, <3>3, SameSlots DEF SlotHolders
  <2> QED
    BY <2>2, <2>3
<1>17. ASSUME NEW r \in Requests, DecCount(r) PROVE SlotsOK'
  <2>1. /\ pc[r] = "dec" /\ next[r] \in Requests /\ entry[next[r]] = "claimed"
        /\ \A d \in Requests : pc[d] = "dec" => d = r
        /\ pc[next[r]] \notin {"countDown", "offer"}
    BY <1>17 DEF DecCount, Goto, NextInUse, TakenLabels, Claimed, OneDrainer, DrainLabels, Fresh, FreshLabels
  <2>2. SlotHolders' = SlotHolders \ {next[r]} /\ next[r] \in SlotHolders
    BY <1>17, <2>1 DEF DecCount, Goto, SlotHolders, TakenAt
  <2> QED
    BY <1>17, <2>2, SlotReturned DEF DecCount
<1>18. ASSUME NEW r \in Requests, FreeBytes(r) PROVE SlotsOK'
  BY <1>18, SameSlots DEF FreeBytes, Goto, SlotHolders, TakenAt
<1>19. ASSUME NEW r \in Requests, Deliver(r) PROVE SlotsOK'
  <2>1. TakenAt({"dec"})' = TakenAt({"dec"})
    BY <1>19, SameTaken DEF Deliver, Goto
  <2>2. /\ \A q \in Requests : pc'[q] \in {"countDown", "offer"} <=> pc[q] \in {"countDown", "offer"}
        /\ UNCHANGED <<queuedCount, entry, cb>>
    BY <1>19 DEF Deliver, Goto
  <2> QED
    BY <2>1, <2>2, SameSlots DEF SlotHolders
<1>20. ASSUME NEW r \in Requests, Dispatch(r) PROVE SlotsOK'
  BY <1>20, SameSlots DEF Dispatch, Goto, SlotHolders, TakenAt
<1>21. ASSUME NEW r \in Requests, GiveBack(r) PROVE SlotsOK'
  BY <1>21, SameSlots DEF GiveBack, Goto, SlotHolders, TakenAt
<1>22. ASSUME NEW r \in Requests, NestedDrain(r) PROVE SlotsOK'
  BY <1>22, SameSlots DEF NestedDrain, Goto, SlotHolders, TakenAt
<1>23. ASSUME NEW r \in Requests, Exit(r) PROVE SlotsOK'
  BY <1>23, SameSlots DEF Exit, Goto, SlotHolders, TakenAt
<1>24. ASSUME NEW r \in Requests, RecheckCount(r) PROVE SlotsOK'
  BY <1>24, SameSlots DEF RecheckCount, Goto, SlotHolders, TakenAt
<1>25. ASSUME NEW r \in Requests, RecheckPermits(r) PROVE SlotsOK'
  BY <1>25, SameSlots DEF RecheckPermits, Goto, SlotHolders, TakenAt
<1>26. ASSUME NEW r \in Requests, StackOverflow(r) PROVE SlotsOK'
  BY <1>26, SameSlots DEF StackOverflow, Goto, SlotHolders, TakenAt
<1>27. ASSUME NEW r \in Requests, Return(r) PROVE SlotsOK'
  BY <1>27, SameSlots DEF Return, Goto, SlotHolders, TakenAt
<1>28. ASSUME NEW r \in Requests, ContainerEvent(r)
        PROVE SlotsOK'
  BY <1>28, SameSlots DEF ContainerEvent, Callback, SlotHolders, TakenAt
<1>29. ASSUME NEW r \in Requests, CancelClaim(r) PROVE SlotsOK'
  BY <1>29, SameSlots DEF CancelClaim, Callback, SlotHolders, TakenAt
<1>30. ASSUME NEW r \in Requests, CancelRemove(r) PROVE SlotsOK'
  <2>1. UNCHANGED <<queuedCount, pc, next>> /\ TakenAt({"dec"})' = TakenAt({"dec"})
    BY <1>30 DEF CancelRemove, TakenAt
  <2>2. entry[r] = "cancelled" /\ cb[r] = "remove"
    BY <1>30 DEF CancelRemove, Callback, Cancelling
  <2>3. \/ UNCHANGED entry /\ cb' = [cb EXCEPT ![r] = "dec"]
        \/ entry' = [entry EXCEPT ![r] = "leaked"] /\ cb' = [cb EXCEPT ![r] = "answer"]
    BY <1>30 DEF CancelRemove, Callback
  <2>4. \A q \in Requests : q \in SlotHolders' <=> q \in SlotHolders
    BY <2>1, <2>2, <2>3 DEF SlotHolders
  <2> QED
    BY <2>1, <2>4, SameSlots DEF SlotHolders
<1>31. ASSUME NEW r \in Requests, CancelDec(r) PROVE SlotsOK'
  <2>1. cb[r] = "dec" /\ entry[r] = "cancelled" /\ pc[r] \notin {"countDown", "offer"}
    BY <1>31 DEF CancelDec, Callback, Cancelling, Fresh, FreshLabels
  <2>2. SlotHolders' = SlotHolders \ {r} /\ r \in SlotHolders
    BY <1>31, <2>1 DEF CancelDec, Callback, SlotHolders, TakenAt
  <2> QED
    BY <1>31, <2>2, SlotReturned DEF CancelDec
<1>32. ASSUME NEW r \in Requests, CancelFree(r) PROVE SlotsOK'
  BY <1>32, SameSlots DEF CancelFree, Callback, SlotHolders, TakenAt
<1>33. ASSUME NEW r \in Requests, CallbackAnswer(r) PROVE SlotsOK'
  BY <1>33, SameSlots DEF CallbackAnswer, Callback, SlotHolders, TakenAt
<1>34. ASSUME NEW r \in Requests, StartBody(r) PROVE SlotsOK'
  BY <1>34, SameSlots DEF StartBody, SlotHolders, TakenAt
<1>35. ASSUME NEW r \in Requests, FinishBody(r) PROVE SlotsOK'
  BY <1>35, SameSlots DEF FinishBody, SlotHolders, TakenAt
<1>36. ASSUME NEW r \in Requests, CancelBody(r) PROVE SlotsOK'
  BY <1>36, SameSlots DEF CancelBody, SlotHolders, TakenAt
<1>37. CASE UNCHANGED vars
  BY <1>37, SameSlots DEF vars, SlotHolders, TakenAt
<1> QED
    BY <1>1, <1>2, <1>3, <1>4, <1>5, <1>6, <1>7, <1>8, <1>9, <1>10, <1>11, <1>12, <1>13, <1>14,
     <1>15, <1>16, <1>17, <1>18, <1>19, <1>20, <1>21, <1>22, <1>23, <1>24, <1>25, <1>26, <1>27,
     <1>28, <1>29, <1>30, <1>31, <1>32, <1>33, <1>34, <1>35, <1>36, <1>37 DEF Next, HandlerStep,
     CallbackStep

-----------------------------------------------------------------------------
(* The theorems.                                                           *)

(* The invariant holds initially.                                          *)
LEMMA InvInit == Init => Inv
<1> SUFFICES ASSUME Init PROVE Inv
  OBVIOUS
<1> USE DEF Init
<1>1. CountersOK /\ ControlOK
  <2>1. 0 \in 0..StackLimit /\ CountersOK
    BY DownloadAssumption DEF CountersOK
  <2>2. /\ depth \in [Requests -> 0..StackLimit]
        /\ pc \in [Requests -> HandlerLabels] /\ cb \in [Requests -> CallbackLabels]
    BY <2>1 DEF HandlerLabels, CallbackLabels
  <2>3. queue \in Seq(Requests) /\ offers \in Seq(Requests)
    OBVIOUS
  <2>4. /\ entry \in [Requests -> EntryStates] /\ result \in [Requests -> Results]
        /\ stream \in [Requests -> StreamStates] /\ next \in [Requests -> Requests \cup {NoRequest}]
        /\ drainInProgress \in BOOLEAN /\ freed \in BOOLEAN
    BY DEF EntryStates, Results, StreamStates
  <2> QED
    BY <2>1, <2>2, <2>3, <2>4 DEF ControlOK
<1>2. OneDrainer /\ Fresh /\ NextInUse
  BY DEF OneDrainer, Fresh, NextInUse, DrainLabels, TakenLabels, FreshLabels
<1>3. Polled /\ Claimed /\ Undispatched /\ InQueue /\ Distinct /\ Cancelling /\ Served
  BY DEF Polled, Claimed, Undispatched, InQueue, Distinct, Cancelling, Served
<1>4. HandlerPermits = {} /\ BodyPermits = {}
  BY DEF HandlerPermits, BodyPermits
<1>5. PermitsConserved
  BY <1>4, FS_EmptySet, DownloadAssumption DEF PermitsConserved
<1>6. SlotHolders = {}
  BY DEF SlotHolders, TakenAt
<1>7. SlotsConserved
  BY <1>6, FS_EmptySet DEF SlotsConserved
<1> QED
  BY <1>1, <1>2, <1>3, <1>5, <1>7 DEF Inv, Wiring

(* The byte budget never goes below zero.                                  *)
LEMMA BytesStep == Inv /\ [Next]_vars => queueBytes' \in Nat
<1> SUFFICES ASSUME Inv, [Next]_vars PROVE queueBytes' \in Nat
  OBVIOUS
<1>1. queueBytes \in Nat /\ \A r \in Requests : Size[r] \in Nat
  BY DownloadAssumption DEF Inv, CountersOK
<1>2. \A r \in Requests : Charged(queueBytes, Size[r]) \in Nat /\ Refunded(queueBytes, Size[r]) \in Nat
  BY <1>1 DEF Charged, Refunded
<1>3. ASSUME NEW r \in Requests, FreeBytes(r) PROVE queueBytes' \in Nat
  <2>1. next[r] \in Requests
    BY <1>3 DEF Inv, Wiring, FreeBytes, Goto, NextInUse, TakenLabels
  <2> QED
    BY <1>2, <1>3, <2>1 DEF FreeBytes
<1>4. ASSUME NEW r \in Requests, Reserve(r) \/ Unreserve(r) \/ CancelFree(r)
      PROVE  queueBytes' \in Nat
  <2>1. CASE Reserve(r)
    BY <1>1, <1>2, <2>1 DEF Reserve, shared
  <2>2. CASE Unreserve(r)
    BY <1>2, <2>2 DEF Unreserve
  <2>3. CASE CancelFree(r)
    BY <1>2, <2>3 DEF CancelFree
  <2> QED
    BY <1>4, <2>1, <2>2, <2>3
<1>5. \/ UNCHANGED queueBytes
      \/ \E r \in Requests : FreeBytes(r) \/ Reserve(r) \/ Unreserve(r) \/ CancelFree(r)
  BY DEF Next, HandlerStep, CallbackStep, vars, shared, EarlyAnswer, Admit, CheckCount, TryFast,
         FastDeliver, CountUp, CountDown, Refuse, Offer, DrainEnter, Acquire, Poll, EmptyRelease,
         Claim, DecCount, Deliver, Dispatch, GiveBack, NestedDrain, Exit, RecheckCount,
         RecheckPermits, StackOverflow, Return, ContainerEvent, CancelClaim, CancelRemove,
         CancelDec, CallbackAnswer, StartBody, FinishBody, CancelBody
<1> QED
  BY <1>1, <1>3, <1>4, <1>5

(* The invariant holds in every reachable state.                           *)
LEMMA Invariance == Spec => []Inv
<1>1. Inv /\ [Next]_vars => Inv'
  BY ControlStep, WiringStep, PermitsStep, SlotsStep, BytesStep
  DEF Inv, CountersOK, PermitsOK, SlotsOK
<1> QED
  BY <1>1, InvInit, PTL DEF Spec

(* Every variable keeps its type; in particular the permit count, the      *)
(* request count and the byte budget never go below zero.                  *)
THEOREM TypeCorrect == Spec => []TypeOK
<1>1. Inv => TypeOK
  BY DEF Inv, TypeOK
<1> QED
  BY <1>1, Invariance, PTL

(* The fast path, the drain, a refused result, an empty poll and the end   *)
(* of a body neither create a permit nor return one twice.                 *)
THEOREM PermitsAreConserved == Spec => []PermitsConserved
<1>1. Inv => PermitsConserved
  BY DEF Inv
<1> QED
  BY <1>1, Invariance, PTL

(* downloadQueuedCount is the number of requests that owe a decrement,     *)
(* whatever the interleaving of queueing, roll-back, draining and          *)
(* cancelling.                                                             *)
THEOREM SlotsAreConserved == Spec => []SlotsConserved
<1>1. Inv => SlotsConserved
  BY DEF Inv
<1> QED
  BY <1>1, Invariance, PTL

(* A cancelled request is never served, and no request is in the hands of  *)
(* two drain loops.                                                        *)
THEOREM OneFate == Spec => []EntryHasOneFate
<1>1. Inv => EntryHasOneFate
  <2> SUFFICES ASSUME Inv, NEW r \in Requests
               PROVE  /\ entry[r] \in {"cancelled", "leaked"} => result[r] # "body" /\ stream[r] = "none"
                      /\ Cardinality({d \in Requests : next[d] = r}) <= 1
    BY DEF EntryHasOneFate
  <2> DEFINE D == {d \in Requests : next[d] = r}
  <2>1. \A d, e \in D : d = e
    BY DownloadAssumption DEF Inv, Wiring, NextInUse, OneDrainer, DrainLabels
  <2>2. D = {} \/ \E d \in D : D = {d}
    BY <2>1
  <2>3. Cardinality(D) <= 1
    <3> HIDE DEF D
    <3>1. CASE D = {}
      BY <3>1, FS_EmptySet
    <3>2. CASE \E d \in D : D = {d}
      <4>1. Cardinality(D) = 1
        BY <3>2, FS_Singleton
      <4> QED
        BY <4>1
    <3> QED
      BY <2>2, <3>1, <3>2
  <2> QED
    BY <2>3 DEF Inv, Wiring, Served
<1> QED
  BY <1>1, Invariance, PTL

(* The drain that line 304 starts inside a drain always finds the flag set *)
(* and does nothing.                                                       *)
THEOREM NestedDrainDoesNothing == Spec => []NestedDrainIsNoop
<1>1. Inv => NestedDrainIsNoop
  BY DEF Inv, Wiring, OneDrainer, DrainLabels, NestedDrainIsNoop
<1> QED
  BY <1>1, Invariance, PTL

-----------------------------------------------------------------------------
(* The byte budget of the queue.                                           *)

(* Labels at which a handler owes its bytes, and at which a drain owes     *)
(* those of the entry that it has claimed.                                 *)
ByteLabels == {"countUp", "countDown", "unreserve", "offer"}
ClaimedLabels == {"dec", "free"}

(* The budget is the sum of what its holders have reserved.                *)
LEMMA BytesAreASum ==
  BytesConserved <=> queueBytes = SumOf(Size, ByteHolders) /\ queueBytes <= MaxQueueBytes
BY DEF BytesConserved, SumOf

LEMMA ByteSet ==
  /\ ByteHolders \subseteq Requests /\ IsFiniteSet(ByteHolders)
  /\ SumOf(Size, ByteHolders) \in Nat
  /\ MaxQueueBytes \in Nat /\ \A r \in Requests : Size[r] \in Nat
<1>1. ByteHolders \subseteq Requests
  BY DEF ByteHolders
<1>2. IsFiniteSet(ByteHolders) /\ MaxQueueBytes \in Nat /\ \A r \in Requests : Size[r] \in Nat
  BY <1>1, DownloadAssumption, FS_Subset
<1>3. \A r \in ByteHolders : Size[r] \in Nat
  BY <1>1, <1>2
<1> QED
  BY <1>1, <1>2, <1>3, SumType

(* What one step shows about the bytes.                                    *)
BytesHeld == queueBytes = SumOf(Size, ByteHolders) /\ queueBytes <= MaxQueueBytes

LEMMA BytesTaken ==
  ASSUME BytesHeld, NEW r \in Requests, r \notin ByteHolders,
         Fits(queueBytes, Size[r], MaxQueueBytes), queueBytes' = Charged(queueBytes, Size[r]),
         ByteHolders' = ByteHolders \cup {r}
  PROVE  BytesHeld'
<1>1. \A q \in ByteHolders : Size[q] \in Nat
  BY ByteSet
<1>2. SumOf(Size, ByteHolders \cup {r}) = SumOf(Size, ByteHolders) + Size[r]
  BY <1>1, ByteSet, SumAdd
<1>3. SumOf(Size, ByteHolders)' = SumOf(Size, ByteHolders \cup {r})
  OBVIOUS
<1>4. queueBytes \in Nat /\ Size[r] \in Nat /\ MaxQueueBytes \in Nat
  BY ByteSet DEF BytesHeld
<1> QED
  BY <1>2, <1>3, <1>4 DEF BytesHeld, Fits, Charged

LEMMA BytesReturned ==
  ASSUME BytesHeld, NEW r \in ByteHolders, queueBytes' = Refunded(queueBytes, Size[r]),
         ByteHolders' = ByteHolders \ {r}
  PROVE  BytesHeld'
<1>1. \A q \in ByteHolders : Size[q] \in Nat
  BY ByteSet
<1>2. SumOf(Size, ByteHolders) = Size[r] + SumOf(Size, ByteHolders \ {r})
  BY <1>1, ByteSet, SumRemove
<1>3. SumOf(Size, ByteHolders)' = SumOf(Size, ByteHolders \ {r})
  OBVIOUS
<1>4. SumOf(Size, ByteHolders \ {r}) \in Nat /\ Size[r] \in Nat /\ MaxQueueBytes \in Nat
  <2>1. IsFiniteSet(ByteHolders \ {r}) /\ \A q \in ByteHolders \ {r} : Size[q] \in Nat
    BY ByteSet, FS_Subset
  <2> QED
    BY <1>1, <2>1, ByteSet, SumType
<1> QED
  BY <1>2, <1>3, <1>4 DEF BytesHeld, Refunded

LEMMA SameBytes ==
  ASSUME BytesHeld, queueBytes' = queueBytes, \A q \in Requests : q \in ByteHolders' <=> q \in ByteHolders
  PROVE  BytesHeld'
<1>1. ByteHolders' = ByteHolders
  BY DEF ByteHolders
<1>2. SumOf(Size, ByteHolders)' = SumOf(Size, ByteHolders)
  BY <1>1
<1> QED
  BY <1>2 DEF BytesHeld

LEMMA SameClaims ==
  ASSUME \A d \in Requests : /\ pc'[d] \in ClaimedLabels <=> pc[d] \in ClaimedLabels
                             /\ pc[d] \in ClaimedLabels => next'[d] = next[d]
  PROVE  TakenAt(ClaimedLabels)' = TakenAt(ClaimedLabels)
<1>1. {d \in Requests : pc'[d] \in ClaimedLabels} = {d \in Requests : pc[d] \in ClaimedLabels}
  OBVIOUS
<1> DEFINE D == {d \in Requests : pc[d] \in ClaimedLabels}
<1>2. {next'[d] : d \in D} = {next[d] : d \in D}
  OBVIOUS
<1> QED
  BY <1>1, <1>2 DEF TakenAt

(* Most steps pass the duty on within one request, or leave it alone.      *)
LEMMA QuietForBytes ==
  ASSUME Inv, [Next]_vars,
         \A r \in Requests : /\ ~Reserve(r) /\ ~Unreserve(r) /\ ~FreeBytes(r) /\ ~CancelFree(r)
                             /\ ~Offer(r) /\ ~Claim(r) /\ ~CancelClaim(r) /\ ~CancelRemove(r)
  PROVE  queueBytes' = queueBytes /\ \A q \in Requests : q \in ByteHolders' <=> q \in ByteHolders
<1> USE DEF Inv, ControlOK, Next, HandlerStep, CallbackStep, vars, EarlyAnswer, Admit, CheckCount,
         TryFast, FastDeliver, CountUp, CountDown, Refuse, DrainEnter, Acquire, Poll, EmptyRelease,
         DecCount, Deliver, Dispatch, GiveBack, NestedDrain, Exit, RecheckCount,
         RecheckPermits, StackOverflow, Return, ContainerEvent,
         CancelDec, CallbackAnswer, StartBody, FinishBody, CancelBody
<1>1. UNCHANGED <<queueBytes, entry>>
  BY DEF shared, request
<1>2. \A d \in Requests : pc'[d] \in ByteLabels <=> pc[d] \in ByteLabels
  BY DEF handler, Goto, ByteLabels
<1>3. \A d \in Requests : /\ pc'[d] \in ClaimedLabels <=> pc[d] \in ClaimedLabels
                          /\ pc[d] \in ClaimedLabels => next'[d] = next[d]
  BY DEF handler, Goto, ClaimedLabels
<1>4. \A d \in Requests : cb'[d] \in {"remove", "dec", "free"} <=> cb[d] \in {"remove", "dec", "free"}
  BY DEF Callback
<1>5. TakenAt(ClaimedLabels)' = TakenAt(ClaimedLabels)
  BY <1>3, SameClaims
<1> QED
  BY ONLY <1>1, <1>2, <1>4, <1>5 DEF ByteHolders, ByteLabels, ClaimedLabels

LEMMA BytesHeldStep == ASSUME Inv, BytesHeld, [Next]_vars PROVE BytesHeld'
<1> USE DEF Inv, ControlOK, Wiring
<1>1. ASSUME NEW r \in Requests, Reserve(r) PROVE BytesHeld'
  <2>1. pc[r] = "reserve" /\ entry[r] = "none" /\ UNCHANGED <<entry, cb, next>>
    BY <1>1 DEF Reserve, Goto, Fresh, FreshLabels, request
  <2>2. TakenAt(ClaimedLabels)' = TakenAt(ClaimedLabels)
    <3>1. \A d \in Requests : pc'[d] \in ClaimedLabels <=> pc[d] \in ClaimedLabels
      BY <1>1 DEF Reserve, Goto, ClaimedLabels
    <3> QED
      BY <2>1, <3>1, SameClaims
  <2>3. CASE Fits(queueBytes, Size[r], MaxQueueBytes)
    <3>1. pc' = [pc EXCEPT ![r] = "countUp"] /\ queueBytes' = Charged(queueBytes, Size[r])
      BY <1>1, <2>3 DEF Reserve, Goto
    <3>2. r \notin ByteHolders /\ ByteHolders' = ByteHolders \cup {r}
      BY <2>1, <2>2, <3>1 DEF ByteHolders, ClaimedLabels
    <3> QED
      BY <2>3, <3>1, <3>2, BytesTaken
  <2>4. CASE ~Fits(queueBytes, Size[r], MaxQueueBytes)
    <3>1. pc' = [pc EXCEPT ![r] = "refuse"] /\ queueBytes' = queueBytes
      BY <1>1, <2>4 DEF Reserve, Goto, shared
    <3>2. \A q \in Requests : q \in ByteHolders' <=> q \in ByteHolders
      BY <2>1, <2>2, <3>1 DEF ByteHolders, ClaimedLabels
    <3> QED
      BY <3>1, <3>2, SameBytes
  <2> QED
    BY <2>3, <2>4
<1>2. ASSUME NEW r \in Requests, Unreserve(r) PROVE BytesHeld'
  <2>1. /\ pc[r] = "unreserve" /\ entry[r] = "none" /\ UNCHANGED <<entry, cb, next>>
        /\ pc' = [pc EXCEPT ![r] = "refuse"] /\ queueBytes' = Refunded(queueBytes, Size[r])
    BY <1>2 DEF Unreserve, Goto, Fresh, FreshLabels, request
  <2>2. TakenAt(ClaimedLabels)' = TakenAt(ClaimedLabels)
    BY <2>1, SameClaims DEF ClaimedLabels
  <2>3. r \in ByteHolders /\ ByteHolders' = ByteHolders \ {r}
    BY <2>1, <2>2 DEF ByteHolders, ClaimedLabels
  <2> QED
    BY <2>1, <2>3, BytesReturned
<1>3. ASSUME NEW r \in Requests, FreeBytes(r) PROVE BytesHeld'
  <2>1. /\ pc[r] = "free" /\ next[r] \in Requests /\ entry[next[r]] = "claimed"
        /\ \A d \in Requests : pc[d] \in {"dec", "free"} => d = r
        /\ pc[next[r]] \notin {"countUp", "countDown", "unreserve", "offer"}
    BY <1>3 DEF FreeBytes, Goto, NextInUse, TakenLabels, Claimed, OneDrainer, DrainLabels, Fresh,
         FreshLabels
  <2>2. ByteHolders' = ByteHolders \ {next[r]} /\ next[r] \in ByteHolders
    BY <1>3, <2>1 DEF FreeBytes, Goto, ByteHolders, TakenAt, request
  <2> QED
    BY <1>3, <2>2, BytesReturned DEF FreeBytes
<1>4. ASSUME NEW r \in Requests, CancelFree(r) PROVE BytesHeld'
  <2>1. cb[r] = "free" /\ entry[r] = "cancelled"
        /\ pc[r] \notin {"countUp", "countDown", "unreserve", "offer"}
    BY <1>4 DEF CancelFree, Callback, Cancelling, Fresh, FreshLabels
  <2>2. ByteHolders' = ByteHolders \ {r} /\ r \in ByteHolders
    BY <1>4, <2>1 DEF CancelFree, Callback, ByteHolders, TakenAt, request, handler
  <2> QED
    BY <1>4, <2>2, BytesReturned DEF CancelFree
<1>5. ASSUME NEW r \in Requests, Offer(r) PROVE BytesHeld'
  <2>1. queueBytes' = queueBytes /\ \A q \in Requests : q \in ByteHolders' <=> q \in ByteHolders
    BY <1>5 DEF Offer, Goto, ByteHolders, TakenAt, Fresh, FreshLabels
  <2> QED
    BY <2>1, SameBytes
<1>6. ASSUME NEW r \in Requests, Claim(r) PROVE BytesHeld'
  <2>1. /\ next[r] \in Requests /\ pc[r] = "claim"
        /\ \A q \in Requests : pc'[q] \in ByteLabels <=> pc[q] \in ByteLabels
        /\ UNCHANGED <<queueBytes, cb>>
    BY <1>6 DEF Claim, Goto, NextInUse, TakenLabels, ByteLabels, shared
  <2>2. CASE entry[next[r]] # "active"
    <3>1. UNCHANGED entry /\ TakenAt(ClaimedLabels)' = TakenAt(ClaimedLabels)
      <4>1. UNCHANGED entry
        BY <1>6, <2>2 DEF Claim, request
      <4>2. \A d \in Requests : /\ pc'[d] \in ClaimedLabels <=> pc[d] \in ClaimedLabels
                                /\ pc[d] \in ClaimedLabels => next'[d] = next[d]
        BY <1>6, <2>2 DEF Claim, Goto, ClaimedLabels
      <4> QED
        BY <4>1, <4>2, SameClaims
    <3>2. \A q \in Requests : q \in ByteHolders' <=> q \in ByteHolders
      BY <2>1, <3>1 DEF ByteHolders, ByteLabels, ClaimedLabels
    <3> QED
      BY <2>1, <3>2, SameBytes
  <2>3. CASE entry[next[r]] = "active"
    <3>1. TakenAt({"dec", "free"})' = TakenAt({"dec", "free"}) \cup {next[r]}
      BY <1>6, <2>3 DEF Claim, Goto, TakenAt
    <3>2. /\ entry'[next[r]] = "claimed"
          /\ \A q \in Requests : q # next[r] => entry'[q] = entry[q]
      BY <1>6, <2>1, <2>3 DEF Claim
    <3>3. \A q \in Requests : q \in ByteHolders' <=> q \in ByteHolders
      BY <2>1, <2>3, <3>1, <3>2 DEF ByteHolders, ByteLabels
    <3> QED
      BY <2>1, <3>3, SameBytes
  <2> QED
    BY <2>2, <2>3
<1>7. ASSUME NEW r \in Requests, CancelClaim(r) PROVE BytesHeld'
  <2>1. queueBytes' = queueBytes /\ \A q \in Requests : q \in ByteHolders' <=> q \in ByteHolders
    BY <1>7 DEF CancelClaim, Callback, ByteHolders, TakenAt, shared, handler, request
  <2> QED
    BY <2>1, SameBytes
<1>8. ASSUME NEW r \in Requests, CancelRemove(r) PROVE BytesHeld'
  <2>1. UNCHANGED <<queueBytes, pc, next>> /\ TakenAt({"dec", "free"})' = TakenAt({"dec", "free"})
    BY <1>8 DEF CancelRemove, TakenAt, shared, handler
  <2>2. entry[r] = "cancelled" /\ cb[r] = "remove"
    BY <1>8 DEF CancelRemove, Callback, Cancelling
  <2>3. \/ UNCHANGED entry /\ cb' = [cb EXCEPT ![r] = "dec"]
        \/ entry' = [entry EXCEPT ![r] = "leaked"] /\ cb' = [cb EXCEPT ![r] = "answer"]
    BY <1>8 DEF CancelRemove, Callback, request
  <2>4. \A q \in Requests : q \in ByteHolders' <=> q \in ByteHolders
    BY <2>1, <2>2, <2>3 DEF ByteHolders
  <2> QED
    BY <2>1, <2>4, SameBytes
<1>9. CASE \A r \in Requests : /\ ~Reserve(r) /\ ~Unreserve(r) /\ ~FreeBytes(r) /\ ~CancelFree(r)
                               /\ ~Offer(r) /\ ~Claim(r) /\ ~CancelClaim(r) /\ ~CancelRemove(r)
  BY <1>9, QuietForBytes, SameBytes
<1> QED
  BY <1>1, <1>2, <1>3, <1>4, <1>5, <1>6, <1>7, <1>8, <1>9

(* The bytes of a queued request are given back once, by the drain, the    *)
(* callback or the handler that rolls back: coerceAtLeast(0) in release    *)
(* never hides a second time (190-211, 221-224, 263-264).                  *)
THEOREM BytesAreConserved == Spec => []BytesConserved
<1>1. Init => BytesHeld
  <2> SUFFICES ASSUME Init PROVE BytesHeld
    OBVIOUS
  <2>1. ByteHolders = {}
    BY DEF Init, ByteHolders, TakenAt
  <2> QED
    BY <2>1, SumEmpty, DownloadAssumption DEF Init, BytesHeld
<1>2. Inv /\ BytesHeld /\ [Next]_vars => BytesHeld'
  BY BytesHeldStep
<1>3. BytesHeld => BytesConserved
  BY BytesAreASum DEF BytesHeld
<1> QED
  BY <1>1, <1>2, <1>3, Invariance, PTL DEF Spec

-----------------------------------------------------------------------------
(* The limit of the queue.                                                 *)

(* Those in the queue or polled from it, and those that may enter it       *)
(* without looking at the count again.                                     *)
Admitted ==
  {r \in Requests :
    pc[r] = "offer" \/ entry[r] = "active" \/ \E i \in DOMAIN queue : queue[i] = r}
LimitKept == Cardinality(Admitted) <= MaxQueueRequests

(* All of them are counted.                                                *)
LEMMA AdmittedAreCounted ==
  ASSUME Inv
  PROVE  /\ Admitted \subseteq SlotHolders /\ IsFiniteSet(SlotHolders)
         /\ IsFiniteSet(Admitted) /\ Cardinality(Admitted) \in Nat
<1>1. Admitted \subseteq SlotHolders
  BY DEF Inv, Wiring, InQueue, Admitted, SlotHolders
<1>2. SlotHolders \subseteq Requests /\ Admitted \subseteq Requests
  BY DEF SlotHolders, Admitted
<1> QED
  BY <1>1, <1>2, DownloadAssumption, FS_Subset, FS_CardinalityType

(* Only line 188, which compares the count, admits another one.            *)
LEMMA OnlyCountUpAdmits ==
  ASSUME Inv, [Next]_vars, \A r \in Requests : ~CountUp(r)
  PROVE  Admitted' \subseteq Admitted
<1> USE DEF Inv, CountersOK, ControlOK
<1>1. ASSUME UNCHANGED queue, \A r \in Requests : pc'[r] = "offer" => pc[r] = "offer",
             \A r \in Requests : entry'[r] = "active" => entry[r] = "active"
      PROVE  Admitted' \subseteq Admitted
  BY <1>1 DEF Admitted
<1>2. ASSUME NEW r \in Requests, Offer(r) PROVE Admitted' \subseteq Admitted
  <2>1. /\ pc[r] = "offer" /\ queue' = Append(queue, r) /\ queue \in Seq(Requests)
        /\ \A q \in Requests : pc'[q] = "offer" => pc[q] = "offer"
        /\ entry' = [entry EXCEPT ![r] = "active"]
    BY <1>2 DEF Offer, Goto
  <2>2. \A i \in DOMAIN queue' : queue'[i] = r \/ (i \in DOMAIN queue /\ queue'[i] = queue[i])
    <3>1. DOMAIN queue = 1 .. Len(queue) /\ Len(queue) \in Nat
      BY ONLY <2>1, LenProperties
    <3>2. /\ DOMAIN queue' = 1 .. Len(queue) + 1 /\ queue'[Len(queue) + 1] = r
          /\ \A i \in 1 .. Len(queue) : queue'[i] = queue[i]
      BY ONLY <2>1, <3>1, AppendProperties, LenProperties, r \in Requests
    <3> QED
      BY ONLY <3>1, <3>2
  <2> QED
    BY <2>1, <2>2 DEF Admitted
<1>3. ASSUME NEW r \in Requests, Poll(r) PROVE Admitted' \subseteq Admitted
  <2>1. UNCHANGED entry /\ \A q \in Requests : pc'[q] = "offer" => pc[q] = "offer"
    BY <1>3 DEF Poll, Goto, request
  <2>2. CASE queue # <<>> /\ queue' = Tail(queue)
    <3>1. \A i \in DOMAIN queue' : i + 1 \in DOMAIN queue /\ queue'[i] = queue[i + 1]
      BY <2>2, HeadTailProperties, LenProperties
    <3> QED
      BY <2>1, <3>1 DEF Admitted
  <2>3. CASE UNCHANGED queue
    BY <1>1, <2>1, <2>3
  <2> QED
    BY <1>3, <2>2, <2>3 DEF Poll, shared
<1>4. ASSUME NEW r \in Requests, CancelRemove(r) PROVE Admitted' \subseteq Admitted
  <2>1. UNCHANGED pc /\ \A q \in Requests : entry'[q] = "active" => entry[q] = "active"
    BY <1>4 DEF CancelRemove, Callback, handler, request
  <2>2. CASE \E i \in DOMAIN queue : queue' = RemoveAt(queue, i)
    <3>1. PICK i \in DOMAIN queue : queue' = RemoveAt(queue, i)
      BY <2>2
    <3>2. queue \in Seq(Requests) /\ DOMAIN queue = 1 .. Len(queue) /\ Len(queue) \in Nat
      BY LenProperties
    <3>3. /\ DOMAIN queue' = 1 .. Len(queue) - 1
          /\ \A j \in DOMAIN queue' : queue'[j] = queue[IF j < i THEN j ELSE j + 1]
      BY <3>1, <3>2, RemoveAtElements
    <3>4. \A j \in DOMAIN queue' : (IF j < i THEN j ELSE j + 1) \in DOMAIN queue
      BY <3>2, <3>3
    <3>5. \A j \in DOMAIN queue' : \E k \in DOMAIN queue : queue'[j] = queue[k]
      BY <3>3, <3>4
    <3> QED
      BY <2>1, <3>5 DEF Admitted
  <2>3. CASE UNCHANGED queue
    BY <1>1, <2>1, <2>3
  <2> QED
    BY <1>4, <2>2, <2>3 DEF CancelRemove, shared
<1>5. CASE \A r \in Requests : ~Offer(r) /\ ~Poll(r) /\ ~CancelRemove(r)
  <2>1. UNCHANGED queue
    BY <1>5 DEF Next, HandlerStep, CallbackStep, vars, shared, EarlyAnswer, Admit, CheckCount, TryFast,
         FastDeliver, Reserve, CountDown, Unreserve, Refuse, DrainEnter, Acquire, EmptyRelease,
         Claim, DecCount, FreeBytes, Deliver, Dispatch, GiveBack, NestedDrain, Exit, RecheckCount,
         RecheckPermits, StackOverflow, Return, ContainerEvent, CancelClaim,
         CancelDec, CancelFree, CallbackAnswer, StartBody, FinishBody, CancelBody
  <2>2. \A q \in Requests : pc'[q] = "offer" => pc[q] = "offer"
    BY <1>5 DEF Next, HandlerStep, CallbackStep, vars, handler, EarlyAnswer, Admit, CheckCount, TryFast,
         FastDeliver, Reserve, CountDown, Unreserve, Refuse, DrainEnter, Acquire, EmptyRelease,
         Claim, DecCount, FreeBytes, Deliver, Dispatch, GiveBack, NestedDrain, Exit, RecheckCount,
         RecheckPermits, StackOverflow, Return, ContainerEvent, CancelClaim,
         CancelDec, CancelFree, CallbackAnswer, StartBody, FinishBody, CancelBody, Goto
  <2>3. \A q \in Requests : entry'[q] = "active" => entry[q] = "active"
    BY <1>5 DEF Next, HandlerStep, CallbackStep, vars, request, EarlyAnswer, Admit, CheckCount, TryFast,
         FastDeliver, Reserve, CountDown, Unreserve, Refuse, DrainEnter, Acquire, EmptyRelease,
         Claim, DecCount, FreeBytes, Deliver, Dispatch, GiveBack, NestedDrain, Exit, RecheckCount,
         RecheckPermits, StackOverflow, Return, ContainerEvent, CancelClaim,
         CancelDec, CancelFree, CallbackAnswer, StartBody, FinishBody, CancelBody
  <2> QED
    BY <1>1, <2>1, <2>2, <2>3
<1> QED
  BY <1>2, <1>3, <1>4, <1>5

LEMMA LimitStep ==
  ASSUME Inv, [Next]_vars, Inv', LimitKept
  PROVE  LimitKept'
<1>1. Admitted' \subseteq SlotHolders' /\ IsFiniteSet(SlotHolders') /\ IsFiniteSet(Admitted)
      /\ Cardinality(Admitted) \in Nat /\ Cardinality(Admitted') \in Nat /\ MaxQueueRequests \in Nat
      /\ IsFiniteSet(Admitted')
  <2>1. Admitted' \subseteq SlotHolders'
    BY DEF Inv, Wiring, InQueue, Admitted, SlotHolders
  <2>2. SlotHolders' \subseteq Requests /\ Admitted' \subseteq Requests
    BY DEF SlotHolders, Admitted
  <2> QED
    BY <2>1, <2>2, AdmittedAreCounted, DownloadAssumption, FS_Subset, FS_CardinalityType
<1>2. CASE \A r \in Requests : ~CountUp(r)
  <2>1. Admitted' \subseteq Admitted
    BY <1>2, OnlyCountUpAdmits
  <2>2. Cardinality(Admitted') <= Cardinality(Admitted)
    BY <1>1, <2>1, FS_Subset
  <2> QED
    BY <1>1, <2>2 DEF LimitKept
<1>3. ASSUME NEW r \in Requests, CountUp(r), queuedCount + 1 <= MaxQueueRequests PROVE LimitKept'
  <2>1. Cardinality(SlotHolders') = queuedCount + 1
    BY <1>3 DEF CountUp, Inv, SlotsConserved
  <2>2. Cardinality(Admitted') <= Cardinality(SlotHolders')
    BY <1>1, FS_Subset
  <2>3. queuedCount \in Nat
    BY DEF Inv, CountersOK
  <2> QED
    BY <1>1, <1>3, <2>1, <2>2, <2>3 DEF LimitKept
<1>4. ASSUME NEW r \in Requests, CountUp(r), ~(queuedCount + 1 <= MaxQueueRequests) PROVE LimitKept'
  <2>1. pc' = [pc EXCEPT ![r] = "countDown"] /\ UNCHANGED <<queue, entry>>
    <3>1. queuedCount + 1 > MaxQueueRequests
      BY <1>1, <1>4 DEF Inv, CountersOK
    <3> QED
      BY <1>4, <3>1 DEF CountUp, Goto, shared, request
  <2>2. Admitted' \subseteq Admitted
    BY <2>1 DEF Admitted, Inv, ControlOK
  <2>3. Cardinality(Admitted') <= Cardinality(Admitted)
    BY <1>1, <2>2, FS_Subset
  <2> QED
    BY <1>1, <2>3 DEF LimitKept
<1> QED
  BY <1>2, <1>3, <1>4

LEMMA LimitInit == Init => LimitKept
<1> SUFFICES ASSUME Init PROVE LimitKept
  OBVIOUS
<1>1. Admitted = {}
  BY DEF Init, Admitted
<1> QED
  BY <1>1, FS_EmptySet, DownloadAssumption DEF LimitKept

(* max-queue-requests bounds the queue, although line 188 raises the       *)
(* counter before it compares it, and several handlers may do so at once.  *)
THEOREM QueueIsBounded == Spec => []QueueWithinLimit
<1>1. Init => LimitKept
  BY LimitInit
<1>2. Inv /\ LimitKept => QueueWithinLimit
  <2> SUFFICES ASSUME Inv, LimitKept PROVE QueueWithinLimit
    OBVIOUS
  <2> DEFINE Places == 1 .. Len(queue)
  <2>1. queue \in Seq(Requests) /\ Len(queue) \in Nat /\ DOMAIN queue = Places
    BY LenProperties DEF Inv, ControlOK
  <2>2. queue \in Injection(Places, Admitted)
    <3>1. queue \in [Places -> Requests]
      BY <2>1, LenProperties
    <3>2. \A i \in Places : queue[i] \in Admitted
      BY <2>1, <3>1 DEF Admitted
    <3>3. \A i, j \in Places : queue[i] = queue[j] => i = j
      BY <2>1 DEF Inv, Wiring, Distinct
    <3> QED
      BY <2>1, <3>1, <3>2, <3>3 DEF Injection, IsInjective
  <2>3. Cardinality(Places) = Len(queue)
    BY <2>1, FS_Interval
  <2>4. Cardinality(Places) <= Cardinality(Admitted)
    BY <2>2, AdmittedAreCounted, FS_Injection
  <2> QED
    BY <2>1, <2>3, <2>4, AdmittedAreCounted, DownloadAssumption DEF LimitKept, QueueWithinLimit
<1>3. Inv /\ Inv' /\ LimitKept /\ [Next]_vars => LimitKept'
  BY LimitStep
<1> QED
  BY <1>1, <1>2, <1>3, Invariance, PTL DEF Spec

-----------------------------------------------------------------------------
(* No lost wake-up.                                                        *)

(* Whoever set the flag is in the region that it guards.                   *)
FlagHeld == drainInProgress => \E d \in Requests : pc[d] \in DrainLabels

(* A thread that drains, or is on its way to look again.                   *)
AttendLabels == DrainLabels \cup {"drain", "recheckCount", "recheckPermits"}
Attending == \E d \in Requests : pc[d] \in AttendLabels

(* As long as somebody waits beside a free permit, somebody attends to the *)
(* queue, unless a body has released the permit or a drain broke off.      *)
Attended == Waiting # {} /\ permits > 0 /\ ~freed => Attending

LEMMA FlagStep ==
  ASSUME Inv, FlagHeld, [Next]_vars
  PROVE  FlagHeld'
<1> USE DEF Inv, ControlOK
<1>1. ASSUME UNCHANGED drainInProgress,
             \A d \in Requests : pc[d] \in DrainLabels => pc'[d] \in DrainLabels
      PROVE  FlagHeld'
  BY <1>1 DEF FlagHeld
<1>2. ASSUME NEW r \in Requests, DrainEnter(r) PROVE FlagHeld'
  <2>1. CASE drainInProgress
    <3>1. PICK d \in Requests : pc[d] \in DrainLabels
      BY <2>1 DEF FlagHeld
    <3>2. pc[r] = "drain" /\ pc' = [pc EXCEPT ![r] = "return"]
      BY <1>2, <2>1 DEF DrainEnter, Goto
    <3> QED
      BY <3>1, <3>2 DEF FlagHeld, DrainLabels, TakenLabels
  <2>2. CASE ~drainInProgress
    <3>1. pc'[r] = "acquire"
      BY <1>2, <2>2 DEF DrainEnter, Goto
    <3> QED
      BY <3>1 DEF FlagHeld, DrainLabels
  <2> QED
    BY <2>1, <2>2
<1>3. ASSUME NEW r \in Requests, Exit(r) PROVE FlagHeld'
  BY <1>3 DEF Exit, FlagHeld
<1>4. CASE \A r \in Requests : ~DrainEnter(r) /\ ~Exit(r)
  <2>1. UNCHANGED drainInProgress
    BY <1>4 DEF Next, HandlerStep, CallbackStep, vars, shared, EarlyAnswer, Admit, CheckCount, TryFast,
         FastDeliver, Reserve, CountUp, CountDown, Unreserve, Refuse, Offer, Acquire, Poll, EmptyRelease,
         Claim, DecCount, FreeBytes, Deliver, Dispatch, GiveBack, NestedDrain, RecheckCount,
         RecheckPermits, StackOverflow, Return, ContainerEvent, CancelClaim, CancelRemove,
         CancelDec, CancelFree, CallbackAnswer, StartBody, FinishBody, CancelBody
  <2>2. \A d \in Requests : pc[d] \in DrainLabels => pc'[d] \in DrainLabels
    BY <1>4 DEF DrainLabels, TakenLabels, Next, HandlerStep, CallbackStep, vars, handler,
         EarlyAnswer, Admit, CheckCount, TryFast,
         FastDeliver, Reserve, CountUp, CountDown, Unreserve, Refuse, Offer, Acquire, Poll, EmptyRelease,
         Claim, DecCount, FreeBytes, Deliver, Dispatch, GiveBack, NestedDrain, RecheckCount,
         RecheckPermits, StackOverflow, Return, ContainerEvent, CancelClaim, CancelRemove,
         CancelDec, CancelFree, CallbackAnswer, StartBody, FinishBody, CancelBody, Goto
  <2> QED
    BY <1>1, <2>1, <2>2
<1> QED
  BY <1>2, <1>3, <1>4

(* Only these steps make somebody wait, free a permit, or turn a thread    *)
(* away from the queue.                                                    *)
LEMMA QuietForWaiting ==
  ASSUME Inv, [Next]_vars,
         \A r \in Requests : /\ ~Offer(r) /\ ~DrainEnter(r) /\ ~Acquire(r) /\ ~EmptyRelease(r)
                             /\ ~GiveBack(r) /\ ~RecheckCount(r) /\ ~RecheckPermits(r)
                             /\ ~FinishBody(r) /\ ~StackOverflow(r)
  PROVE  /\ Waiting' \subseteq Waiting /\ permits' <= permits /\ freed' = freed
         /\ \A d \in Requests : pc[d] \in AttendLabels => pc'[d] \in AttendLabels
<1> USE DEF Inv, ControlOK, CountersOK
<1>1. Waiting' \subseteq Waiting
  BY DEF Waiting, Next, HandlerStep, CallbackStep, vars, request, EarlyAnswer, Admit, CheckCount, TryFast,
       FastDeliver, Reserve, CountUp, CountDown, Unreserve, Refuse, Poll,
       Claim, DecCount, FreeBytes, Deliver, Dispatch, NestedDrain, Exit,
       Return, ContainerEvent, CancelClaim, CancelRemove,
       CancelDec, CancelFree, CallbackAnswer, StartBody, CancelBody
<1>2. permits' <= permits /\ freed' = freed
  <2>1. permits' <= permits
    BY DEF Next, HandlerStep, CallbackStep, vars, shared, history, EarlyAnswer, Admit, CheckCount, TryFast,
         FastDeliver, Reserve, CountUp, CountDown, Unreserve, Refuse, Poll,
         Claim, DecCount, FreeBytes, Deliver, Dispatch, NestedDrain, Exit,
         Return, ContainerEvent, CancelClaim, CancelRemove,
         CancelDec, CancelFree, CallbackAnswer, StartBody, CancelBody
  <2>2. freed' = freed
    BY DEF Next, HandlerStep, CallbackStep, vars, shared, history, EarlyAnswer, Admit, CheckCount, TryFast,
         FastDeliver, Reserve, CountUp, CountDown, Unreserve, Refuse, Poll,
         Claim, DecCount, FreeBytes, Deliver, Dispatch, NestedDrain, Exit,
         Return, ContainerEvent, CancelClaim, CancelRemove,
         CancelDec, CancelFree, CallbackAnswer, StartBody, CancelBody
  <2> QED
    BY <2>1, <2>2
<1>3. \A d \in Requests : pc[d] \in AttendLabels => pc'[d] \in AttendLabels
  <2>1. ASSUME NEW r \in Requests,
               \/ Poll(r) \/ Claim(r) \/ DecCount(r) \/ FreeBytes(r) \/ Deliver(r) \/ Dispatch(r)
               \/ NestedDrain(r) \/ Exit(r)
        PROVE  \E to \in AttendLabels : pc' = [pc EXCEPT ![r] = to]
    BY <2>1 DEF AttendLabels, DrainLabels, TakenLabels, Poll, Claim, DecCount, FreeBytes, Deliver,
         Dispatch, NestedDrain, Exit, Goto
  <2>2. ASSUME NEW r \in Requests,
               \/ EarlyAnswer(r) \/ Admit(r) \/ CheckCount(r) \/ TryFast(r) \/ FastDeliver(r)
               \/ Reserve(r) \/ CountUp(r) \/ CountDown(r) \/ Unreserve(r) \/ Refuse(r) \/ Return(r)
        PROVE  pc[r] \notin AttendLabels /\ \E to : pc' = [pc EXCEPT ![r] = to]
    BY <2>2 DEF AttendLabels, DrainLabels, TakenLabels, EarlyAnswer, Admit, CheckCount, TryFast,
         FastDeliver, Reserve, CountUp, CountDown, Unreserve, Refuse, Return, Goto
  <2>3. CASE \A r \in Requests :
               /\ ~EarlyAnswer(r) /\ ~Admit(r) /\ ~CheckCount(r) /\ ~TryFast(r) /\ ~FastDeliver(r)
               /\ ~Reserve(r) /\ ~CountUp(r) /\ ~CountDown(r) /\ ~Unreserve(r) /\ ~Refuse(r)
               /\ ~Return(r) /\ ~Poll(r) /\ ~Claim(r) /\ ~DecCount(r) /\ ~FreeBytes(r)
               /\ ~Deliver(r) /\ ~Dispatch(r) /\ ~NestedDrain(r) /\ ~Exit(r)
    <3>1. UNCHANGED pc
      BY <2>3 DEF Next, HandlerStep, CallbackStep, vars, handler, ContainerEvent, CancelClaim,
           CancelRemove, CancelDec, CancelFree, CallbackAnswer, StartBody, CancelBody
    <3> QED
      BY <3>1
  <2> QED
    BY <2>1, <2>2, <2>3
<1> QED
  BY <1>1, <1>2, <1>3

LEMMA AttendedStep ==
  ASSUME Inv, FlagHeld, Attended, [Next]_vars
  PROVE  Attended'
<1> USE DEF Inv, ControlOK, CountersOK
<1>1. ASSUME NEW r \in Requests, pc'[r] \in AttendLabels
      PROVE  Attended'
  BY <1>1 DEF Attended, Attending
<1>2. ASSUME NEW r \in Requests, DrainEnter(r) PROVE Attended'
  <2>1. CASE drainInProgress
    <3>1. PICK d \in Requests : pc[d] \in DrainLabels
      BY <2>1 DEF FlagHeld
    <3>2. pc[r] = "drain" /\ pc' = [pc EXCEPT ![r] = "return"]
      BY <1>2, <2>1 DEF DrainEnter, Goto
    <3>3. pc'[d] \in AttendLabels
      BY <3>1, <3>2 DEF DrainLabels, TakenLabels, AttendLabels
    <3> QED
      BY <1>1, <3>3
  <2>2. CASE ~drainInProgress
    <3>1. pc'[r] = "acquire"
      BY <1>2, <2>2 DEF DrainEnter, Goto
    <3> QED
      BY <1>1, <3>1 DEF AttendLabels, DrainLabels
  <2> QED
    BY <2>1, <2>2
<1>3. ASSUME NEW r \in Requests, Offer(r) \/ Acquire(r) \/ EmptyRelease(r) \/ GiveBack(r)
      PROVE  Attended'
  <2>1. pc'[r] \in {"drain", "poll", "exit", "nested"}
    BY <1>3 DEF Offer, Acquire, EmptyRelease, GiveBack, Goto
  <2> QED
    BY <1>1, <2>1 DEF AttendLabels, DrainLabels
(* A request that waits is counted.                                        *)
<1>4. ASSUME NEW r \in Requests, RecheckCount(r) PROVE Attended'
  <2>1. CASE queuedCount > 0
    <3>1. pc'[r] = "recheckPermits"
      BY <1>4, <2>1 DEF RecheckCount, Goto
    <3> QED
      BY <1>1, <3>1 DEF AttendLabels
  <2>2. CASE ~(queuedCount > 0)
    <3>1. Cardinality(SlotHolders) = 0 /\ SlotHolders \subseteq Requests
      BY <2>2 DEF SlotsConserved, SlotHolders
    <3>2. SlotHolders = {}
      BY <3>1, DownloadAssumption, FS_Subset, FS_EmptySet
    <3>3. Waiting = {}
      BY <3>2 DEF Waiting, SlotHolders
    <3>4. Waiting' = {}
      BY <1>4, <3>3 DEF RecheckCount, Waiting, request
    <3> QED
      BY <3>4 DEF Attended
  <2> QED
    BY <2>1, <2>2
<1>5. ASSUME NEW r \in Requests, RecheckPermits(r) PROVE Attended'
  <2>1. CASE permits = 0
    BY <1>5, <2>1 DEF RecheckPermits, Attended, shared
  <2>2. CASE permits # 0
    <3>1. pc'[r] = "drain"
      BY <1>5, <2>2 DEF RecheckPermits, Goto
    <3> QED
      BY <1>1, <3>1 DEF AttendLabels
  <2> QED
    BY <2>1, <2>2
<1>6. ASSUME NEW r \in Requests, FinishBody(r) \/ StackOverflow(r) PROVE Attended'
  BY <1>6 DEF FinishBody, StackOverflow, Attended
<1>7. CASE \A r \in Requests : /\ ~Offer(r) /\ ~DrainEnter(r) /\ ~Acquire(r) /\ ~EmptyRelease(r)
                               /\ ~GiveBack(r) /\ ~RecheckCount(r) /\ ~RecheckPermits(r)
                               /\ ~FinishBody(r) /\ ~StackOverflow(r)
  <2>1. /\ Waiting' \subseteq Waiting /\ permits' <= permits /\ freed' = freed
        /\ \A d \in Requests : pc[d] \in AttendLabels => pc'[d] \in AttendLabels
    BY <1>7, QuietForWaiting
  <2>2. permits' \in Nat
    BY PermitsStep DEF PermitsOK
  <2>3. Attending => Attending'
    BY <2>1 DEF Attending
  <2> QED
    BY <2>1, <2>2, <2>3 DEF Attended
<1> QED
  BY <1>2, <1>3, <1>4, <1>5, <1>6, <1>7

(* A drain that gives up looks again after it has cleared the flag         *)
(* (248-252), and whoever found the flag set relies on it: only the        *)
(* finally of a body, or a drain that runs out of stack, leaves a free     *)
(* permit beside a waiting request, and only until the next drain.         *)
THEOREM NoWakeupIsLost == Spec => []NoLostWakeup
<1>1. Init => FlagHeld /\ Attended
  BY DEF Init, FlagHeld, Attended, Waiting
<1>2. Inv /\ FlagHeld /\ [Next]_vars => FlagHeld'
  BY FlagStep
<1>3. Inv /\ FlagHeld /\ Attended /\ [Next]_vars => Attended'
  BY AttendedStep
<1>4. Attended => NoLostWakeup
  BY DEF Attended, Attending, AttendLabels, DrainLabels, TakenLabels, NoLostWakeup, HandlersDone
<1> QED
  BY <1>1, <1>2, <1>3, <1>4, Invariance, PTL DEF Spec

-----------------------------------------------------------------------------
(* The service that clients see.                                           *)

(* offers lists everybody who was ever queued, once.                       *)
Arrivals ==
  /\ \A i, j \in DOMAIN offers : offers[i] = offers[j] => i = j
  /\ \A r \in Requests : entry[r] # "none" <=> \E i \in DOMAIN offers : offers[i] = r

(* What was polled came before what is in the queue, in which the order is *)
(* that of arrival.                                                        *)
Before(q, r, line) == \A a, b \in DOMAIN line : line[a] = q /\ line[b] = r => a < b
Ordered ==
  /\ \A i, j \in DOMAIN queue : i < j => Before(queue[i], queue[j], offers)
  /\ \A d \in Requests : pc[d] = "claim" =>
       \A j \in DOMAIN queue : Before(next[d], queue[j], offers)

(* Whoever waits is in the queue, or was polled.                           *)
Found ==
  \A r \in Requests : entry[r] = "active" =>
    \/ \E i \in DOMAIN queue : queue[i] = r
    \/ \E d \in Requests : pc[d] = "claim" /\ next[d] = r

Queueing == Arrivals /\ Ordered /\ Found

(* Only these steps concern the order of the queue.                        *)
LEMMA QuietForQueue ==
  ASSUME Inv, [Next]_vars,
         \A r \in Requests : ~Offer(r) /\ ~Poll(r) /\ ~Claim(r) /\ ~CancelClaim(r) /\ ~CancelRemove(r)
  PROVE  /\ UNCHANGED <<offers, queue, entry>>
         /\ \A d \in Requests : pc'[d] = "claim" <=> pc[d] = "claim"
         /\ \A d \in Requests : pc[d] = "claim" => next'[d] = next[d]
<1> USE DEF Inv, ControlOK
<1>1. UNCHANGED <<offers, queue, entry>>
  BY DEF Next, HandlerStep, CallbackStep, vars, shared, request, history, EarlyAnswer, Admit, CheckCount,
       TryFast, FastDeliver, Reserve, CountUp, CountDown, Unreserve, Refuse, DrainEnter, Acquire,
       EmptyRelease, DecCount, FreeBytes, Deliver, Dispatch, GiveBack, NestedDrain, Exit, RecheckCount,
       RecheckPermits, StackOverflow, Return, ContainerEvent,
       CancelDec, CancelFree, CallbackAnswer, StartBody, FinishBody, CancelBody
<1>2. \A d \in Requests : pc'[d] = "claim" <=> pc[d] = "claim"
  BY DEF Next, HandlerStep, CallbackStep, vars, handler, EarlyAnswer, Admit, CheckCount,
       TryFast, FastDeliver, Reserve, CountUp, CountDown, Unreserve, Refuse, DrainEnter, Acquire,
       EmptyRelease, DecCount, FreeBytes, Deliver, Dispatch, GiveBack, NestedDrain, Exit, RecheckCount,
       RecheckPermits, StackOverflow, Return, ContainerEvent,
       CancelDec, CancelFree, CallbackAnswer, StartBody, FinishBody, CancelBody, Goto
<1>3. \A d \in Requests : pc[d] = "claim" => next'[d] = next[d]
  BY DEF Next, HandlerStep, CallbackStep, vars, handler, EarlyAnswer, Admit, CheckCount,
       TryFast, FastDeliver, Reserve, CountUp, CountDown, Unreserve, Refuse, DrainEnter, Acquire,
       EmptyRelease, DecCount, FreeBytes, Deliver, Dispatch, GiveBack, NestedDrain, Exit, RecheckCount,
       RecheckPermits, StackOverflow, Return, ContainerEvent,
       CancelDec, CancelFree, CallbackAnswer, StartBody, FinishBody, CancelBody, Goto
<1> QED
  BY <1>1, <1>2, <1>3

LEMMA QueueingStep == Inv /\ Queueing /\ [Next]_vars => Queueing'
<1> SUFFICES ASSUME Inv, Queueing, [Next]_vars PROVE Queueing'
  OBVIOUS
<1> USE DEF Inv, ControlOK
<1> DEFINE Places == DOMAIN queue
<1>0. /\ Places = 1 .. Len(queue) /\ Len(queue) \in Nat
      /\ DOMAIN offers = 1 .. Len(offers) /\ Len(offers) \in Nat
      /\ \A i \in Places : queue[i] \in Requests
      /\ \A i \in DOMAIN offers : offers[i] \in Requests
  BY LenProperties
<1>1. ASSUME UNCHANGED offers, \A r \in Requests : entry'[r] = "none" <=> entry[r] = "none"
      PROVE  Arrivals'
  BY <1>1 DEF Queueing, Arrivals
<1>2. ASSUME NEW r \in Requests, Offer(r) PROVE Queueing'
  <2> DEFINE n == Len(offers) + 1
             k == Len(queue) + 1
  <2>1. /\ pc[r] = "offer" /\ pc' = [pc EXCEPT ![r] = "drain"]
        /\ queue' = Append(queue, r) /\ offers' = Append(offers, r)
        /\ entry' = [entry EXCEPT ![r] = "active"] /\ UNCHANGED next
    BY <1>2 DEF Offer, Goto
  <2>2. entry[r] = "none"
    BY <2>1 DEF Wiring, Fresh, FreshLabels
  <2>3. /\ DOMAIN offers' = DOMAIN offers \cup {n} /\ n \notin DOMAIN offers /\ offers'[n] = r
        /\ \A i \in DOMAIN offers : offers'[i] = offers[i] /\ offers[i] # r /\ i < n
    <3>1. \A i \in DOMAIN offers : offers[i] # r
      BY <1>0, <2>2 DEF Queueing, Arrivals
    <3> QED
      BY <1>0, <2>1, <3>1, AppendProperties
  <2>4. /\ DOMAIN queue' = Places \cup {k} /\ k \in Nat \ Places /\ queue'[k] = r
        /\ \A i \in Places : queue'[i] = queue[i] /\ queue[i] # r /\ i < k
    <3>1. \A i \in Places : queue[i] # r
      BY <1>0, <2>2 DEF Wiring, InQueue
    <3> QED
      BY <1>0, <2>1, <3>1, AppendProperties
  <2> HIDE DEF n, k
  <2>5. Arrivals'
    <3>1. \A i, j \in DOMAIN offers' : offers'[i] = offers'[j] => i = j
      BY <2>3 DEF Queueing, Arrivals
    <3>2. \A q \in Requests : entry'[q] # "none" <=> \E i \in DOMAIN offers' : offers'[i] = q
      BY <2>1, <2>3 DEF Queueing, Arrivals
    <3> QED
      BY <3>1, <3>2 DEF Arrivals
  <2>6. \A p, q : p # r /\ (q # r => Before(p, q, offers)) => Before(p, q, offers')
    BY <1>0, <2>3 DEF Before
  <2>7. \A d \in Requests : pc'[d] = "claim" =>
          pc[d] = "claim" /\ next'[d] = next[d] /\ next[d] # r
    BY <2>1, <2>2 DEF Wiring, Polled
  <2>8. Ordered'
    <3>1. ASSUME NEW i \in DOMAIN queue', NEW j \in DOMAIN queue', i < j
          PROVE  Before(queue'[i], queue'[j], offers')
      <4>1. i \in Places
        BY <1>0, <2>4, <3>1
      <4>2. j \in Places => Before(queue[i], queue[j], offers)
        BY <3>1, <4>1 DEF Queueing, Ordered
      <4> QED
        BY <2>4, <2>6, <4>1, <4>2
    <3>2. ASSUME NEW d \in Requests, pc'[d] = "claim", NEW j \in DOMAIN queue'
          PROVE  Before(next'[d], queue'[j], offers')
      <4>1. j \in Places => Before(next[d], queue[j], offers)
        BY <2>7, <3>2 DEF Queueing, Ordered
      <4> QED
        BY <2>4, <2>6, <2>7, <3>2, <4>1
    <3> QED
      BY <3>1, <3>2 DEF Ordered
  <2>9. Found'
    <3>1. \A d \in Requests : pc[d] = "claim" => pc'[d] = "claim" /\ next'[d] = next[d]
      BY <2>1
    <3> SUFFICES ASSUME NEW q \in Requests, entry'[q] = "active"
                   PROVE  \/ \E i \in DOMAIN queue' : queue'[i] = q
                          \/ \E d \in Requests : pc'[d] = "claim" /\ next'[d] = q
      BY DEF Found
    <3>2. CASE q = r
      BY <2>4, <3>2
    <3>3. CASE q # r
      <4>1. entry[q] = "active"
        BY <2>1, <3>3
      <4>2. CASE \E i \in Places : queue[i] = q
        BY <2>4, <4>2
      <4>3. CASE \E d \in Requests : pc[d] = "claim" /\ next[d] = q
        BY <3>1, <4>3
      <4> QED
        BY <4>1, <4>2, <4>3 DEF Queueing, Found
    <3> QED
      BY <3>2, <3>3
  <2> QED
    BY <2>5, <2>8, <2>9 DEF Queueing
<1>3. ASSUME UNCHANGED <<offers, queue, entry>>,
             \A d \in Requests : pc'[d] = "claim" <=> pc[d] = "claim",
             \A d \in Requests : pc[d] = "claim" => next'[d] = next[d]
      PROVE  Queueing'
  <2>1. Arrivals'
    BY <1>1, <1>3
  <2>2. \A d \in Requests : pc'[d] = "claim" => pc[d] = "claim" /\ next'[d] = next[d]
    BY <1>3
  <2>3. Ordered'
    BY <1>3, <2>2 DEF Queueing, Ordered
  <2>4. Found'
    <3> SUFFICES ASSUME NEW q \in Requests, entry'[q] = "active"
                   PROVE  \/ \E i \in DOMAIN queue' : queue'[i] = q
                          \/ \E d \in Requests : pc'[d] = "claim" /\ next'[d] = q
      BY DEF Found
    <3>1. entry[q] = "active"
      BY <1>3
    <3>2. CASE \E i \in Places : queue[i] = q
      BY <1>3, <3>2
    <3>3. CASE \E d \in Requests : pc[d] = "claim" /\ next[d] = q
      BY <1>3, <3>3
    <3> QED
      BY <3>1, <3>2, <3>3 DEF Queueing, Found
  <2> QED
    BY <2>1, <2>3, <2>4 DEF Queueing
<1>4. ASSUME NEW r \in Requests, Poll(r), queue = <<>> PROVE Queueing'
  <2>1. /\ UNCHANGED <<offers, queue, entry, next>>
        /\ pc[r] = "poll" /\ pc' = [pc EXCEPT ![r] = "emptyRelease"]
    BY <1>4 DEF Poll, Goto, shared, request, history
  <2> QED
    BY <1>3, <2>1
<1>5. ASSUME NEW r \in Requests, Poll(r), queue # <<>> PROVE Queueing'
  <2>1. /\ pc[r] = "poll" /\ pc' = [pc EXCEPT ![r] = "claim"]
        /\ next' = [next EXCEPT ![r] = queue[1]] /\ queue' = Tail(queue)
        /\ UNCHANGED <<offers, entry>>
    BY <1>5 DEF Poll, Goto, request, history
  <2>2. /\ 1 \in Places /\ DOMAIN queue' = 1 .. Len(queue) - 1
        /\ \A i \in DOMAIN queue' : i + 1 \in Places /\ queue'[i] = queue[i + 1]
    BY <1>0, <1>5, <2>1, HeadTailProperties
  <2>3. \A d \in Requests : pc[d] # "claim"
    BY <2>1 DEF Wiring, OneDrainer, DrainLabels, TakenLabels
  <2>4. \A d \in Requests : pc'[d] = "claim" => d = r
    BY <2>1, <2>3
  <2>5. next'[r] = queue[1] /\ pc'[r] = "claim"
    BY <2>1
  <2>6. Ordered'
    <3>1. ASSUME NEW i \in DOMAIN queue', NEW j \in DOMAIN queue', i < j
          PROVE  Before(queue'[i], queue'[j], offers)
      <4>1. i + 1 \in Places /\ j + 1 \in Places /\ i + 1 < j + 1
        BY <1>0, <2>2, <3>1
      <4> QED
        BY <2>2, <4>1 DEF Queueing, Ordered
    <3>2. ASSUME NEW j \in DOMAIN queue' PROVE Before(queue[1], queue'[j], offers)
      <4>1. j + 1 \in Places /\ 1 < j + 1
        BY <1>0, <2>2
      <4> QED
        BY <2>2, <4>1 DEF Queueing, Ordered
    <3> QED
      BY <2>1, <2>4, <2>5, <3>1, <3>2 DEF Ordered
  <2>7. Found'
    <3>1. ASSUME NEW i \in Places, i # 1 PROVE \E j \in DOMAIN queue' : queue'[j] = queue[i]
      <4>1. i - 1 \in DOMAIN queue' /\ (i - 1) + 1 = i
        BY <1>0, <2>2, <3>1
      <4> QED
        BY <2>2, <4>1
    <3>2. \A q \in Requests : entry[q] = "active" => \E i \in Places : queue[i] = q
      BY <2>3 DEF Queueing, Found
    <3> SUFFICES ASSUME NEW q \in Requests, entry'[q] = "active"
                   PROVE  \/ \E i \in DOMAIN queue' : queue'[i] = q
                          \/ \E d \in Requests : pc'[d] = "claim" /\ next'[d] = q
      BY DEF Found
    <3>3. PICK i \in Places : queue[i] = q
      BY <2>1, <3>2
    <3>4. CASE i = 1
      BY <2>5, <3>3, <3>4
    <3>5. CASE i # 1
      BY <3>1, <3>3, <3>5
    <3> QED
      BY <3>4, <3>5
  <2> QED
    BY <1>1, <2>1, <2>6, <2>7 DEF Queueing
<1>6. ASSUME NEW r \in Requests, Claim(r) PROVE Queueing'
  <2>1. /\ pc[r] = "claim" /\ pc'[r] # "claim" /\ UNCHANGED <<offers, queue>>
        /\ \A d \in Requests \ {r} : pc'[d] = pc[d]
        /\ \/ entry[next[r]] = "active" /\ entry' = [entry EXCEPT ![next[r]] = "claimed"]
           \/ entry[next[r]] # "active" /\ UNCHANGED entry
    BY <1>6 DEF Claim, Goto, shared, request, history
  <2>2. \A d \in Requests : pc[d] = "claim" <=> d = r
    BY <2>1 DEF Wiring, OneDrainer, DrainLabels, TakenLabels
  <2>3. \A d \in Requests : pc'[d] # "claim"
    BY <2>1, <2>2
  <2>4. Arrivals'
    BY <1>1, <2>1
  <2>5. Ordered'
    BY <2>1, <2>3 DEF Queueing, Ordered
  <2>6. \A q \in Requests : entry'[q] = "active" => entry[q] = "active" /\ q # next[r]
    BY <2>1
  <2>7. Found'
    <3>1. ASSUME NEW q \in Requests, entry'[q] = "active"
          PROVE  \E i \in DOMAIN queue' : queue'[i] = q
      <4>1. entry[q] = "active" /\ q # next[r]
        BY <2>6, <3>1
      <4>2. \E i \in DOMAIN queue : queue[i] = q
        BY <2>2, <4>1 DEF Queueing, Found
      <4> QED
        BY <2>1, <4>2
    <3> QED
      BY <3>1 DEF Found
  <2> QED
    BY <2>4, <2>5, <2>7 DEF Queueing
<1>7. ASSUME NEW r \in Requests, CancelClaim(r) PROVE Queueing'
  <2>1. /\ UNCHANGED <<offers, queue, pc, next>>
        /\ \A q \in Requests : entry'[q] = "none" <=> entry[q] = "none"
        /\ \A q \in Requests : entry'[q] = "active" => entry[q] = "active"
    BY <1>7 DEF CancelClaim, shared, request, handler, history
  <2>2. Ordered' /\ Found'
    BY <2>1 DEF Queueing, Ordered, Found
  <2> QED
    BY <1>1, <2>1, <2>2 DEF Queueing
<1>8. ASSUME NEW r \in Requests, CancelRemove(r) PROVE Queueing'
  <2>1. /\ UNCHANGED <<offers, pc, next>> /\ entry[r] = "cancelled"
        /\ \A q \in Requests : entry'[q] = "none" <=> entry[q] = "none"
        /\ \A q \in Requests : entry'[q] = "active" => entry[q] = "active"
    <3>1. entry[r] = "cancelled"
      BY <1>8 DEF CancelRemove, Callback, Wiring, Cancelling
    <3> QED
      BY <1>8, <3>1 DEF CancelRemove, request, handler, history
  <2>2. CASE UNCHANGED queue
    <3>1. Ordered' /\ Found'
      BY <2>1, <2>2 DEF Queueing, Ordered, Found
    <3> QED
      BY <1>1, <2>1, <3>1 DEF Queueing
  <2>3. CASE \E k \in Places : queue[k] = r /\ queue' = RemoveAt(queue, k)
    <3>1. PICK i \in Places : queue[i] = r /\ queue' = RemoveAt(queue, i)
      BY <2>3
    <3> DEFINE Old(j) == IF j < i THEN j ELSE j + 1
    <3>2. /\ DOMAIN queue' = 1 .. Len(queue) - 1
          /\ \A j \in DOMAIN queue' : queue'[j] = queue[Old(j)]
      BY <1>0, <3>1, RemoveAtElements
    <3>3. \A j \in DOMAIN queue' : Old(j) \in Places
      BY <1>0, <3>2
    <3>4. \A j, k \in DOMAIN queue' : j < k => Old(j) < Old(k)
      BY <1>0, <3>2
    <3>5. \A k \in Places \ {i} : \E j \in DOMAIN queue' : Old(j) = k
      <4> SUFFICES ASSUME NEW k \in Places \ {i} PROVE \E j \in DOMAIN queue' : Old(j) = k
        OBVIOUS
      <4>1. CASE k < i
        BY <1>0, <3>2, <4>1
      <4>2. CASE i < k
        <5>1. k - 1 \in DOMAIN queue' /\ Old(k - 1) = k
          BY <1>0, <3>2, <4>2
        <5> QED
          BY <5>1
      <4> QED
        BY <1>0, <4>1, <4>2
    <3> HIDE DEF Old
    <3>6. Ordered'
      <4>1. \A j, k \in DOMAIN queue' : j < k => Before(queue'[j], queue'[k], offers)
        BY <3>2, <3>3, <3>4 DEF Queueing, Ordered
      <4>2. \A d \in Requests : pc[d] = "claim" =>
              \A j \in DOMAIN queue' : Before(next[d], queue'[j], offers)
        BY <3>2, <3>3 DEF Queueing, Ordered
      <4> QED
        BY <2>1, <4>1, <4>2 DEF Ordered
    <3>7. Found'
      <4>1. \A k \in Places : queue[k] # r => \E j \in DOMAIN queue' : queue'[j] = queue[k]
        BY <3>1, <3>2, <3>5
      <4> SUFFICES ASSUME NEW q \in Requests, entry'[q] = "active"
                     PROVE  \/ \E k \in DOMAIN queue' : queue'[k] = q
                            \/ \E d \in Requests : pc'[d] = "claim" /\ next'[d] = q
        BY DEF Found
      <4>2. entry[q] = "active" /\ q # r
        BY <2>1
      <4>3. CASE \E k \in Places : queue[k] = q
        BY <4>1, <4>2, <4>3
      <4>4. CASE \E d \in Requests : pc[d] = "claim" /\ next[d] = q
        BY <2>1, <4>4
      <4> QED
        BY <4>2, <4>3, <4>4 DEF Queueing, Found
    <3> QED
      BY <1>1, <2>1, <3>6, <3>7 DEF Queueing
  <2> QED
    BY <1>8, <2>2, <2>3 DEF CancelRemove, shared
<1>9. CASE \A r \in Requests : /\ ~Offer(r) /\ ~Poll(r) /\ ~Claim(r) /\ ~CancelClaim(r)
                               /\ ~CancelRemove(r)
  BY <1>3, <1>9, QuietForQueue
<1> QED
  BY <1>2, <1>4, <1>5, <1>6, <1>7, <1>8, <1>9

(* Handlers queue or answer their request before they end.                 *)
Handled == \A r \in Requests : pc[r] \notin FreshLabels => entry[r] # "none" \/ result[r] # "none"
Unanswered ==
  \A r \in Requests : entry[r] = "active" => result[r] = "none" /\ cb[r] \in {"quiet", "claim"}
InDrain ==
  \A r \in Requests : entry[r] = "claimed" /\ result[r] = "none" =>
    \E d \in Requests : pc[d] \in {"dec", "free", "deliver"} /\ next[d] = r
Fates == Handled /\ Unanswered /\ InDrain

LEMMA HandledStep == Inv /\ Handled /\ [Next]_vars => Handled'
<1> SUFFICES ASSUME Inv, Handled, [Next]_vars PROVE Handled'
  OBVIOUS
<1> USE DEF Inv, ControlOK
<1>1. \A r \in Requests : entry'[r] = "none" => entry[r] = "none"
  BY DEF request, Next, HandlerStep, CallbackStep, vars, EarlyAnswer, Admit, CheckCount, TryFast,
       FastDeliver, Reserve, CountUp, CountDown, Unreserve, Refuse, Offer, DrainEnter, Acquire,
       Poll, EmptyRelease, Claim, DecCount, FreeBytes, Deliver, Dispatch, GiveBack, NestedDrain,
       Exit, RecheckCount, RecheckPermits, StackOverflow, Return, ContainerEvent, CancelClaim,
       CancelRemove, CancelDec, CancelFree, CallbackAnswer, StartBody, FinishBody, CancelBody
<1>2. \A r \in Requests : result'[r] = "none" => result[r] = "none"
  BY DEF request, Next, HandlerStep, CallbackStep, vars, EarlyAnswer, Admit, CheckCount, TryFast,
       FastDeliver, Reserve, CountUp, CountDown, Unreserve, Refuse, Offer, DrainEnter, Acquire,
       Poll, EmptyRelease, Claim, DecCount, FreeBytes, Deliver, Dispatch, GiveBack, NestedDrain,
       Exit, RecheckCount, RecheckPermits, StackOverflow, Return, ContainerEvent, CancelClaim,
       CancelRemove, CancelDec, CancelFree, CallbackAnswer, StartBody, FinishBody, CancelBody
<1>3. ASSUME NEW q \in Requests,
             \/ Offer(q) \/ FastDeliver(q) \/ Refuse(q)
             \/ EarlyAnswer(q)
      PROVE  Handled'
  <2>1. entry'[q] # "none" \/ result'[q] # "none"
    BY <1>3 DEF Offer, FastDeliver, Refuse, EarlyAnswer
  <2>2. \A r \in Requests \ {q} : pc'[r] = pc[r]
    BY <1>3 DEF Offer, FastDeliver, Refuse, EarlyAnswer, Goto
  <2> QED
    BY <1>1, <1>2, <2>1, <2>2 DEF Handled
<1>4. CASE \A q \in Requests : /\ ~Offer(q) /\ ~FastDeliver(q) /\ ~Refuse(q)
                               /\ ~EarlyAnswer(q)
  <2>1. \A r \in Requests : pc'[r] \notin FreshLabels => pc[r] \notin FreshLabels
    BY <1>4 DEF FreshLabels, handler, Next, HandlerStep, CallbackStep, vars, Admit, CheckCount, TryFast, Reserve,
         CountUp, CountDown, Unreserve, DrainEnter, Acquire, Poll, EmptyRelease, Claim, DecCount,
         FreeBytes, Deliver, Dispatch, GiveBack, NestedDrain, Exit, RecheckCount, RecheckPermits,
         StackOverflow, Return, ContainerEvent, CancelClaim, CancelRemove, CancelDec, CancelFree,
         CallbackAnswer, StartBody, FinishBody, CancelBody, Goto
  <2> QED
    BY <1>1, <1>2, <2>1 DEF Handled
<1> QED
  BY <1>3, <1>4

LEMMA UnansweredStep == Inv /\ Unanswered /\ [Next]_vars => Unanswered'
<1> SUFFICES ASSUME Inv, Unanswered, [Next]_vars PROVE Unanswered'
  OBVIOUS
<1> USE DEF Inv, ControlOK
<1>1. ASSUME NEW r \in Requests, Offer(r) PROVE Unanswered'
  <2>1. result[r] = "none" /\ cb[r] = "quiet"
    BY <1>1 DEF Offer, Goto, Wiring, Fresh, FreshLabels
  <2> QED
    BY <1>1, <2>1 DEF Offer, Unanswered
<1>2. CASE \A r \in Requests : ~Offer(r)
  <2>1. \A r \in Requests : entry'[r] = "active" => entry[r] = "active"
    BY <1>2 DEF request, Next, HandlerStep, CallbackStep, vars, EarlyAnswer, Admit, CheckCount, TryFast,
         FastDeliver, Reserve, CountUp, CountDown, Unreserve, Refuse, DrainEnter, Acquire, Poll,
         EmptyRelease, Claim, DecCount, FreeBytes, Deliver, Dispatch, GiveBack, NestedDrain, Exit,
         RecheckCount, RecheckPermits, StackOverflow, Return, ContainerEvent, CancelClaim,
         CancelRemove, CancelDec, CancelFree, CallbackAnswer, StartBody, FinishBody, CancelBody
  <2>2. ASSUME NEW r \in Requests, entry'[r] = "active" PROVE result'[r] = "none"
    <3>1. /\ entry[r] = "active" /\ result[r] = "none" /\ cb[r] \in {"quiet", "claim"}
          /\ pc[r] \notin FreshLabels
          /\ \A d \in Requests : pc[d] = "deliver" => next[d] # r
      BY <2>1, <2>2 DEF Unanswered, Wiring, Fresh, Claimed
    <3>2. ASSUME NEW q \in Requests,
                 \/ FastDeliver(q) \/ Refuse(q) \/ EarlyAnswer(q)
          PROVE  result'[r] = result[r]
      <4>1. pc[q] \in FreshLabels /\ \E v : result' = [result EXCEPT ![q] = v]
        BY <3>2 DEF FastDeliver, Refuse, EarlyAnswer, Goto, FreshLabels
      <4> QED
        BY <3>1, <4>1
    <3>3. ASSUME NEW q \in Requests, Deliver(q) PROVE result'[r] = result[r]
      BY <3>1, <3>3 DEF Deliver, Goto, request
    <3>4. ASSUME NEW q \in Requests, CallbackAnswer(q) PROVE result'[r] = result[r]
      BY <3>1, <3>4 DEF CallbackAnswer, Callback
    <3>5. CASE \A q \in Requests : /\ ~FastDeliver(q) /\ ~Refuse(q) /\ ~Deliver(q) /\ ~CallbackAnswer(q)
                                   /\ ~EarlyAnswer(q)
      <4>1. UNCHANGED result
        BY <1>2, <3>5
           DEF request, Next, HandlerStep, CallbackStep, vars, Admit, CheckCount, TryFast, Reserve,
               CountUp, CountDown, Unreserve, DrainEnter, Acquire, Poll, EmptyRelease, Claim,
               DecCount, FreeBytes, Dispatch, GiveBack, NestedDrain, Exit, RecheckCount,
               RecheckPermits, StackOverflow, Return, ContainerEvent, CancelClaim, CancelRemove,
               CancelDec, CancelFree, StartBody, FinishBody, CancelBody
      <4> QED
        BY <3>1, <4>1
    <3> QED
      BY <3>1, <3>2, <3>3, <3>4, <3>5
  <2>3. ASSUME NEW r \in Requests, entry'[r] = "active" PROVE cb'[r] \in {"quiet", "claim"}
    <3>1. entry[r] = "active" /\ cb[r] \in {"quiet", "claim"}
      BY <2>1, <2>3 DEF Unanswered
    <3>2. ASSUME NEW q \in Requests, ContainerEvent(q)
          PROVE  cb'[r] \in {"quiet", "claim"}
      BY <3>1, <3>2 DEF ContainerEvent, Callback
    <3>3. ASSUME NEW q \in Requests, CancelClaim(q) PROVE cb'[r] \in {"quiet", "claim"}
      BY <2>3, <3>1, <3>3 DEF CancelClaim, Callback, request
    <3>4. ASSUME NEW q \in Requests,
                 CancelRemove(q) \/ CancelDec(q) \/ CancelFree(q) \/ CallbackAnswer(q)
          PROVE  cb'[r] \in {"quiet", "claim"}
      BY <3>1, <3>4 DEF CancelRemove, CancelDec, CancelFree, CallbackAnswer, Callback
    <3>5. CASE \A q \in Requests :
                 /\ ~ContainerEvent(q)
                 /\ ~CancelClaim(q) /\ ~CancelRemove(q) /\ ~CancelDec(q) /\ ~CancelFree(q)
                 /\ ~CallbackAnswer(q)
      <4>1. UNCHANGED cb
        BY <1>2, <3>5
           DEF Next, HandlerStep, CallbackStep, vars, EarlyAnswer, Admit, CheckCount,
               TryFast, FastDeliver, Reserve, CountUp, CountDown, Unreserve, Refuse, DrainEnter,
               Acquire, Poll, EmptyRelease, Claim, DecCount, FreeBytes, Deliver, Dispatch,
               GiveBack, NestedDrain, Exit, RecheckCount, RecheckPermits, StackOverflow, Return,
               StartBody, FinishBody, CancelBody
      <4> QED
        BY <3>1, <4>1
    <3> QED
      BY <3>2, <3>3, <3>4, <3>5
  <2> QED
    BY <2>2, <2>3 DEF Unanswered
<1> QED
  BY <1>1, <1>2

LEMMA InDrainStep == Inv /\ InDrain /\ [Next]_vars => InDrain'
<1> SUFFICES ASSUME Inv, InDrain, [Next]_vars PROVE InDrain'
  OBVIOUS
<1> USE DEF Inv, ControlOK
<1> DEFINE InHand == {"dec", "free", "deliver"}
<1>1. ASSUME NEW q \in Requests, entry'[q] = "claimed", result'[q] = "none",
             \A r \in Requests : ~Claim(r) /\ ~Deliver(r)
      PROVE  \E d \in Requests : pc'[d] \in InHand /\ next'[d] = q
  <2>1. entry[q] = "claimed"
    BY <1>1 DEF request, Next, HandlerStep, CallbackStep, vars, EarlyAnswer, Admit, CheckCount, TryFast,
         FastDeliver, Reserve, CountUp, CountDown, Unreserve, Refuse, Offer, DrainEnter, Acquire,
         Poll, EmptyRelease, DecCount, FreeBytes, Dispatch, GiveBack, NestedDrain, Exit,
         RecheckCount, RecheckPermits, StackOverflow, Return, ContainerEvent, CancelClaim,
         CancelRemove, CancelDec, CancelFree, CallbackAnswer, StartBody, FinishBody, CancelBody
  <2>2. result[q] = "none"
    BY <1>1 DEF request, Next, HandlerStep, CallbackStep, vars, EarlyAnswer, Admit, CheckCount, TryFast,
         FastDeliver, Reserve, CountUp, CountDown, Unreserve, Refuse, Offer, DrainEnter, Acquire,
         Poll, EmptyRelease, DecCount, FreeBytes, Dispatch, GiveBack, NestedDrain, Exit,
         RecheckCount, RecheckPermits, StackOverflow, Return, ContainerEvent, CancelClaim,
         CancelRemove, CancelDec, CancelFree, CallbackAnswer, StartBody, FinishBody, CancelBody
  <2>3. PICK d \in Requests : pc[d] \in InHand /\ next[d] = q
    BY <2>1, <2>2 DEF InDrain
  <2>4. pc'[d] \in InHand
    BY <1>1, <2>3 DEF handler, Next, HandlerStep, CallbackStep, vars, EarlyAnswer, Admit, CheckCount, TryFast,
         FastDeliver, Reserve, CountUp, CountDown, Unreserve, Refuse, Offer, DrainEnter, Acquire,
         Poll, EmptyRelease, DecCount, FreeBytes, Dispatch, GiveBack, NestedDrain, Exit,
         RecheckCount, RecheckPermits, StackOverflow, Return, ContainerEvent, CancelClaim,
         CancelRemove, CancelDec, CancelFree, CallbackAnswer, StartBody, FinishBody, CancelBody,
         Goto
  <2>5. next'[d] = q
    BY <1>1, <2>3 DEF handler, Next, HandlerStep, CallbackStep, vars, EarlyAnswer, Admit, CheckCount, TryFast,
         FastDeliver, Reserve, CountUp, CountDown, Unreserve, Refuse, Offer, DrainEnter, Acquire,
         Poll, EmptyRelease, DecCount, FreeBytes, Dispatch, GiveBack, NestedDrain, Exit,
         RecheckCount, RecheckPermits, StackOverflow, Return, ContainerEvent, CancelClaim,
         CancelRemove, CancelDec, CancelFree, CallbackAnswer, StartBody, FinishBody, CancelBody,
         Goto
  <2> QED
    BY <2>4, <2>5
<1>2. ASSUME NEW r \in Requests, Claim(r) PROVE InDrain'
  <2> SUFFICES ASSUME NEW q \in Requests, entry'[q] = "claimed", result'[q] = "none"
               PROVE  \E d \in Requests : pc'[d] \in InHand /\ next'[d] = q
    BY DEF InDrain
  <2>1. /\ pc[r] = "claim" /\ next[r] \in Requests /\ UNCHANGED result
        /\ \A d \in Requests \ {r} : pc'[d] = pc[d] /\ next'[d] = next[d]
    BY <1>2 DEF Claim, Goto, Wiring, NextInUse, TakenLabels, request
  <2>2. CASE entry[q] = "claimed"
    <3>1. PICK d \in Requests : pc[d] \in InHand /\ next[d] = q
      BY <2>1, <2>2 DEF InDrain
    <3> QED
      BY <2>1, <3>1
  <2>3. CASE entry[q] # "claimed"
    <3>1. q = next[r] /\ pc'[r] = "dec" /\ next'[r] = next[r]
      BY <1>2, <2>3 DEF Claim, Goto, request
    <3> QED
      BY <3>1
  <2> QED
    BY <2>2, <2>3
<1>3. ASSUME NEW r \in Requests, Deliver(r) PROVE InDrain'
  <2> SUFFICES ASSUME NEW q \in Requests, entry'[q] = "claimed", result'[q] = "none"
               PROVE  \E d \in Requests : pc'[d] \in InHand /\ next'[d] = q
    BY DEF InDrain
  <2>1. /\ pc[r] = "deliver" /\ next[r] \in Requests /\ UNCHANGED entry
        /\ \A d \in Requests \ {r} : pc'[d] = pc[d] /\ next'[d] = next[d]
        /\ result[q] = "none" /\ q # next[r]
    BY <1>3 DEF Deliver, Goto, Wiring, NextInUse, TakenLabels, request
  <2>2. PICK d \in Requests : pc[d] \in InHand /\ next[d] = q
    BY <2>1 DEF InDrain
  <2> QED
    BY <2>1, <2>2
<1> QED
  BY <1>1, <1>2, <1>3 DEF InDrain

-----------------------------------------------------------------------------
(* The refinement.                                                         *)

LEMMA StandingOf ==
  ASSUME NEW r \in Requests
  PROVE  Outcome[r] = Standing(stream[r], entry[r], result[r])
BY DEF Outcome

(* A step that concerns one request moves that one.                        *)
LEMMA OutcomeMoves ==
  ASSUME NEW r \in Requests, NEW to, Standing(stream'[r], entry'[r], result'[r]) = to,
         \A q \in Requests \ {r} :
           stream'[q] = stream[q] /\ entry'[q] = entry[q] /\ result'[q] = result[q]
  PROVE  Outcome' = [Outcome EXCEPT ![r] = to]
<1>1. \A q \in Requests \ {r} :
        Standing(stream'[q], entry'[q], result'[q]) = Standing(stream[q], entry[q], result[q])
  OBVIOUS
<1> QED
  BY <1>1 DEF Outcome

LEMMA OutcomeStays ==
  ASSUME NEW r \in Requests,
         Standing(stream'[r], entry'[r], result'[r]) = Standing(stream[r], entry[r], result[r]),
         \A q \in Requests \ {r} :
           stream'[q] = stream[q] /\ entry'[q] = entry[q] /\ result'[q] = result[q]
  PROVE  UNCHANGED Outcome
<1>1. \A q \in Requests :
        Standing(stream'[q], entry'[q], result'[q]) = Standing(stream[q], entry[q], result[q])
  OBVIOUS
<1> QED
  BY <1>1 DEF Outcome

(* The instance has its own copy of FiniteSets.                            *)
LEMMA SameCardinality == ASSUME NEW S PROVE Service!Cardinality(S) = Cardinality(S)
BY DEF Service!Cardinality, Cardinality

(* Whoever holds a permit without a body may open one.                     *)
LEMMA PermitForBody ==
  ASSUME Inv, NEW d \in HandlerPermits
  PROVE  Service!Cardinality(Service!At("streaming")) < MaxConcurrency
<1>1. Service!At("streaming") \subseteq BodyPermits
  BY DEF Service!At, Outcome, Standing, BodyPermits, Inv, ControlOK, StreamStates, EntryStates, Results
<1>2. /\ IsFiniteSet(BodyPermits) /\ IsFiniteSet(HandlerPermits)
      /\ Cardinality(BodyPermits) \in Nat /\ Cardinality(HandlerPermits) \in Nat
      /\ Cardinality(Service!At("streaming")) \in Nat
  <2>1. BodyPermits \subseteq Requests /\ HandlerPermits \subseteq Requests
    BY DEF BodyPermits, HandlerPermits
  <2> QED
    BY <1>1, <2>1, DownloadAssumption, FS_Subset, FS_CardinalityType
<1>3. Cardinality(Service!At("streaming")) <= Cardinality(BodyPermits)
  BY <1>1, <1>2, FS_Subset
<1>4. Cardinality(HandlerPermits) # 0
  BY <1>2, FS_EmptySet
<1>5. permits \in Nat /\ permits + Cardinality(HandlerPermits) + Cardinality(BodyPermits) = MaxConcurrency
  BY DEF Inv, CountersOK, PermitsConserved
<1>6. Cardinality(Service!At("streaming")) < MaxConcurrency
  BY <1>2, <1>3, <1>4, <1>5
<1> QED
  BY <1>6, SameCardinality

(* Whoever is about to queue has a place in the line.                      *)
LEMMA PlaceInLine ==
  ASSUME Inv, LimitKept, NEW r \in Requests, pc[r] = "offer", entry[r] = "none"
  PROVE  Service!Cardinality(Service!At("waiting")) < MaxQueueRequests
<1> DEFINE W == Service!At("waiting")
<1>1. W \subseteq Admitted /\ r \in Admitted /\ r \notin W
  BY DEF Service!At, Outcome, Standing, Admitted, Inv, ControlOK, StreamStates, EntryStates, Results
<1>2. /\ IsFiniteSet(Admitted) /\ Cardinality(Admitted) \in Nat /\ IsFiniteSet(W)
      /\ Cardinality(W) \in Nat /\ Cardinality(W \cup {r}) = Cardinality(W) + 1
      /\ MaxQueueRequests \in Nat
  BY <1>1, AdmittedAreCounted, DownloadAssumption, FS_Subset, FS_CardinalityType, FS_AddElement
<1>3. Cardinality(W \cup {r}) <= Cardinality(Admitted)
  BY <1>1, <1>2, FS_Subset
<1>4. Cardinality(W) < MaxQueueRequests
  BY <1>2, <1>3 DEF LimitKept
<1> QED
  BY <1>4, SameCardinality

(* The entry that a drain claims is the first of those who wait.           *)
LEMMA ClaimsTheFirst ==
  ASSUME Inv, Queueing, NEW d \in Requests, pc[d] = "claim", entry[next[d]] = "active"
  PROVE  Service!First(next[d])
<1> DEFINE q == next[d]
<1>1. q \in Requests
  BY DEF Inv, Wiring, NextInUse, TakenLabels
<1>2. PICK k \in DOMAIN offers : offers[k] = q
  BY <1>1 DEF Queueing, Arrivals
<1>3. DOMAIN offers = 1 .. Len(offers) /\ Len(offers) \in Nat
      /\ \A i \in DOMAIN offers : offers[i] \in Requests
  BY LenProperties DEF Inv, ControlOK
<1>4. ASSUME NEW i \in 1 .. k - 1, Outcome[offers[i]] = "waiting" PROVE FALSE
  <2>1. i \in DOMAIN offers /\ i < k /\ offers[i] \in Requests /\ offers[i] # q
    <3>1. i \in DOMAIN offers /\ i < k /\ i # k
      BY <1>3
    <3> QED
      BY <1>2, <1>3, <3>1 DEF Queueing, Arrivals
  <2>2. entry[offers[i]] = "active"
    BY <1>4, <2>1 DEF Outcome, Standing, Inv, ControlOK, StreamStates, EntryStates, Results
  <2>3. CASE \E j \in DOMAIN queue : queue[j] = offers[i]
    <3>1. PICK j \in DOMAIN queue : queue[j] = offers[i]
      BY <2>3
    <3>2. Before(q, queue[j], offers)
      BY DEF Queueing, Ordered
    <3>3. k < i
      BY <1>2, <2>1, <3>1, <3>2 DEF Before
    <3> QED
      BY <1>3, <2>1, <3>3
  <2>4. CASE \E e \in Requests : pc[e] = "claim" /\ next[e] = offers[i]
    <3>1. \A e \in Requests : pc[e] = "claim" => e = d
      BY DEF Inv, Wiring, OneDrainer, DrainLabels, TakenLabels
    <3> QED
      BY <2>1, <2>4, <3>1
  <2> QED
    BY <2>1, <2>2, <2>3, <2>4 DEF Queueing, Found
<1> QED
  BY <1>2, <1>4 DEF Service!First

LEMMA ServiceInit == Init => Service!Init
<1> SUFFICES ASSUME Init PROVE Service!Init
  OBVIOUS
<1>1. \A r \in Requests : Standing(stream[r], entry[r], result[r]) = "new"
  BY DEF Init, Standing
<1> QED
  BY <1>1 DEF Init, Outcome, Service!Init

(* Each step is one of the service, or the clients see nothing of it.      *)
LEMMA ServiceStep ==
  ASSUME Inv, Queueing, Fates, LimitKept, [Next]_vars
  PROVE  [Service!Next]_(Service!vars)
<1> DEFINE Stutter == UNCHANGED <<Outcome, offers>>
           Others(r) == \A q \in Requests \ {r} :
                          stream'[q] = stream[q] /\ entry'[q] = entry[q] /\ result'[q] = result[q]
           Moves(r, from, to) == Outcome[r] = from /\ Outcome' = [Outcome EXCEPT ![r] = to]
<1>0. /\ entry \in [Requests -> EntryStates] /\ result \in [Requests -> Results]
      /\ stream \in [Requests -> StreamStates]
  BY DEF Inv, ControlOK
<1>1. ASSUME NEW r \in Requests, NEW to, Others(r),
             Standing(stream'[r], entry'[r], result'[r]) = to
      PROVE  Outcome' = [Outcome EXCEPT ![r] = to]
  BY <1>1, OutcomeMoves
<1>2. ASSUME NEW r \in Requests, Others(r), UNCHANGED offers,
             Standing(stream'[r], entry'[r], result'[r]) = Standing(stream[r], entry[r], result[r])
      PROVE  Stutter
  BY <1>2, OutcomeStays
<1> HIDE DEF Stutter
<1>3. ASSUME NEW r \in Requests, EarlyAnswer(r)
      PROVE  Service!Refuse(r)
  <2>1. /\ entry[r] = "none" /\ result[r] = "none" /\ stream[r] = "none"
        /\ result' = [result EXCEPT ![r] = "4xx"] /\ UNCHANGED <<entry, stream, offers>>
    BY <1>3 DEF EarlyAnswer, Goto, history, Inv, Wiring, Fresh, FreshLabels
  <2>2. Standing(stream[r], entry[r], result[r]) = "new"
        /\ Standing(stream'[r], entry'[r], result'[r]) = "refused"
    BY <1>0, <2>1 DEF Standing
  <2>3. Moves(r, "new", "refused")
    BY <1>0, <1>1, <2>1, <2>2 DEF Outcome
  <2> QED
    BY <2>1, <2>3 DEF Service!Refuse, Service!Becomes
<1>4. ASSUME NEW r \in Requests, FastDeliver(r) PROVE Service!StreamAtOnce(r)
  <2>1. /\ entry[r] = "none" /\ result[r] = "none" /\ stream[r] = "none" /\ r \in HandlerPermits
        /\ result' = [result EXCEPT ![r] = "body"] /\ stream' = [stream EXCEPT ![r] = "accepted"]
        /\ UNCHANGED <<entry, offers>>
    BY <1>4 DEF FastDeliver, Goto, history, Inv, Wiring, Fresh, FreshLabels, HandlerPermits
  <2>2. Standing(stream[r], entry[r], result[r]) = "new"
        /\ Standing(stream'[r], entry'[r], result'[r]) = "streaming"
    BY <1>0, <2>1 DEF Standing
  <2>3. Moves(r, "new", "streaming")
    BY <1>0, <1>1, <2>1, <2>2 DEF Outcome
  <2>4. Service!Cardinality(Service!At("streaming")) < MaxConcurrency
    BY <2>1, PermitForBody
  <2> QED
    BY <2>1, <2>3, <2>4 DEF Service!StreamAtOnce, Service!Becomes
<1>5. ASSUME NEW r \in Requests, Refuse(r) PROVE Service!Refuse(r)
  <2>1. /\ entry[r] = "none" /\ result[r] = "none" /\ stream[r] = "none"
        /\ result' = [result EXCEPT ![r] = "503"] /\ UNCHANGED <<entry, stream, offers>>
    BY <1>5 DEF Refuse, Goto, history, Inv, Wiring, Fresh, FreshLabels
  <2>2. Standing(stream[r], entry[r], result[r]) = "new"
        /\ Standing(stream'[r], entry'[r], result'[r]) = "refused"
    BY <1>0, <2>1 DEF Standing
  <2>3. Moves(r, "new", "refused")
    BY <1>0, <1>1, <2>1, <2>2 DEF Outcome
  <2> QED
    BY <2>1, <2>3 DEF Service!Refuse, Service!Becomes
<1>6. ASSUME NEW r \in Requests, Offer(r) PROVE Service!Join(r)
  <2>1. /\ pc[r] = "offer" /\ entry[r] = "none" /\ result[r] = "none" /\ stream[r] = "none"
        /\ entry' = [entry EXCEPT ![r] = "active"] /\ UNCHANGED <<result, stream>>
        /\ offers' = Append(offers, r)
    BY <1>6 DEF Offer, Goto, Inv, Wiring, Fresh, FreshLabels
  <2>2. Standing(stream[r], entry[r], result[r]) = "new"
        /\ Standing(stream'[r], entry'[r], result'[r]) = "waiting"
    BY <1>0, <2>1 DEF Standing
  <2>3. Moves(r, "new", "waiting")
    BY <1>0, <1>1, <2>1, <2>2 DEF Outcome
  <2>4. Service!Cardinality(Service!At("waiting")) < MaxQueueRequests
    BY <2>1, PlaceInLine
  <2> QED
    BY <2>1, <2>3, <2>4 DEF Service!Join, Service!Becomes
<1>7. ASSUME NEW d \in Requests, Claim(d)
      PROVE  Stutter \/ \E q \in Requests : Service!Choose(q)
  <2> DEFINE q == next[d]
  <2>1. CASE entry[q] # "active"
    <3>1. UNCHANGED <<entry, result, stream, offers>>
      BY <1>7, <2>1 DEF Claim, request, history
    <3> QED
      BY <1>7, <1>2, <3>1
  <2>2. CASE entry[q] = "active"
    <3>1. /\ pc[d] = "claim" /\ q \in Requests /\ result[q] = "none" /\ stream[q] = "none"
          /\ entry' = [entry EXCEPT ![q] = "claimed"] /\ UNCHANGED <<result, stream, offers>>
      <4>1. pc[d] = "claim" /\ q \in Requests
        BY <1>7 DEF Claim, Goto, Inv, Wiring, NextInUse, TakenLabels
      <4>2. result[q] = "none"
        BY <2>2, <4>1 DEF Fates, Unanswered
      <4>3. stream[q] = "none"
        BY <4>1, <4>2 DEF Inv, Wiring, Served
      <4> QED
        BY <1>7, <2>2, <4>1, <4>2, <4>3 DEF Claim, history
    <3>2. Standing(stream[q], entry[q], result[q]) = "waiting"
          /\ Standing(stream'[q], entry'[q], result'[q]) = "chosen"
      BY <1>0, <2>2, <3>1 DEF Standing
    <3>3. Moves(q, "waiting", "chosen")
      BY <1>0, <1>1, <3>1, <3>2 DEF Outcome
    <3>4. Service!At("chosen") = {}
      <4> SUFFICES ASSUME NEW p \in Requests, Outcome[p] = "chosen" PROVE FALSE
        BY DEF Service!At
      <4>1. entry[p] = "claimed" /\ result[p] = "none"
        BY <1>0 DEF Outcome, Standing, StreamStates, EntryStates, Results
      <4>2. PICK e \in Requests : pc[e] \in {"dec", "free", "deliver"}
        BY <4>1 DEF Fates, InDrain
      <4> QED
        BY <3>1, <4>2 DEF Inv, Wiring, OneDrainer, DrainLabels, TakenLabels
    <3>5. Service!First(q)
      BY <2>2, <3>1, ClaimsTheFirst
    <3> QED
      BY <3>1, <3>3, <3>4, <3>5 DEF Service!Choose, Service!Becomes
  <2> QED
    BY <2>1, <2>2
<1>8. ASSUME NEW d \in Requests, Deliver(d)
      PROVE  Stutter \/ \E q \in Requests : Service!StreamChosen(q)
  <2> DEFINE q == next[d]
  <2>1. CASE result[q] # "none"
    <3>1. UNCHANGED <<entry, result, stream, offers>>
      BY <1>8, <2>1 DEF Deliver, request, history
    <3> QED
      BY <1>8, <1>2, <3>1
  <2>2. CASE result[q] = "none"
    <3>1. /\ q \in Requests /\ entry[q] = "claimed" /\ stream[q] = "none" /\ d \in HandlerPermits
          /\ result' = [result EXCEPT ![q] = "body"] /\ stream' = [stream EXCEPT ![q] = "accepted"]
          /\ UNCHANGED <<entry, offers>>
      <4>1. pc[d] = "deliver" /\ q \in Requests /\ entry[q] = "claimed"
        BY <1>8 DEF Deliver, Goto, Inv, Wiring, NextInUse, TakenLabels, Claimed
      <4>2. stream[q] = "none"
        BY <2>2, <4>1 DEF Inv, Wiring, Served
      <4> QED
        BY <1>8, <2>2, <4>1, <4>2 DEF Deliver, HandlerPermits, history
    <3>2. Standing(stream[q], entry[q], result[q]) = "chosen"
          /\ Standing(stream'[q], entry'[q], result'[q]) = "streaming"
      BY <1>0, <2>2, <3>1 DEF Standing
    <3>3. Moves(q, "chosen", "streaming")
      BY <1>0, <1>1, <3>1, <3>2 DEF Outcome
    <3>4. Service!Cardinality(Service!At("streaming")) < MaxConcurrency
      BY <3>1, PermitForBody
    <3> QED
      BY <3>1, <3>3, <3>4 DEF Service!StreamChosen, Service!Becomes
  <2> QED
    BY <2>1, <2>2
(* A body goes from hand to hand, or ends.                                 *)
<1>9. ASSUME NEW r \in Requests, NEW to \in StreamStates,
             stream[r] \in {"accepted", "submitted", "running"}, to \notin {"none"},
             stream' = [stream EXCEPT ![r] = to], UNCHANGED <<entry, result, offers>>
      PROVE  Stutter \/ Service!Close(r)
  <2>1. Others(r) /\ stream'[r] = to
    BY <1>0, <1>9
  <2>2. Standing(stream[r], entry[r], result[r]) = "streaming"
    BY <1>9 DEF Standing
  <2>3. CASE to \in {"accepted", "submitted", "running"}
    <3>1. Standing(stream'[r], entry'[r], result'[r]) = "streaming"
      BY <2>1, <2>3 DEF Standing
    <3> QED
      BY <1>2, <1>9, <2>1, <2>2, <3>1
  <2>4. CASE to \in {"done", "lost"}
    <3>1. Standing(stream'[r], entry'[r], result'[r]) = "closed"
      BY <2>1, <2>4 DEF Standing
    <3>2. Moves(r, "streaming", "closed")
      BY <1>1, <2>1, <2>2, <3>1 DEF Outcome
    <3> QED
      BY <1>9, <3>2 DEF Service!Close, Service!Becomes
  <2> QED
    BY <1>9, <2>3, <2>4 DEF StreamStates
<1>10. ASSUME NEW d \in Requests, Dispatch(d)
       PROVE  Stutter \/ \E q \in Requests : Service!Close(q)
  <2>1. /\ next[d] \in Requests /\ stream[next[d]] = "accepted"
        /\ \E to \in {"submitted", "lost"} : stream' = [stream EXCEPT ![next[d]] = to]
        /\ UNCHANGED <<entry, result, offers>>
    BY <1>10 DEF Dispatch, Goto, request, history, Inv, Wiring, Undispatched, NextInUse, TakenLabels
  <2> QED
    BY <1>9, <2>1 DEF StreamStates
<1>11. ASSUME NEW r \in Requests,
              StackOverflow(r) \/ Return(r) \/ StartBody(r) \/ FinishBody(r) \/ CancelBody(r)
       PROVE  Stutter \/ Service!Close(r)
  <2>1. UNCHANGED <<entry, result, offers>>
    BY <1>11 DEF StackOverflow, Return, StartBody, FinishBody, CancelBody, request, history
  <2>2. \/ UNCHANGED stream
        \/ /\ stream[r] \in {"accepted", "submitted", "running"}
           /\ \E to \in {"lost", "submitted", "running", "done"} : stream' = [stream EXCEPT ![r] = to]
    BY <1>0, <1>11 DEF StackOverflow, Return, StartBody, FinishBody, CancelBody
  <2> QED
    BY <1>2, <1>9, <2>1, <2>2 DEF StreamStates
<1>12. ASSUME NEW r \in Requests, CancelClaim(r) PROVE Stutter \/ Service!Leave(r)
  <2>1. CASE entry[r] # "active"
    <3>1. UNCHANGED <<entry, result, stream, offers>>
      BY <1>12, <2>1 DEF CancelClaim, request, history
    <3> QED
      BY <1>2, <1>12, <3>1
  <2>2. CASE entry[r] = "active"
    <3>1. /\ result[r] = "none" /\ stream[r] = "none"
          /\ entry' = [entry EXCEPT ![r] = "cancelled"] /\ UNCHANGED <<result, stream, offers>>
      <4>1. result[r] = "none"
        BY <2>2 DEF Fates, Unanswered
      <4>2. stream[r] = "none"
        BY <4>1 DEF Inv, Wiring, Served
      <4> QED
        BY <1>12, <2>2, <4>1, <4>2 DEF CancelClaim, history
    <3>2. Standing(stream[r], entry[r], result[r]) = "waiting"
          /\ Standing(stream'[r], entry'[r], result'[r]) = "refused"
      BY <1>0, <2>2, <3>1 DEF Standing
    <3>3. Moves(r, "waiting", "refused")
      BY <1>0, <1>1, <3>1, <3>2 DEF Outcome
    <3> QED
      BY <3>1, <3>3 DEF Service!Leave, Service!Becomes
  <2> QED
    BY <2>1, <2>2
<1>13. ASSUME NEW r \in Requests, CancelRemove(r) PROVE Stutter
  <2>1. /\ entry[r] = "cancelled" /\ UNCHANGED <<result, stream, offers>>
        /\ entry' = entry \/ entry' = [entry EXCEPT ![r] = "leaked"]
    BY <1>13 DEF CancelRemove, Callback, request, history, Inv, Wiring, Cancelling
  <2>2. stream[r] = "none"
    BY <2>1 DEF Inv, Wiring, Served
  <2>3. Standing(stream'[r], entry'[r], result'[r]) = Standing(stream[r], entry[r], result[r])
    BY <1>0, <2>1, <2>2 DEF Standing
  <2> QED
    BY <1>0, <1>2, <2>1, <2>3
<1>14. ASSUME NEW r \in Requests, CallbackAnswer(r) PROVE Stutter \/ Service!RefuseChosen(r)
  <2>1. /\ cb[r] = "answer" /\ UNCHANGED <<entry, stream, offers>>
        /\ result' = [result EXCEPT ![r] = IF result[r] = "none" THEN "503" ELSE result[r]]
    BY <1>14 DEF CallbackAnswer, Callback, history
  <2>2. CASE result[r] # "none"
    <3>1. UNCHANGED result
      BY <1>0, <2>1, <2>2
    <3> QED
      BY <1>2, <2>1, <3>1
  <2>3. CASE result[r] = "none"
    <3>1. stream[r] = "none"
      BY <2>3 DEF Inv, Wiring, Served
    <3>2. entry[r] \in {"claimed", "cancelled", "leaked"}
      <4>1. entry[r] # "active"
        BY <2>1 DEF Fates, Unanswered
      <4>2. entry[r] # "none"
        BY <2>1, <2>3 DEF Fates, Handled, Inv, Wiring, Fresh
      <4> QED
        BY <1>0, <4>1, <4>2 DEF EntryStates
    <3>3. Standing(stream'[r], entry'[r], result'[r]) = "refused" /\ Others(r)
      BY <1>0, <2>1, <2>3, <3>1 DEF Standing
    <3>4. CASE entry[r] = "claimed"
      <4>1. Standing(stream[r], entry[r], result[r]) = "chosen"
        BY <2>3, <3>1, <3>4 DEF Standing
      <4>2. Moves(r, "chosen", "refused")
        BY <1>1, <3>3, <4>1 DEF Outcome
      <4> QED
        BY <2>1, <4>2 DEF Service!RefuseChosen, Service!Becomes
    <3>5. CASE entry[r] # "claimed"
      <4>1. Standing(stream[r], entry[r], result[r]) = "refused"
        BY <2>3, <3>1, <3>2, <3>5 DEF Standing
      <4> QED
        BY <1>2, <2>1, <3>3, <4>1
    <3> QED
      BY <3>4, <3>5
  <2> QED
    BY <2>2, <2>3
<1>15. CASE \A r \in Requests :
              /\ ~EarlyAnswer(r)
              /\ ~FastDeliver(r) /\ ~Refuse(r) /\ ~Offer(r) /\ ~Claim(r) /\ ~Deliver(r)
              /\ ~Dispatch(r) /\ ~StackOverflow(r) /\ ~Return(r) /\ ~CancelClaim(r)
              /\ ~CancelRemove(r) /\ ~CallbackAnswer(r)
              /\ ~StartBody(r) /\ ~FinishBody(r) /\ ~CancelBody(r)
  <2>1. UNCHANGED <<entry, result, stream, offers>>
    BY <1>15
       DEF vars, request, history, Next, HandlerStep, CallbackStep, Admit, CheckCount,
           TryFast, Reserve, CountUp, CountDown, Unreserve, DrainEnter, Acquire, Poll,
           EmptyRelease, DecCount, FreeBytes, GiveBack, NestedDrain, Exit, RecheckCount,
           RecheckPermits, ContainerEvent, CancelDec, CancelFree
  <2>2. \A q \in Requests :
          Standing(stream'[q], entry'[q], result'[q]) = Standing(stream[q], entry[q], result[q])
    BY <2>1
  <2>3. Stutter
    BY <2>1, <2>2 DEF Stutter, Outcome
  <2> QED
    BY <2>3 DEF Stutter, Service!vars
<1>16. Stutter => UNCHANGED Service!vars
  BY DEF Stutter, Service!vars
<1> QED
  BY <1>3, <1>4, <1>5, <1>6, <1>7, <1>8, <1>10, <1>11, <1>12, <1>13, <1>14, <1>15, <1>16
     DEF Service!Next

(* FileController's downloads are the service that clients were promised:  *)
(* never more than MaxConcurrency bodies, never more than MaxQueueRequests *)
(* waiting, first come first served although handlers, the drain and the   *)
(* callbacks of the container interleave, and one final outcome for each.  *)
THEOREM ServiceIsImplemented == Spec => ImplementsService
<1>1. Init => Queueing /\ Fates /\ LimitKept
  <2> SUFFICES ASSUME Init PROVE Queueing /\ Fates /\ LimitKept
    OBVIOUS
  <2>1. DOMAIN offers = {} /\ DOMAIN queue = {}
    BY EmptySeq, LenProperties DEF Init
  <2>2. Queueing
    BY <2>1 DEF Init, Queueing, Arrivals, Ordered, Found
  <2>3. Fates
    BY DEF Init, Fates, Handled, Unanswered, InDrain, FreshLabels
  <2>4. LimitKept
    BY LimitInit
  <2> QED
    BY <2>2, <2>3, <2>4
<1>2. Inv /\ Fates /\ [Next]_vars => Fates'
  BY HandledStep, UnansweredStep, InDrainStep DEF Fates
<1>3. Inv /\ Inv' /\ LimitKept /\ [Next]_vars => LimitKept'
  BY LimitStep
<1>4. Inv /\ Queueing /\ Fates /\ LimitKept /\ [Next]_vars => [Service!Next]_(Service!vars)
  BY ServiceStep
<1>5. Spec => Service!Init /\ [][Service!Next]_(Service!vars)
  BY <1>1, <1>2, <1>3, <1>4, ServiceInit, QueueingStep, Invariance, PTL DEF Spec
<1> QED
  BY <1>5 DEF ImplementsService, Service!Spec
=============================================================================
