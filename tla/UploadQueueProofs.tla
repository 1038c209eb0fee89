-------------------------- MODULE UploadQueueProofs -------------------------
(***************************************************************************)
(* Proofs about UploadQueue, for any finite set of uploads, any sizes and  *)
(* any limits.                                                             *)
(***************************************************************************)
EXTENDS UploadQueue, DataLemmas

(* Labels before an upload is queued or executed, labels inside            *)
(* synchronized(uploadQueueLock), and labels at which next is in use.      *)
FreshLabels ==
  {"new", "checkCount", "tryPermit", "tryBytes", "reserve", "countUp", "countDown", "unreserve",
   "refuse", "offer"}
HeadLabels == {"pollPermit", "pollBytes", "undo", "take"}
BackLabels == {"backPermit", "backBytes"}
TakenLabels == {"dec", "free"}
ExecuteLabels == {"store", "succeed", "fail", "freeInFlight", "freePermit"}
LockLabels == {"look"} \cup HeadLabels \cup BackLabels \cup TakenLabels
UseLabels == HeadLabels \cup BackLabels \cup TakenLabels \cup ExecuteLabels
HolderLabels ==
  {"tryBytes", "pollBytes", "undo", "take", "backPermit", "dec", "free", "store", "succeed",
   "fail", "freeInFlight", "freePermit"}

Shape ==
  /\ queue \in Seq(Requests) /\ offers \in Seq(Requests) /\ locked \in BOOLEAN
  /\ entry \in [Requests -> EntryStates] /\ result \in [Requests -> Results]
  /\ pc \in [Requests -> HandlerLabels] /\ cb \in [Requests -> CallbackLabels]
  /\ next \in [Requests -> Requests \cup {NoRequest}]
  /\ stored \subseteq Requests
  /\ permits \in Nat /\ dropped \in Nat

(* The lock has one owner.                                                 *)
OneOwner ==
  \A r \in Requests : pc[r] \in LockLabels =>
    locked /\ \A d \in Requests : pc[d] \in LockLabels => d = r

(* No upload is in the hands of two threads.                               *)
OneHandler == \A d, e \in Requests : next[d] = next[e] /\ next[d] # NoRequest => d = e

(* What a thread knows of its request, and of the upload it handles.       *)
Knows(r) ==
  /\ pc[r] \in FreshLabels =>
       entry[r] = "none" /\ r \notin stored /\ \A i \in 1 .. Len(offers) : offers[i] # r
  /\ pc[r] \in UseLabels <=> next[r] # NoRequest
  /\ pc[r] \in HeadLabels =>
       queue # <<>> /\ Head(queue) = next[r] /\ entry[next[r]] \in {"active", "cancelled"}
  /\ pc[r] \in BackLabels => entry[next[r]] = "cancelled"
  /\ pc[r] \in TakenLabels => entry[next[r]] = "claimed"
  /\ pc[r] \in ExecuteLabels =>
       entry[next[r]] = "claimed" \/ (entry[next[r]] = "none" /\ next[r] = r)
  /\ pc[r] = "succeed" => next[r] \in stored

(* The queue holds what waits or is being cancelled, in order of arrival.  *)
Queueing ==
  /\ \A i \in 1 .. Len(queue) :
       /\ entry[queue[i]] \in {"active", "cancelled"}
       /\ \E k \in 1 .. Len(offers) : offers[k] = queue[i]
  /\ \A i, j \in 1 .. Len(queue) : i < j => Before(queue[i], queue[j])
  /\ \A i, j \in 1 .. Len(offers) : offers[i] = offers[j] => i = j
  /\ \A r \in Requests : entry[r] = "active" => \E i \in 1 .. Len(queue) : queue[i] = r

Fate ==
  /\ \A r \in stored : entry[r] \in {"none", "claimed"}
  /\ \A r \in Requests : result[r] = "200" => r \in stored
  /\ \A r \in Requests : cb[r] = "remove" => entry[r] = "cancelled"

Inv ==
  /\ Shape /\ OneOwner /\ OneHandler /\ (\A r \in Requests : Knows(r)) /\ Queueing /\ Fate
  /\ PermitsConserved

-----------------------------------------------------------------------------
(* Arrival is a strict order.                                              *)
LEMMA BeforeIsStrict ==
  ASSUME Shape, Queueing, NEW q, NEW r, Before(q, r)
  PROVE  ~Before(r, q) /\ q # r
BY LenProperties DEF Shape, Queueing, Before

LEMMA InvInit == Init => Inv
<1> SUFFICES ASSUME Init PROVE Inv
  OBVIOUS
<1>1. Shape /\ Len(queue) = 0 /\ Len(offers) = 0
  BY UploadAssumption, EmptySeq
     DEF Init, Shape, EntryStates, Results, HandlerLabels, CallbackLabels
<1>2. OneOwner /\ OneHandler /\ Fate
  BY DEF Init, OneOwner, OneHandler, Fate, LockLabels, HeadLabels, BackLabels, TakenLabels
<1>3. \A r \in Requests : Knows(r)
  BY <1>1 DEF Init, Knows, UseLabels, HeadLabels, BackLabels, TakenLabels, ExecuteLabels, FreshLabels
<1>4. Queueing
  BY <1>1 DEF Init, Queueing
<1>5. PermitsConserved
  <2>1. HandlerPermits = {}
    BY DEF Init, HandlerPermits
  <2> QED
    BY <2>1, FS_EmptySet, UploadAssumption DEF Init, PermitsConserved
<1> QED
  BY <1>1, <1>2, <1>3, <1>4, <1>5 DEF Inv

-----------------------------------------------------------------------------
(* Permits.  A thread that enters or leaves the labels at which a permit   *)
(* is held accounts for it.                                                *)
Held(label) == IF label \in HolderLabels THEN 1 ELSE 0

LEMMA PermitMove ==
  ASSUME Inv, NEW r \in Requests, NEW to, pc' = [pc EXCEPT ![r] = to],
         permits' \in Nat, dropped' \in Nat,
         permits' + Held(to) + dropped' = permits + Held(pc[r]) + dropped
  PROVE  PermitsConserved'
<1> DEFINE H == HandlerPermits
<1>1. H \subseteq Requests /\ IsFiniteSet(H) /\ Cardinality(H) \in Nat
  BY UploadAssumption, FS_Subset, FS_CardinalityType DEF HandlerPermits
<1>2. r \in H <=> pc[r] \in HolderLabels
  BY DEF HandlerPermits, HolderLabels
<1>3. H' = IF to \in HolderLabels THEN H \cup {r} ELSE H \ {r}
  BY DEF HandlerPermits, HolderLabels, Inv, Shape
<1>4. Cardinality(H') = Cardinality(H) + Held(to) - Held(pc[r])
  <2>1. CASE to \in HolderLabels /\ pc[r] \notin HolderLabels
    <3>1. H' = H \cup {r} /\ r \notin H /\ Held(to) = 1 /\ Held(pc[r]) = 0
      BY <1>2, <1>3, <2>1 DEF Held
    <3>2. Cardinality(H \cup {r}) = Cardinality(H) + 1
      BY <1>1, <3>1, FS_AddElement
    <3> QED
      BY <1>1, <3>1, <3>2
  <2>2. CASE to \notin HolderLabels /\ pc[r] \in HolderLabels
    <3>1. H' = H \ {r} /\ r \in H /\ Held(to) = 0 /\ Held(pc[r]) = 1
      BY <1>2, <1>3, <2>2 DEF Held
    <3>2. Cardinality(H \ {r}) = Cardinality(H) - 1
      BY <1>1, <3>1, FS_RemoveElement
    <3> QED
      BY <1>1, <3>1, <3>2
  <2>3. CASE to \in HolderLabels <=> pc[r] \in HolderLabels
    <3>1. H' = H /\ Held(to) = Held(pc[r]) /\ Held(to) \in Nat
      BY <1>2, <1>3, <2>3 DEF Held
    <3> HIDE DEF H
    <3> QED
      BY <1>1, <3>1
  <2> QED
    BY <2>1, <2>2, <2>3
<1>5. permits \in Nat /\ dropped \in Nat /\ permits + Cardinality(H) + dropped = MaxConcurrency
      /\ Held(to) \in Nat /\ Held(pc[r]) \in Nat
  BY DEF Inv, Shape, PermitsConserved, Held
<1> HIDE DEF H
<1>6. permits' + Cardinality(H') + dropped' = MaxConcurrency
  BY <1>1, <1>4, <1>5
<1> QED
  BY <1>6 DEF H, PermitsConserved

LEMMA PermitsStay ==
  ASSUME Inv, UNCHANGED <<pc, permits, dropped>>
  PROVE  PermitsConserved'
BY DEF Inv, PermitsConserved, HandlerPermits

-----------------------------------------------------------------------------
(* Steps of a handler that leave queue, entries and results alone.  What   *)
(* is left to show of each is what its own thread knows then.              *)
Calm == UNCHANGED <<queue, offers, entry, stored, result, cb>>

LEMMA Move ==
  ASSUME Inv, NEW r \in Requests, NEW to \in HandlerLabels, NEW upload \in Requests \cup {NoRequest},
         pc' = [pc EXCEPT ![r] = to], next' = [next EXCEPT ![r] = upload], Calm,
         upload = NoRequest \/ \A d \in Requests \ {r} : next[d] # upload,
         locked' \in BOOLEAN, to \in LockLabels => locked',
         locked' = locked \/ ~locked \/ pc[r] \in LockLabels,
         to \in LockLabels => pc[r] \in LockLabels \/ ~locked,
         Knows(r)', PermitsConserved', permits' \in Nat, dropped' \in Nat
  PROVE  Inv'
<1> USE DEF Inv, Calm
<1>1. Shape' /\ pc'[r] = to /\ next'[r] = upload
      /\ \A d \in Requests \ {r} : pc'[d] = pc[d] /\ next'[d] = next[d]
  BY DEF Shape
<1>2. OneOwner'
  BY <1>1 DEF OneOwner
<1>3. OneHandler'
  BY <1>1 DEF OneHandler
<1>4. \A d \in Requests : Knows(d)'
  BY <1>1 DEF Knows
<1>5. Queueing' /\ Fate'
  BY DEF Queueing, Before, Fate
<1> QED
  BY <1>1, <1>2, <1>3, <1>4, <1>5

(* The thread only goes on.                                                *)
SameDuties(from, to) ==
  /\ to \in FreshLabels => from \in FreshLabels
  /\ to \in LockLabels => from \in LockLabels
  /\ to \in UseLabels <=> from \in UseLabels
  /\ to \in HeadLabels => from \in HeadLabels
  /\ to \in BackLabels => from \in BackLabels
  /\ to \in TakenLabels => from \in TakenLabels
  /\ to \in ExecuteLabels => from \in ExecuteLabels
  /\ to # "succeed"

LEMMA GoOn ==
  ASSUME Inv, NEW r \in Requests, NEW from, NEW to \in HandlerLabels,
         Goto(r, from, to), SameDuties(from, to), Calm, UNCHANGED <<next, locked>>,
         permits' \in Nat, dropped' \in Nat,
         permits' + Held(to) + dropped' = permits + Held(from) + dropped
  PROVE  Inv'
<1> USE DEF Inv, Calm, Goto
<1>1. pc[r] = from /\ pc' = [pc EXCEPT ![r] = to] /\ pc'[r] = to
  BY DEF Shape
<1>2. PICK upload \in Requests \cup {NoRequest} : upload = next[r]
  BY DEF Shape
<1>3. /\ next' = [next EXCEPT ![r] = upload]
      /\ upload = NoRequest \/ \A d \in Requests \ {r} : next[d] # upload
  BY <1>2 DEF OneHandler, Shape
<1>4. to \in LockLabels => locked /\ from \in LockLabels
  BY <1>1 DEF SameDuties, OneOwner
<1>5. Knows(r)'
  BY <1>1 DEF Knows, SameDuties
<1>6. PermitsConserved'
  BY <1>1, PermitMove
<1>7. locked' = locked /\ locked' \in BOOLEAN
  BY DEF Shape
<1>8. to \in LockLabels => locked' /\ pc[r] \in LockLabels
  BY <1>1, <1>4, <1>7
<1> HIDE DEF Inv, Calm, Goto
<1> QED
  BY <1>1, <1>3, <1>5, <1>6, <1>7, <1>8, Move

(* The steps that only go on.                                              *)
Onward ==
  {<<"new", "checkCount">>,
   <<"checkCount", "tryPermit">>, <<"checkCount", "reserve">>,
   <<"tryPermit", "tryBytes">>, <<"tryPermit", "reserve">>,
   <<"reserve", "countUp">>, <<"reserve", "refuse">>,
   <<"countUp", "countDown">>, <<"countUp", "offer">>,
   <<"countDown", "unreserve">>,
   <<"unreserve", "refuse">>,
   <<"drain", "return">>, <<"drain", "lock">>,
   <<"pollPermit", "pollBytes">>, <<"pollBytes", "take">>, <<"pollBytes", "undo">>,
   <<"backPermit", "backBytes">>,
   <<"dec", "free">>,
   <<"tryBytes", "reserve">>, <<"store", "fail">>, <<"freeInFlight", "freePermit">>,
   <<"nested", "lock">>,
   <<"exit", "recheckCount">>,
   <<"recheckCount", "recheckPermits">>, <<"recheckCount", "return">>,
   <<"recheckPermits", "return">>, <<"recheckPermits", "drain">>,
   <<"recheckPermits", "overflowed">>,
   <<"return", "returned">>}

LEMMA OnwardIsQuiet ==
  ASSUME NEW from, NEW to, <<from, to>> \in Onward
  PROVE  to \in HandlerLabels /\ SameDuties(from, to)
BY DEF Onward, SameDuties, HandlerLabels, FreshLabels, LockLabels, HeadLabels, BackLabels, TakenLabels,
       UseLabels, ExecuteLabels

(* Most of them do not touch the permits.                                  *)
LEMMA GoOnIdly ==
  ASSUME Inv, NEW r \in Requests, NEW from, NEW to, <<from, to>> \in Onward, Goto(r, from, to),
         from \in HolderLabels <=> to \in HolderLabels,
         Calm, UNCHANGED <<next, locked, permits, dropped>>
  PROVE  Inv'
<1>1. permits' \in Nat /\ dropped' \in Nat
  BY DEF Inv, Shape
<1>2. permits' + Held(to) + dropped' = permits + Held(from) + dropped
  BY DEF Held
<1> QED
  BY <1>1, <1>2, OnwardIsQuiet, GoOn

LEMMA IdleStep ==
  ASSUME Inv, NEW r \in Requests,
         Admit(r) \/ CheckCount(r) \/ Reserve(r) \/ CountUp(r) \/ CountDown(r) \/ Unreserve(r)
         \/ DrainEnter(r) \/ PollBytes(r) \/ DecCount(r) \/ FreeInFlight(r) \/ NestedDrain(r)
         \/ Exit(r) \/ RecheckCount(r) \/ RecheckPermits(r) \/ StackOverflow(r) \/ Return(r)
  PROVE  Inv'
<1> USE DEF beyondControl, beyondBudgets, beyondLine, budgets, line, request, history, Calm
<1> USE DEF Onward, HolderLabels
<1>1. CASE Admit(r)
  <2>1. Goto(r, "new", "checkCount")
        /\ Calm /\ UNCHANGED <<next, locked, permits, dropped>>
    BY <1>1 DEF Admit
  <2> QED
    BY <2>1, GoOnIdly
<1>2. CASE CheckCount(r)
  <2>1. (Goto(r, "checkCount", "tryPermit") \/ Goto(r, "checkCount", "reserve"))
        /\ Calm /\ UNCHANGED <<next, locked, permits, dropped>>
    BY <1>2 DEF CheckCount
  <2> QED
    BY <2>1, GoOnIdly
<1>3. CASE Reserve(r)
  <2>1. (Goto(r, "reserve", "countUp") \/ Goto(r, "reserve", "refuse"))
        /\ Calm /\ UNCHANGED <<next, locked, permits, dropped>>
    BY <1>3 DEF Reserve
  <2> QED
    BY <2>1, GoOnIdly
<1>4. CASE CountUp(r)
  <2>1. (Goto(r, "countUp", "countDown") \/ Goto(r, "countUp", "offer"))
        /\ Calm /\ UNCHANGED <<next, locked, permits, dropped>>
    BY <1>4 DEF CountUp
  <2> QED
    BY <2>1, GoOnIdly
<1>5. CASE CountDown(r)
  <2>1. Goto(r, "countDown", "unreserve")
        /\ Calm /\ UNCHANGED <<next, locked, permits, dropped>>
    BY <1>5 DEF CountDown
  <2> QED
    BY <2>1, GoOnIdly
<1>6. CASE Unreserve(r)
  <2>1. Goto(r, "unreserve", "refuse")
        /\ Calm /\ UNCHANGED <<next, locked, permits, dropped>>
    BY <1>6 DEF Unreserve
  <2> QED
    BY <2>1, GoOnIdly
<1>7. CASE DrainEnter(r)
  <2>1. (Goto(r, "drain", "return") \/ Goto(r, "drain", "lock"))
        /\ Calm /\ UNCHANGED <<next, locked, permits, dropped>>
    BY <1>7 DEF DrainEnter
  <2> QED
    BY <2>1, GoOnIdly
<1>8. CASE PollBytes(r)
  <2>1. (Goto(r, "pollBytes", "take") \/ Goto(r, "pollBytes", "undo"))
        /\ Calm /\ UNCHANGED <<next, locked, permits, dropped>>
    BY <1>8 DEF PollBytes
  <2> QED
    BY <2>1, GoOnIdly
<1>9. CASE DecCount(r)
  <2>1. Goto(r, "dec", "free")
        /\ Calm /\ UNCHANGED <<next, locked, permits, dropped>>
    BY <1>9 DEF DecCount
  <2> QED
    BY <2>1, GoOnIdly
<1>10. CASE FreeInFlight(r)
  <2>1. Goto(r, "freeInFlight", "freePermit")
        /\ Calm /\ UNCHANGED <<next, locked, permits, dropped>>
    BY <1>10 DEF FreeInFlight
  <2> QED
    BY <2>1, GoOnIdly
<1>11. CASE NestedDrain(r)
  <2>1. Goto(r, "nested", "lock")
        /\ Calm /\ UNCHANGED <<next, locked, permits, dropped>>
    BY <1>11 DEF NestedDrain
  <2> QED
    BY <2>1, GoOnIdly
<1>12. CASE Exit(r)
  <2>1. Goto(r, "exit", "recheckCount")
        /\ Calm /\ UNCHANGED <<next, locked, permits, dropped>>
    BY <1>12 DEF Exit
  <2> QED
    BY <2>1, GoOnIdly
<1>13. CASE RecheckCount(r)
  <2>1. (Goto(r, "recheckCount", "recheckPermits") \/ Goto(r, "recheckCount", "return"))
        /\ Calm /\ UNCHANGED <<next, locked, permits, dropped>>
    BY <1>13 DEF RecheckCount
  <2> QED
    BY <2>1, GoOnIdly
<1>14. CASE RecheckPermits(r)
  <2>1. (Goto(r, "recheckPermits", "return") \/ Goto(r, "recheckPermits", "drain"))
        /\ Calm /\ UNCHANGED <<next, locked, permits, dropped>>
    BY <1>14 DEF RecheckPermits
  <2> QED
    BY <2>1, GoOnIdly
<1>15. CASE StackOverflow(r)
  <2>1. Goto(r, "recheckPermits", "overflowed")
        /\ Calm /\ UNCHANGED <<next, locked, permits, dropped>>
    BY <1>15 DEF StackOverflow
  <2> QED
    BY <2>1, GoOnIdly
<1>16. CASE Return(r)
  <2>1. Goto(r, "return", "returned")
        /\ Calm /\ UNCHANGED <<next, locked, permits, dropped>>
    BY <1>16 DEF Return
  <2> QED
    BY <2>1, GoOnIdly
<1> QED
  BY <1>1, <1>2, <1>3, <1>4, <1>5, <1>6, <1>7, <1>8, <1>9, <1>10, <1>11, <1>12, <1>13, <1>14, <1>15, <1>16

(* The others take a permit, forget it (line 400), or return it.           *)
LEMMA PermitStep ==
  ASSUME Inv, NEW r \in Requests,
         TryPermit(r) \/ (TryBytes(r) /\ dropped' # dropped) \/ BackPermit(r)
         \/ (PollPermit(r) /\ permits' # permits)
  PROVE  Inv'
<1> USE DEF beyondControl, beyondBudgets, beyondLine, budgets, line, request, history, Calm
<1>0. permits \in Nat /\ dropped \in Nat
  BY DEF Inv, Shape
<1>1. CASE TryPermit(r)
  <2>1. CASE permits > 0 /\ Goto(r, "tryPermit", "tryBytes") /\ permits' = permits - 1
    <3>1. Calm /\ UNCHANGED <<next, locked, dropped>> /\ permits' \in Nat
      BY <1>0, <1>1, <2>1 DEF TryPermit
    <3>2. permits' + Held("tryBytes") + dropped' = permits + Held("tryPermit") + dropped
      BY <1>0, <2>1, <3>1 DEF Held, HolderLabels
    <3> QED
      BY <1>0, <2>1, <3>1, <3>2, OnwardIsQuiet, GoOn DEF Onward
  <2>2. CASE Goto(r, "tryPermit", "reserve") /\ permits = 0
    BY <1>1, <2>2, GoOnIdly DEF TryPermit, Onward, HolderLabels
  <2> QED
    BY <1>1, <2>1, <2>2 DEF TryPermit
<1>2. CASE TryBytes(r) /\ dropped' # dropped
  <2>1. /\ Goto(r, "tryBytes", "reserve") /\ Calm /\ UNCHANGED <<next, locked, permits>>
        /\ dropped' = dropped + 1 /\ dropped' \in Nat
    BY <1>0, <1>2 DEF TryBytes
  <2>2. permits' + Held("reserve") + dropped' = permits + Held("tryBytes") + dropped
    BY <1>0, <2>1 DEF Held, HolderLabels
  <2> QED
    BY <1>0, <2>1, <2>2, OnwardIsQuiet, GoOn DEF Onward
<1>3. CASE BackPermit(r)
  <2>1. /\ Goto(r, "backPermit", "backBytes") /\ Calm /\ UNCHANGED <<next, locked, dropped>>
        /\ permits' = permits + 1 /\ permits' \in Nat
    BY <1>0, <1>3 DEF BackPermit
  <2>2. permits' + Held("backBytes") + dropped' = permits + Held("backPermit") + dropped
    BY <1>0, <2>1 DEF Held, HolderLabels
  <2> QED
    BY <1>0, <2>1, <2>2, OnwardIsQuiet, GoOn DEF Onward
<1>4. CASE PollPermit(r) /\ permits' # permits
  <2>1. /\ Goto(r, "pollPermit", "pollBytes") /\ Calm /\ UNCHANGED <<next, locked, dropped>>
        /\ permits' = permits - 1 /\ permits' \in Nat
    BY <1>0, <1>4 DEF PollPermit
  <2>2. permits' + Held("pollBytes") + dropped' = permits + Held("pollPermit") + dropped
    BY <1>0, <2>1 DEF Held, HolderLabels
  <2> QED
    BY <1>0, <2>1, <2>2, OnwardIsQuiet, GoOn DEF Onward
<1> QED
  BY <1>1, <1>2, <1>3, <1>4

(* The steps that take the lock or an upload, or let go of them.           *)
LEMMA HandStep ==
  ASSUME Inv, NEW r \in Requests,
         (TryBytes(r) /\ dropped' = dropped) \/ Lock(r) \/ (PollPermit(r) /\ permits' = permits)
         \/ Undo(r) \/ BackBytes(r) \/ FreeBytes(r) \/ FreePermit(r)
  PROVE  Inv'
<1> USE DEF beyondControl, beyondBudgets, beyondLine, budgets, line, request, history, Calm
<1>0. permits \in Nat /\ dropped \in Nat /\ locked \in BOOLEAN /\ next[r] \in Requests \cup {NoRequest}
      /\ pc \in [Requests -> HandlerLabels] /\ next \in [Requests -> Requests \cup {NoRequest}]
      /\ Knows(r) /\ NoRequest \notin Requests
  BY UploadAssumption DEF Inv, Shape
<1> USE DEF FreshLabels, LockLabels, HeadLabels, BackLabels, TakenLabels, UseLabels, ExecuteLabels
<1> DEFINE Given(from, to, upload) ==
      /\ pc[r] = from /\ to \in HandlerLabels /\ pc' = [pc EXCEPT ![r] = to] /\ Calm
      /\ next' = [next EXCEPT ![r] = upload] /\ pc'[r] = to /\ next'[r] = upload
      /\ permits' \in Nat /\ dropped' \in Nat
      /\ permits' + Held(to) + dropped' = permits + Held(from) + dropped
<1>1. CASE TryBytes(r) /\ dropped' = dropped
  <2>1. Given("tryBytes", "store", r) /\ UNCHANGED locked
    BY <1>0, <1>1 DEF TryBytes, Goto, HandlerLabels, Held, HolderLabels
  <2>2. \A d \in Requests \ {r} : next[d] # r
    <3> SUFFICES ASSUME NEW d \in Requests \ {r}, next[d] = r PROVE FALSE
      OBVIOUS
    <3>1. entry[r] = "none" /\ Knows(d) /\ d # r /\ next[d] # NoRequest
      BY <1>0, <2>1 DEF Inv, Knows
    <3> QED
      BY <3>1 DEF Knows
  <2>3. Knows(r)'
    BY <1>0, <2>1 DEF Knows
  <2>4. PermitsConserved'
    BY <2>1, PermitMove
  <2> QED
    BY <1>0, <2>1, <2>2, <2>3, <2>4, Move
<1>2. CASE Lock(r)
  <2>1. Given("lock", "look", NoRequest) /\ ~locked /\ locked'
    BY <1>0, <1>2 DEF Lock, Goto, HandlerLabels, Held, HolderLabels, Knows
  <2>2. Knows(r)'
    BY <1>0, <2>1 DEF Knows
  <2>3. PermitsConserved'
    BY <2>1, PermitMove
  <2>4. locked' \in BOOLEAN
    BY <1>2 DEF Lock
  <2> QED
    BY <1>0, <2>1, <2>2, <2>3, <2>4, Move
<1>3. CASE PollPermit(r) /\ permits' = permits
  <2>1. Given("pollPermit", "exit", NoRequest) /\ locked' = FALSE
    BY <1>0, <1>3 DEF PollPermit, Goto, HandlerLabels, Held, HolderLabels
  <2>2. Knows(r)'
    BY <1>0, <2>1 DEF Knows
  <2>3. PermitsConserved'
    BY <2>1, PermitMove
  <2> QED
    BY <1>0, <2>1, <2>2, <2>3, Move
<1>4. CASE Undo(r)
  <2>1. Given("undo", "exit", NoRequest) /\ locked' = FALSE
    BY <1>0, <1>4 DEF Undo, Goto, HandlerLabels, Held, HolderLabels
  <2>2. Knows(r)'
    BY <1>0, <2>1 DEF Knows
  <2>3. PermitsConserved'
    BY <2>1, PermitMove
  <2> QED
    BY <1>0, <2>1, <2>2, <2>3, Move
<1>5. CASE BackBytes(r)
  <2>1. Given("backBytes", "look", NoRequest) /\ UNCHANGED locked
    BY <1>0, <1>5 DEF BackBytes, Goto, HandlerLabels, Held, HolderLabels
  <2>2. Knows(r)' /\ locked
    BY <1>0, <2>1 DEF Knows, Inv, OneOwner
  <2>3. PermitsConserved'
    BY <2>1, PermitMove
  <2> QED
    BY <1>0, <2>1, <2>2, <2>3, Move
<1>6. CASE FreeBytes(r)
  <2>0. PICK upload \in Requests \cup {NoRequest} : upload = next[r]
    BY <1>0
  <2>1. Given("free", "store", upload) /\ locked' = FALSE
    BY <1>0, <1>6, <2>0 DEF FreeBytes, Goto, HandlerLabels, Held, HolderLabels
  <2>2. Knows(r)' /\ (upload = NoRequest \/ \A d \in Requests \ {r} : next[d] # upload)
    BY <1>0, <2>0, <2>1 DEF Knows, Inv, OneHandler
  <2>3. PermitsConserved'
    BY <2>1, PermitMove
  <2> QED
    BY <1>0, <2>1, <2>2, <2>3, Move
<1>7. CASE FreePermit(r)
  <2>0. PICK to \in {"drain", "nested"} : pc' = [pc EXCEPT ![r] = to]
    BY <1>7 DEF FreePermit, Goto
  <2>1. Given("freePermit", to, NoRequest) /\ UNCHANGED locked
    <3>1. pc[r] = "freePermit" /\ permits' = permits + 1 /\ UNCHANGED <<locked, dropped>> /\ Calm
          /\ next' = [next EXCEPT ![r] = NoRequest]
      BY <1>7 DEF FreePermit, Goto
    <3>2. to \in HandlerLabels /\ Held(to) = 0 /\ Held("freePermit") = 1
      BY <2>0 DEF HandlerLabels, Held, HolderLabels
    <3> QED
      BY <1>0, <2>0, <3>1, <3>2
  <2>2. Knows(r)'
    BY <1>0, <2>1 DEF Knows
  <2>3. PermitsConserved'
    BY <2>1, PermitMove
  <2> QED
    BY <1>0, <2>1, <2>2, <2>3, Move
<1> QED
  BY <1>1, <1>2, <1>3, <1>4, <1>5, <1>6, <1>7

(* The poll looks at the head of the queue: it leaves, or takes it up.     *)
LEMMA LookStep ==
  ASSUME Inv, NEW r \in Requests, Look(r), UNCHANGED queue
  PROVE  Inv'
<1> USE DEF beyondControl, beyondBudgets, beyondLine, budgets, line, request, history, Calm
<1>0. permits \in Nat /\ dropped \in Nat /\ locked \in BOOLEAN /\ next[r] \in Requests \cup {NoRequest}
      /\ pc \in [Requests -> HandlerLabels] /\ next \in [Requests -> Requests \cup {NoRequest}]
      /\ Knows(r) /\ NoRequest \notin Requests
      /\ queue \in Seq(Requests) /\ entry \in [Requests -> EntryStates]
  BY UploadAssumption DEF Inv, Shape
<1>1. pc[r] = "look" /\ next[r] = NoRequest /\ locked
  BY <1>0 DEF Look, Goto, Knows, UseLabels, HeadLabels, BackLabels, TakenLabels, ExecuteLabels,
     Inv, OneOwner, LockLabels
<1>2. CASE queue = <<>>
  <2>1. /\ pc' = [pc EXCEPT ![r] = "exit"] /\ pc'[r] = "exit" /\ locked' = FALSE /\ Calm
        /\ next' = [next EXCEPT ![r] = NoRequest] /\ next'[r] = NoRequest
        /\ UNCHANGED <<permits, dropped>>
    BY <1>0, <1>1, <1>2 DEF Look, Goto
  <2>2. Knows(r)'
    BY <1>0, <2>1 DEF Knows, FreshLabels, UseLabels, HeadLabels, BackLabels, TakenLabels, ExecuteLabels
  <2>3. PermitsConserved'
    BY <1>0, <1>1, <2>1, PermitMove DEF Held, HolderLabels
  <2> QED
    BY <1>0, <1>1, <2>1, <2>2, <2>3, Move
       DEF HandlerLabels, LockLabels, HeadLabels, BackLabels, TakenLabels
<1>3. CASE queue # <<>>
  <2>1. PICK head \in Requests : head = Head(queue)
    BY <1>0, <1>3, HeadTailProperties
  <2>2. Tail(queue) # queue
    BY <1>0, <1>3, HeadTailProperties, LenProperties
  <2>3. entry[head] = "active"
    BY <1>3, <2>1, <2>2 DEF Look
  <2>4. /\ pc' = [pc EXCEPT ![r] = "pollPermit"] /\ pc'[r] = "pollPermit" /\ UNCHANGED locked /\ Calm
        /\ next' = [next EXCEPT ![r] = head] /\ next'[r] = head
        /\ UNCHANGED <<permits, dropped>>
    BY <1>0, <1>1, <1>3, <2>1, <2>3 DEF Look, Goto
  <2>5. \A d \in Requests \ {r} : next[d] # head
    <3> SUFFICES ASSUME NEW d \in Requests \ {r}, next[d] = head PROVE FALSE
      OBVIOUS
    <3>1. Knows(d) /\ next[d] # NoRequest /\ entry[next[d]] = "active"
      BY <1>0, <2>3 DEF Inv
    <3>2. pc[d] \in HeadLabels
      BY <3>1 DEF Knows, UseLabels
    <3> QED
      BY <1>1, <3>2 DEF Inv, OneOwner, LockLabels
  <2>6. Knows(r)'
    BY <1>0, <1>3, <2>1, <2>3, <2>4
       DEF Knows, FreshLabels, UseLabels, HeadLabels, BackLabels, TakenLabels, ExecuteLabels
  <2>7. PermitsConserved'
    BY <1>0, <1>1, <2>4, PermitMove DEF Held, HolderLabels
  <2> QED
    BY <1>0, <1>1, <2>4, <2>5, <2>6, <2>7, Move
       DEF HandlerLabels, LockLabels, HeadLabels, BackLabels, TakenLabels
<1> QED
  BY <1>2, <1>3

-----------------------------------------------------------------------------
(* Results, and the callbacks.                                             *)

(* Some request is given a result.                                         *)
LEMMA Told ==
  ASSUME Inv, NEW r \in Requests, NEW from, NEW to, Goto(r, from, to),
         <<from, to>> \in {<<"new", "return">>, <<"refuse", "return">>,
                           <<"succeed", "freeInFlight">>, <<"fail", "freeInFlight">>},
         NEW q \in Requests, NEW status \in Results, status = "200" => q \in stored,
         result' = Answered(q, status),
         UNCHANGED <<queue, offers, entry, stored, cb, next, locked, permits, dropped>>
  PROVE  Inv'
<1> USE DEF Inv, Goto
<1>0. /\ pc[r] = from /\ pc' = [pc EXCEPT ![r] = to] /\ pc'[r] = to
      /\ \A d \in Requests \ {r} : pc'[d] = pc[d]
      /\ to \in {"return", "freeInFlight"} /\ from \in {"new", "refuse", "succeed", "fail"}
      /\ to = "return" <=> from \in {"new", "refuse"}
  BY DEF Shape
<1>1. Shape'
  <2>1. result' \in [Requests -> Results] /\ pc' \in [Requests -> HandlerLabels]
    BY <1>0 DEF Shape, Answered, HandlerLabels
  <2> QED
    BY <2>1 DEF Shape
<1>2. OneOwner' /\ OneHandler'
  BY <1>0 DEF OneOwner, OneHandler, LockLabels, HeadLabels, BackLabels, TakenLabels
<1>3. \A d \in Requests : Knows(d)'
  <2>1. Knows(r)'
    BY <1>0 DEF Knows, FreshLabels, UseLabels, HeadLabels, BackLabels, TakenLabels, ExecuteLabels
  <2>2. \A d \in Requests \ {r} : Knows(d)'
    BY <1>0 DEF Knows
  <2> QED
    BY <2>1, <2>2
<1>4. Queueing' /\ Fate'
  BY DEF Queueing, Before, Fate, Answered, Shape
<1>5. PermitsConserved'
  <2>1. permits' + Held(to) + dropped' = permits + Held(from) + dropped
    BY <1>0 DEF Held, HolderLabels
  <2> QED
    BY <1>0, <1>1, <2>1, PermitMove DEF Shape
<1> QED
  BY <1>1, <1>2, <1>3, <1>4, <1>5

LEMMA ResultStep ==
  ASSUME Inv, NEW r \in Requests, Reject(r) \/ Refuse(r) \/ Succeed(r) \/ Fail(r)
  PROVE  Inv'
<1> USE DEF beyondRequest, budgets, line, history, Results
<1>1. CASE Reject(r)
  BY <1>1, Told DEF Reject
<1>2. CASE Refuse(r)
  BY <1>2, Told DEF Refuse
<1>3. CASE Succeed(r) \/ Fail(r)
  <2>1. Knows(r) /\ next[r] \in Requests \cup {NoRequest}
    BY DEF Inv, Shape
  <2>2. pc[r] \in UseLabels /\ (pc[r] = "succeed" <=> Succeed(r))
    BY <1>3 DEF Succeed, Fail, Goto, UseLabels, ExecuteLabels
  <2>3. PICK upload \in Requests : upload = next[r] /\ (Succeed(r) => upload \in stored)
    BY <2>1, <2>2 DEF Knows
  <2>4. CASE Succeed(r)
    BY <2>3, <2>4, Told DEF Succeed
  <2>5. CASE Fail(r)
    BY <2>3, <2>5, Told DEF Fail
  <2> QED
    BY <1>3, <2>4, <2>5
<1> QED
  BY <1>1, <1>2, <1>3

(* The file and the row of an upload have been written.                    *)
LEMMA StoreStep ==
  ASSUME Inv, NEW r \in Requests, Store(r), pc'[r] = "succeed"
  PROVE  Inv'
<1> USE DEF Inv, Goto, beyondRequest, beyondControl, budgets, line, history
<1>0. /\ pc[r] = "store" /\ pc' = [pc EXCEPT ![r] = "succeed"]
      /\ \A d \in Requests \ {r} : pc'[d] = pc[d]
      /\ stored' = stored \cup {next[r]} /\ next[r] \in Requests
      /\ entry[next[r]] = "claimed" \/ (entry[next[r]] = "none" /\ next[r] = r)
      /\ UNCHANGED <<queue, offers, entry, result, cb, next, locked, permits, dropped>>
  <2>1. Knows(r) /\ next[r] \in Requests \cup {NoRequest} /\ pc[r] = "store"
        /\ pc' = [pc EXCEPT ![r] = "succeed"]
    BY DEF Shape, Store
  <2> QED
    BY <2>1 DEF Shape, Store, Knows, UseLabels, ExecuteLabels
<1>1. Shape'
  BY <1>0 DEF Shape, HandlerLabels
<1>2. OneOwner' /\ OneHandler'
  BY <1>0 DEF OneOwner, OneHandler, LockLabels, HeadLabels, BackLabels, TakenLabels
<1>3. \A d \in Requests : Knows(d)'
  <2>1. Knows(r)'
    BY <1>0 DEF Knows, FreshLabels, UseLabels, HeadLabels, BackLabels, TakenLabels, ExecuteLabels
  <2>2. ASSUME NEW d \in Requests \ {r} PROVE Knows(d)'
    <3>1. Knows(d) /\ pc'[d] = pc[d]
      BY <1>0
    <3>2. d = next[r] => pc[d] \notin FreshLabels
      BY <1>0, <3>1 DEF Knows
    <3> QED
      BY <1>0, <3>1, <3>2 DEF Knows
  <2> QED
    BY <2>1, <2>2
<1>4. Queueing' /\ Fate'
  <2>1. Queueing'
    BY <1>0 DEF Queueing, Before
  <2>2. \A q \in stored' : entry'[q] \in {"none", "claimed"}
    BY <1>0 DEF Fate
  <2>3. \A q \in Requests : result'[q] = "200" => q \in stored'
    BY <1>0 DEF Fate
  <2>4. \A q \in Requests : cb'[q] = "remove" => entry'[q] = "cancelled"
    BY <1>0 DEF Fate
  <2> QED
    BY <2>1, <2>2, <2>3, <2>4 DEF Fate
<1>5. PermitsConserved'
  BY <1>0, <1>1, PermitMove DEF Held, HolderLabels, Shape
<1> QED
  BY <1>1, <1>2, <1>3, <1>4, <1>5

(* A callback that does not touch the queue or the entry.                  *)
LEMMA CallbackMove ==
  ASSUME Inv, NEW r \in Requests, NEW to \in CallbackLabels \ {"remove"},
         cb' = [cb EXCEPT ![r] = to], NEW status \in Results \ {"200"},
         result' \in {result, Answered(r, status)},
         UNCHANGED <<queue, offers, entry, stored, pc, next, locked, permits, dropped>>
  PROVE  Inv'
<1> USE DEF Inv
<1>1. Shape'
  <2>1. result' \in [Requests -> Results] /\ cb' \in [Requests -> CallbackLabels]
    BY DEF Shape, Answered
  <2> QED
    BY <2>1 DEF Shape
<1>2. OneOwner' /\ OneHandler' /\ PermitsConserved'
  BY PermitsStay DEF OneOwner, OneHandler
<1>3. \A d \in Requests : Knows(d)'
  BY DEF Knows
<1>4. Queueing'
  BY DEF Queueing, Before
<1>5. Fate'
  <2>1. \A q \in Requests : result'[q] = "200" => result[q] = "200"
    BY DEF Answered, Shape
  <2>2. \A q \in Requests : cb'[q] = "remove" => cb[q] = "remove"
    BY DEF Shape
  <2> QED
    BY <2>1, <2>2 DEF Fate
<1> QED
  BY <1>1, <1>2, <1>3, <1>4, <1>5

LEMMA CallbackGoesOn ==
  ASSUME Inv, NEW r \in Requests, NEW from, NEW to \in CallbackLabels \ {"remove"}, Callback(r, from, to),
         UNCHANGED <<queue, offers, entry, stored, pc, next, locked, permits, dropped, result>>
  PROVE  Inv'
<1>1. "503" \in Results \ {"200"}
  BY DEF Results
<1> QED
  BY <1>1, CallbackMove DEF Callback

LEMMA CallbackStepQuiet ==
  ASSUME Inv, NEW r \in Requests,
         ContainerEvent(r)
         \/ (CancelClaim(r) /\ entry' = entry)
         \/ CancelDec(r) \/ CancelFree(r) \/ CallbackAnswer(r)
  PROVE  Inv'
<1> USE DEF Callback, CallbackLabels, Results, budgets, line, request, history
<1>1. CASE ContainerEvent(r)
  BY <1>1, CallbackGoesOn DEF ContainerEvent
<1>2. CASE CancelClaim(r) /\ entry' = entry
  <2>1. entry[r] # "active"
    BY <1>2 DEF CancelClaim, Inv, Shape
  <2> QED
    BY <1>2, <2>1, CallbackGoesOn DEF CancelClaim
<1>3. CASE CancelDec(r)
  BY <1>3, CallbackGoesOn DEF CancelDec
<1>4. CASE CancelFree(r)
  BY <1>4, CallbackGoesOn DEF CancelFree
<1>5. CASE CallbackAnswer(r)
  <2>1. result' = Answered(r, "503")
    BY <1>5 DEF CallbackAnswer
  <2> QED
    BY <1>5, <2>1, CallbackMove DEF CallbackAnswer
<1> QED
  BY <1>1, <1>2, <1>3, <1>4, <1>5

-----------------------------------------------------------------------------
(* The queue.                                                              *)

LEMMA NoUploadTwice ==
  ASSUME Shape, Queueing, NEW i \in 1 .. Len(queue), NEW j \in 1 .. Len(queue), queue[i] = queue[j]
  PROVE  i = j
<1>0. Len(queue) \in Nat
  BY LenProperties DEF Shape
<1>1. i < j => FALSE
  BY BeforeIsStrict DEF Queueing
<1>2. j < i => FALSE
  BY BeforeIsStrict DEF Queueing
<1> QED
  BY <1>0, <1>1, <1>2

(* One position is taken out of the queue, and its entry is not active.    *)
LEMMA Removed ==
  ASSUME Shape, Queueing, NEW k \in 1 .. Len(queue), Len(queue') = Len(queue) - 1,
         \A j \in 1 .. Len(queue') : queue'[j] = queue[IF j < k THEN j ELSE j + 1],
         UNCHANGED offers, NEW state \in EntryStates \ {"active"},
         entry' = [entry EXCEPT ![queue[k]] = state]
  PROVE  Queueing'
<1> DEFINE Was(j) == IF j < k THEN j ELSE j + 1
<1>0. Len(queue) \in Nat /\ queue[k] \in Requests
  BY LenProperties, ElementOfSeq DEF Shape
<1>1. \A j \in 1 .. Len(queue') :
        Was(j) \in 1 .. Len(queue) /\ Was(j) # k /\ queue'[j] = queue[Was(j)]
  BY <1>0
<1>2. \A i, j \in 1 .. Len(queue') : i < j => Was(i) < Was(j)
  BY <1>0
<1>3. \A i \in 1 .. Len(queue) : i # k => queue[i] # queue[k]
  BY NoUploadTwice
<1>4. \A i \in 1 .. Len(queue) : i # k => \E j \in 1 .. Len(queue') : Was(j) = i
  <2> SUFFICES ASSUME NEW i \in 1 .. Len(queue), i # k
               PROVE  \E j \in 1 .. Len(queue') : Was(j) = i
    OBVIOUS
  <2>1. CASE i < k
    BY <1>0, <2>1
  <2>2. CASE i > k
    <3>1. i - 1 \in 1 .. Len(queue') /\ Was(i - 1) = i
      BY <1>0, <2>2
    <3> QED
      BY <3>1
  <2> QED
    BY <1>0, <2>1, <2>2
<1> HIDE DEF Was
<1>5. \A i \in 1 .. Len(queue) : queue[i] \in Requests
  BY ElementOfSeq DEF Shape
<1>6. \A i \in 1 .. Len(queue') :
        /\ entry'[queue'[i]] \in {"active", "cancelled"}
        /\ \E m \in 1 .. Len(offers') : offers'[m] = queue'[i]
  BY <1>1, <1>3, <1>5 DEF Queueing, Shape
<1>7. (\A i, j \in 1 .. Len(queue) : i < j => Before(queue[i], queue[j]))'
  <2> SUFFICES ASSUME NEW i \in 1 .. Len(queue'), NEW j \in 1 .. Len(queue'), i < j
               PROVE  Before(queue[i], queue[j])'
    OBVIOUS
  <2>1. Before(queue[Was(i)], queue[Was(j)])
    BY <1>1, <1>2 DEF Queueing
  <2> QED
    BY <1>1, <2>1 DEF Before
<1>8. \A q \in Requests : entry'[q] = "active" => \E j \in 1 .. Len(queue') : queue'[j] = q
  <2> SUFFICES ASSUME NEW q \in Requests, entry'[q] = "active"
               PROVE  \E j \in 1 .. Len(queue') : queue'[j] = q
    OBVIOUS
  <2>1. q # queue[k] /\ entry[q] = "active"
    BY <1>0 DEF Shape
  <2>2. PICK i \in 1 .. Len(queue) : queue[i] = q
    BY <2>1 DEF Queueing
  <2>3. PICK j \in 1 .. Len(queue') : Was(j) = i
    BY <1>4, <2>1, <2>2
  <2> QED
    BY <1>1, <2>2, <2>3
<1> QED
  BY <1>6, <1>7, <1>8 DEF Queueing

(* The head leaves the queue.                                              *)
LEMMA HeadRemoved ==
  ASSUME Shape, Queueing, queue # <<>>, queue' = Tail(queue), UNCHANGED offers,
         NEW state \in EntryStates \ {"active"}, entry' = [entry EXCEPT ![Head(queue)] = state]
  PROVE  Queueing' /\ queue' \in Seq(Requests)
<1>1. /\ queue' \in Seq(Requests) /\ Len(queue') = Len(queue) - 1
      /\ \A j \in 1 .. Len(queue') : queue'[j] = queue[j + 1]
      /\ Len(queue) \in Nat /\ Len(queue) > 0 /\ Head(queue) = queue[1]
  BY HeadTailProperties, LenProperties, EmptySeq DEF Shape
<1>2. \A j \in 1 .. Len(queue') : queue'[j] = queue[IF j < 1 THEN j ELSE j + 1]
  BY <1>1
<1>3. 1 \in 1 .. Len(queue)
  BY <1>1
<1> QED
  BY <1>1, <1>2, <1>3, Removed

(* A cancelled entry is passed over.                                       *)
LEMMA PassOver ==
  ASSUME Inv, NEW r \in Requests, Look(r), queue' # queue
  PROVE  Inv'
<1> USE DEF Inv, beyondLine, beyondControl, budgets, line, request, history
<1>1. /\ queue # <<>> /\ entry[Head(queue)] # "active" /\ queue' = Tail(queue) /\ pc[r] = "look"
      /\ UNCHANGED <<offers, entry, stored, result, cb, next, locked, pc, permits, dropped>>
  BY DEF Look
<1>2. Head(queue) \in Requests /\ entry[Head(queue)] \in EntryStates \ {"active"}
  <2>1. Head(queue) \in Requests
    BY <1>1, HeadTailProperties DEF Shape
  <2> QED
    BY <1>1, <2>1 DEF Shape
<1>3. PICK state \in EntryStates \ {"active"} : entry[Head(queue)] = state
  BY <1>2
<1>4. entry' = [entry EXCEPT ![Head(queue)] = state]
  BY <1>1, <1>2, <1>3 DEF Shape
<1>5. Queueing' /\ queue' \in Seq(Requests)
  BY <1>1, <1>4, HeadRemoved
<1>6. Shape' /\ OneOwner' /\ OneHandler' /\ Fate' /\ PermitsConserved'
  BY <1>1, <1>5, PermitsStay DEF Shape, OneOwner, OneHandler, Fate
<1>7. \A d \in Requests : pc[d] \notin HeadLabels
  BY <1>1 DEF OneOwner, LockLabels, HeadLabels
<1>8. \A d \in Requests : Knows(d)'
  BY <1>1, <1>7 DEF Knows
<1> QED
  BY <1>5, <1>6, <1>8

(* The poll removes the head it looked at, and claims it if it still can.  *)
LEMMA TakeStep ==
  ASSUME Inv, NEW r \in Requests, Take(r)
  PROVE  Inv'
<1> USE DEF Inv, Goto, budgets, history
<1>1. /\ pc[r] = "take" /\ queue' = Tail(queue)
      /\ UNCHANGED <<offers, stored, result, cb, next, locked, permits, dropped>>
      /\ queue # <<>> /\ Head(queue) = next[r] /\ next[r] \in Requests
      /\ entry[next[r]] \in {"active", "cancelled"}
      /\ locked /\ \A d \in Requests : pc[d] \in LockLabels => d = r
  <2>1. Knows(r) /\ pc[r] = "take" /\ next[r] \in Requests \cup {NoRequest}
    BY DEF Take, Shape
  <2>2. locked /\ \A d \in Requests : pc[d] \in LockLabels => d = r
    BY <2>1 DEF OneOwner, LockLabels, HeadLabels
  <2> QED
    BY <2>1, <2>2 DEF Take, Knows, HeadLabels, UseLabels
<1>2. PICK to \in {"dec", "backPermit"}, state \in {"claimed", "cancelled"} :
        /\ pc' = [pc EXCEPT ![r] = to] /\ entry' = [entry EXCEPT ![next[r]] = state]
        /\ to = "dec" <=> state = "claimed"
        /\ state = "cancelled" => entry[next[r]] = "cancelled"
        /\ state = "claimed" => entry[next[r]] = "active"
  <2>1. CASE entry[next[r]] = "active"
    BY <2>1 DEF Take
  <2>2. CASE entry[next[r]] = "cancelled"
    <3>1. entry' = entry /\ pc' = [pc EXCEPT ![r] = "backPermit"]
      BY <2>2 DEF Take
    <3>2. entry' = [entry EXCEPT ![next[r]] = "cancelled"]
      BY <2>2, <3>1 DEF Shape
    <3> QED
      BY <2>2, <3>1, <3>2
  <2> QED
    BY <1>1, <2>1, <2>2
<1>3. Queueing' /\ queue' \in Seq(Requests)
  <2>1. state \in EntryStates \ {"active"} /\ entry' = [entry EXCEPT ![Head(queue)] = state]
    BY <1>1, <1>2 DEF EntryStates
  <2> QED
    BY <1>1, <2>1, HeadRemoved
<1>4. Shape' /\ pc'[r] = to /\ entry'[next[r]] = state
      /\ \A d \in Requests \ {r} : pc'[d] = pc[d]
      /\ \A q \in Requests \ {next[r]} : entry'[q] = entry[q]
  BY <1>1, <1>2, <1>3 DEF Shape, HandlerLabels, EntryStates
<1>5. OneOwner' /\ OneHandler'
  BY <1>1, <1>4 DEF OneOwner, OneHandler, LockLabels, HeadLabels
<1>6. Fate'
  BY <1>1, <1>2, <1>4 DEF Fate
<1>7. Knows(r)'
  BY <1>1, <1>2, <1>4
     DEF Knows, FreshLabels, UseLabels, HeadLabels, BackLabels, TakenLabels, ExecuteLabels
<1>8. ASSUME NEW d \in Requests \ {r} PROVE Knows(d)'
  <2>1. Knows(d) /\ pc[d] \notin LockLabels /\ pc'[d] = pc[d]
    BY <1>1, <1>4
  <2>2. next[d] # next[r]
    <3> SUFFICES ASSUME next[d] = next[r] PROVE FALSE
      OBVIOUS
    <3> QED
      BY <1>1, UploadAssumption DEF OneHandler
  <2>3. pc[d] \in FreshLabels => d # next[r]
    BY <1>1, <2>1 DEF Knows
  <2>4. pc[d] \in ExecuteLabels => next[d] \in Requests
    BY <2>1 DEF Knows, UseLabels, Shape
  <2> QED
    BY <1>1, <1>4, <2>1, <2>2, <2>3, <2>4 DEF Knows, LockLabels
<1>9. PermitsConserved'
  BY <1>1, <1>2, <1>4, PermitMove DEF Held, HolderLabels, Shape
<1> QED
  BY <1>3, <1>4, <1>5, <1>6, <1>7, <1>8, <1>9

(* An upload is queued.                                                    *)
LEMMA OfferStep ==
  ASSUME Inv, NEW r \in Requests, Offer(r)
  PROVE  Inv'
<1> USE DEF Inv, Goto, budgets
<1>1. /\ ~locked /\ pc[r] = "offer" /\ pc' = [pc EXCEPT ![r] = "drain"]
      /\ queue' = Append(queue, r) /\ offers' = Append(offers, r)
      /\ entry' = [entry EXCEPT ![r] = "active"]
      /\ UNCHANGED <<stored, result, cb, next, locked, permits, dropped>>
  BY DEF Offer
<1>2. /\ entry[r] = "none" /\ r \notin stored /\ cb[r] # "remove"
      /\ \A i \in 1 .. Len(offers) : offers[i] # r
  <2>1. Knows(r)
    OBVIOUS
  <2> QED
    BY <1>1, <2>1 DEF Knows, FreshLabels, Fate
<1>3. /\ Len(queue) \in Nat /\ Len(offers) \in Nat
      /\ queue' \in Seq(Requests) /\ Len(queue') = Len(queue) + 1 /\ queue'[Len(queue) + 1] = r
      /\ \A i \in 1 .. Len(queue) : queue'[i] = queue[i]
      /\ offers' \in Seq(Requests) /\ Len(offers') = Len(offers) + 1 /\ offers'[Len(offers) + 1] = r
      /\ \A i \in 1 .. Len(offers) : offers'[i] = offers[i]
  BY <1>1, AppendProperties, LenProperties DEF Shape
<1>4. Shape' /\ pc'[r] = "drain" /\ entry'[r] = "active"
      /\ \A d \in Requests \ {r} : pc'[d] = pc[d] /\ entry'[d] = entry[d]
  BY <1>1, <1>3 DEF Shape, HandlerLabels, EntryStates
<1>5. \A d \in Requests : pc[d] \notin LockLabels
  BY <1>1 DEF OneOwner
<1>6. OneOwner' /\ OneHandler' /\ Fate'
  BY <1>1, <1>2, <1>4, <1>5 DEF OneOwner, OneHandler, Fate, LockLabels, HeadLabels, BackLabels, TakenLabels
<1>7. Queueing'
  <2>1. \A i \in 1 .. Len(queue) : queue[i] \in Requests /\ queue[i] # r
    BY <1>2, ElementOfSeq DEF Queueing, Shape
  <2>2. \A i \in 1 .. Len(queue') :
          /\ entry'[queue'[i]] \in {"active", "cancelled"}
          /\ \E k \in 1 .. Len(offers') : offers'[k] = queue'[i]
    <3> SUFFICES ASSUME NEW i \in 1 .. Len(queue')
                 PROVE  /\ entry'[queue'[i]] \in {"active", "cancelled"}
                        /\ \E k \in 1 .. Len(offers') : offers'[k] = queue'[i]
      OBVIOUS
    <3>1. CASE i \in 1 .. Len(queue)
      <4>1. PICK k \in 1 .. Len(offers) : offers[k] = queue[i]
        BY <3>1 DEF Queueing
      <4> QED
        BY <1>3, <1>4, <2>1, <3>1, <4>1 DEF Queueing
    <3>2. CASE i = Len(queue) + 1
      <4>1. Len(offers) + 1 \in 1 .. Len(offers')
        BY <1>3
      <4> QED
        BY <1>3, <1>4, <3>2, <4>1
    <3> QED
      BY <1>3, <3>1, <3>2
  <2>3. DOMAIN offers = 1 .. Len(offers) /\ DOMAIN offers' = 1 .. Len(offers')
    BY <1>3, LenProperties DEF Shape
  <2>4. (\A i, j \in 1 .. Len(queue) : i < j => Before(queue[i], queue[j]))'
    <3> SUFFICES ASSUME NEW i \in 1 .. Len(queue'), NEW j \in 1 .. Len(queue'), i < j
                 PROVE  Before(queue[i], queue[j])'
      OBVIOUS
    <3>1. i \in 1 .. Len(queue)
      BY <1>3
    <3>2. CASE j \in 1 .. Len(queue)
      <4>1. Before(queue[i], queue[j])
        BY <3>1, <3>2 DEF Queueing
      <4> QED
        BY <1>3, <2>3, <3>1, <3>2, <4>1 DEF Before
    <3>3. CASE j = Len(queue) + 1
      <4>1. PICK k \in 1 .. Len(offers) : offers[k] = queue[i]
        BY <3>1 DEF Queueing
      <4>2. k \in 1 .. Len(offers') /\ Len(offers) + 1 \in 1 .. Len(offers') /\ k < Len(offers) + 1
        BY <1>3
      <4> QED
        BY <1>3, <2>3, <3>1, <3>3, <4>1, <4>2 DEF Before
    <3> QED
      BY <1>3, <3>2, <3>3
  <2>5. \A i, j \in 1 .. Len(offers') : offers'[i] = offers'[j] => i = j
    <3> SUFFICES ASSUME NEW i \in 1 .. Len(offers'), NEW j \in 1 .. Len(offers'),
                        offers'[i] = offers'[j]
                 PROVE  i = j
      OBVIOUS
    <3>1. CASE i \in 1 .. Len(offers) /\ j \in 1 .. Len(offers)
      BY <1>3, <3>1 DEF Queueing
    <3>2. CASE i \in 1 .. Len(offers) /\ j = Len(offers) + 1
      BY <1>2, <1>3, <3>2
    <3>3. CASE i = Len(offers) + 1 /\ j \in 1 .. Len(offers)
      BY <1>2, <1>3, <3>3
    <3> QED
      BY <1>3, <3>1, <3>2, <3>3
  <2>6. \A q \in Requests : entry'[q] = "active" => \E i \in 1 .. Len(queue') : queue'[i] = q
    <3> SUFFICES ASSUME NEW q \in Requests, entry'[q] = "active"
                 PROVE  \E i \in 1 .. Len(queue') : queue'[i] = q
      OBVIOUS
    <3>1. CASE q = r
      BY <1>3, <3>1
    <3>2. CASE q # r
      <4>1. PICK i \in 1 .. Len(queue) : queue[i] = q
        BY <1>4, <3>2 DEF Queueing
      <4> QED
        BY <1>3, <4>1
    <3> QED
      BY <3>1, <3>2
  <2> QED
    BY <2>2, <2>4, <2>5, <2>6 DEF Queueing
<1>8. Knows(r)'
  BY <1>1, <1>2, <1>4, UploadAssumption
     DEF Knows, FreshLabels, UseLabels, HeadLabels, BackLabels, TakenLabels, ExecuteLabels
<1>9. ASSUME NEW d \in Requests \ {r} PROVE Knows(d)'
  <2>1. Knows(d) /\ pc'[d] = pc[d] /\ next'[d] = next[d] /\ entry'[d] = entry[d]
        /\ next[d] \in Requests \cup {NoRequest} /\ pc[d] \notin LockLabels
    BY <1>1, <1>4, <1>5 DEF Shape
  <2>2. pc[d] \in FreshLabels => \A i \in 1 .. Len(offers') : offers'[i] # d
    BY <1>3, <2>1 DEF Knows
  <2>3. pc[d] \in ExecuteLabels => next[d] \in Requests /\ entry'[next[d]] = entry[next[d]]
    <3>1. pc[d] \in ExecuteLabels => next[d] \in Requests /\ next[d] # r
      BY <1>2, <2>1 DEF Knows, UseLabels
    <3> QED
      BY <1>4, <3>1
  <2> QED
    BY <1>1, <2>1, <2>2, <2>3 DEF Knows, LockLabels
<1>10. PermitsConserved'
  BY <1>1, <1>4, PermitMove DEF Held, HolderLabels, Shape
<1> QED
  BY <1>4, <1>6, <1>7, <1>8, <1>9, <1>10

-----------------------------------------------------------------------------
(* cancelQueuedUpload.                                                     *)

(* A callback that changes the entry of its own request: it clears active, *)
(* or finds the entry gone from the queue, outside the lock.               *)
LEMMA EntryCleared ==
  ASSUME Inv, NEW r \in Requests, NEW to \in CallbackLabels,
         NEW state \in {"cancelled", "leaked"},
         cb' = [cb EXCEPT ![r] = to], entry' = [entry EXCEPT ![r] = state],
         entry[r] \in {"active", "cancelled"}, to = "remove" => state = "cancelled",
         state = "leaked" => ~locked /\ \A i \in 1 .. Len(queue) : queue[i] # r,
         UNCHANGED <<queue, offers, stored, result, pc, next, locked, permits, dropped>>
  PROVE  Inv'
<1> USE DEF Inv
<1>1. Shape' /\ entry'[r] = state /\ \A q \in Requests \ {r} : entry'[q] = entry[q]
  BY DEF Shape, EntryStates
<1>2. OneOwner' /\ OneHandler' /\ PermitsConserved'
  BY PermitsStay DEF OneOwner, OneHandler
<1>3. Queueing'
  <2>1. \A i \in 1 .. Len(queue) : queue[i] \in Requests
    BY ElementOfSeq DEF Shape
  <2>2. \A i \in 1 .. Len(queue) : entry'[queue[i]] \in {"active", "cancelled"}
    BY <1>1, <2>1 DEF Queueing
  <2>3. \A q \in Requests : entry'[q] = "active" => entry[q] = "active"
    BY <1>1
  <2>4. /\ \A i \in 1 .. Len(queue') : entry'[queue'[i]] \in {"active", "cancelled"}
        /\ \A i \in 1 .. Len(queue') : \E k \in 1 .. Len(offers') : offers'[k] = queue'[i]
        /\ \A i, j \in 1 .. Len(offers') : offers'[i] = offers'[j] => i = j
        /\ \A q \in Requests : entry'[q] = "active" => \E i \in 1 .. Len(queue') : queue'[i] = q
    BY <2>2, <2>3 DEF Queueing
  <2>5. (\A i, j \in 1 .. Len(queue) : i < j => Before(queue[i], queue[j]))'
    BY DEF Queueing, Before
  <2> QED
    BY <2>4, <2>5 DEF Queueing
<1>4. Fate'
  <2>1. r \notin stored
    BY DEF Fate
  <2>2. \A q \in Requests : cb'[q] = "remove" => entry'[q] = "cancelled"
    BY <1>1 DEF Fate, Shape
  <2> QED
    BY <1>1, <2>1, <2>2 DEF Fate, Shape
<1>5. ASSUME NEW d \in Requests PROVE Knows(d)'
  <2>1. Knows(d) /\ (state = "leaked" => pc[d] \notin LockLabels)
    BY DEF OneOwner
  <2>2. pc[d] \in UseLabels => next[d] \in Requests
    BY <2>1 DEF Knows, Shape
  <2> QED
    BY <1>1, <2>1, <2>2 DEF Knows, LockLabels, UseLabels
<1> QED
  BY <1>1, <1>2, <1>3, <1>4, <1>5

LEMMA CancelStep ==
  ASSUME Inv, NEW r \in Requests, (CancelClaim(r) /\ entry' # entry) \/ CancelRemove(r)
  PROVE  Inv'
<1> USE DEF budgets, line, request, history, Callback
<1>1. CASE CancelClaim(r) /\ entry' # entry
  <2>1. /\ cb' = [cb EXCEPT ![r] = "remove"] /\ entry' = [entry EXCEPT ![r] = "cancelled"]
        /\ entry[r] = "active"
        /\ UNCHANGED <<queue, offers, stored, result, pc, next, locked, permits, dropped>>
    BY <1>1 DEF CancelClaim
  <2> QED
    BY <2>1, EntryCleared DEF CallbackLabels
<1>2. CASE CancelRemove(r) /\ cb'[r] = "answer"
  <2>1. /\ cb[r] = "remove" /\ cb' = [cb EXCEPT ![r] = "answer"] /\ ~locked
        /\ entry' = [entry EXCEPT ![r] = "leaked"] /\ r \notin Range(queue)
        /\ UNCHANGED <<queue, offers, stored, result, pc, next, locked, permits, dropped>>
    BY <1>2 DEF CancelRemove, Inv, Shape
  <2>2. entry[r] = "cancelled"
    BY <2>1 DEF Inv, Fate
  <2>3. \A i \in 1 .. Len(queue) : queue[i] # r
    BY <2>1, LenProperties DEF Range, Inv, Shape
  <2> QED
    BY <2>1, <2>2, <2>3, EntryCleared DEF CallbackLabels
<1>3. CASE CancelRemove(r) /\ cb'[r] # "answer"
  <2>1. /\ cb[r] = "remove" /\ cb' = [cb EXCEPT ![r] = "dec"] /\ ~locked
        /\ \E i \in DOMAIN queue : queue[i] = r /\ queue' = RemoveAt(queue, i)
        /\ UNCHANGED <<entry, offers, stored, result, pc, next, locked, permits, dropped>>
    BY <1>3 DEF CancelRemove, Inv, Shape
  <2>2. PICK i \in DOMAIN queue : queue[i] = r /\ queue' = RemoveAt(queue, i)
    BY <2>1
  <2>3. /\ queue \in Seq(Requests) /\ i \in 1 .. Len(queue) /\ Len(queue) \in Nat
        /\ entry[r] = "cancelled" /\ entry \in [Requests -> EntryStates]
    BY <2>1, <2>2, LenProperties DEF Inv, Fate, Shape
  <2>4. /\ queue' \in Seq(Requests) /\ DOMAIN queue' = 1 .. Len(queue) - 1
        /\ \A j \in DOMAIN queue' : queue'[j] = queue[IF j < i THEN j ELSE j + 1]
    BY <2>2, <2>3, RemoveAtElements
  <2>5. Len(queue') = Len(queue) - 1
    BY <2>3, <2>4, LenProperties
  <2>6. entry' = [entry EXCEPT ![queue[i]] = "cancelled"]
    BY <2>1, <2>2, <2>3
  <2>7. Queueing'
    BY <2>1, <2>3, <2>4, <2>5, <2>6, Removed DEF Inv, EntryStates
  <2>8. Shape' /\ Fate'
    BY <2>1, <2>4 DEF Inv, Shape, Fate, CallbackLabels
  <2>9. OneOwner' /\ OneHandler' /\ PermitsConserved'
    BY <2>1, PermitsStay DEF Inv, OneOwner, OneHandler
  <2>10. \A d \in Requests : Knows(d)'
    BY <2>1 DEF Inv, Knows, OneOwner, LockLabels
  <2> QED
    BY <2>7, <2>8, <2>9, <2>10 DEF Inv
<1> QED
  BY <1>1, <1>2, <1>3

-----------------------------------------------------------------------------
(* Every step.                                                             *)
LEMMA InvStep == Inv /\ [Next]_vars => Inv'
<1> SUFFICES ASSUME Inv, [Next]_vars PROVE Inv'
  OBVIOUS
<1>1. CASE UNCHANGED vars
  <2>1. /\ Shape' = Shape /\ OneOwner' = OneOwner /\ OneHandler' = OneHandler /\ Queueing' = Queueing
        /\ Fate' = Fate
    BY <1>1 DEF vars, line, request, history, budgets, Shape, OneOwner, OneHandler, Queueing, Fate, Before
  <2>2. PermitsConserved' /\ \A d \in Requests : Knows(d)'
    BY <1>1, PermitsStay DEF vars, line, request, history, budgets, Inv, Knows
  <2> QED
    BY <2>1, <2>2 DEF Inv
<1>2. CASE Next
  <2>1. PICK r \in Requests :
          \/ Reject(r) \/ Admit(r) \/ HandlerStep(r) \/ CallbackStep(r)
          \/ ContainerEvent(r)
    BY <1>2 DEF Next
  <2>2. CASE Reject(r) \/ Refuse(r) \/ Succeed(r) \/ Fail(r)
    BY <2>2, ResultStep
  <2>3. CASE Store(r)
    <3>1. CASE pc'[r] = "succeed"
      BY <2>3, <3>1, StoreStep
    <3>2. CASE pc'[r] # "succeed"
      BY <2>3, <3>2, GoOnIdly
         DEF Store, Goto, Onward, HolderLabels, Calm, beyondControl, beyondRequest, budgets, line,
             request, history, Inv, Shape
    <3> QED
      BY <3>1, <3>2
  <2>4. CASE Look(r)
    BY <2>4, LookStep, PassOver
  <2>5. CASE CallbackStep(r) \/ ContainerEvent(r)
    BY <2>5, CallbackStepQuiet, CancelStep DEF CallbackStep
  <2>6. CASE TryBytes(r) \/ PollPermit(r)
    BY <2>6, PermitStep, HandStep
  <2> QED
    BY <2>1, <2>2, <2>3, <2>4, <2>5, <2>6, IdleStep, PermitStep, HandStep, OfferStep, TakeStep
       DEF HandlerStep
<1> QED
  BY <1>1, <1>2

LEMMA InvAlways == Spec => []Inv
BY InvInit, InvStep, PTL DEF Spec

-----------------------------------------------------------------------------
(* The semaphore of uploads: on the fast path, on the four exits of        *)
(* pollNextQueuedUploadReady, and when storing throws, a permit is         *)
(* returned once; only line 400 loses some.                                *)
THEOREM PermitsAreConserved == Spec => []PermitsConserved
<1>1. Inv => PermitsConserved
  BY DEF Inv
<1> QED
  BY <1>1, InvAlways, PTL

(* cancelQueuedUpload and the poll settle by compareAndSet who has an      *)
(* upload: it is not executed after its cancel, nor twice, 200 means       *)
(* stored, and the poll removes the entry that it looked at.               *)
THEOREM OneFate == Spec => []UploadHasOneFate
<1>1. Inv => UploadHasOneFate
  <2> SUFFICES ASSUME Inv PROVE UploadHasOneFate
    OBVIOUS
  <2>1. \A r \in Requests : entry[r] \in {"cancelled", "leaked"} => r \notin stored
    BY DEF Inv, Fate
  <2>2. \A r \in Requests :
          pc[r] \in {"pollPermit", "pollBytes", "take"} => queue # <<>> /\ Head(queue) = next[r]
    BY DEF Inv, Knows, HeadLabels
  <2> QED
    BY <2>1, <2>2 DEF Inv, OneHandler, Fate, UploadHasOneFate
<1> QED
  BY <1>1, InvAlways, PTL

(* The deque, its lock and the claim at the head keep the order of         *)
(* arrival, whatever is cancelled or passed over meanwhile.                *)
THEOREM InOrder == Spec => FirstComeFirstServed
<1> DEFINE A == \A r \in Requests : entry[r] = "active" /\ entry'[r] = "claimed" =>
                  \A q \in Requests : Before(q, r) => entry[q] # "active"
<1>1. Inv /\ [Next]_vars => [A]_vars
  <2> SUFFICES ASSUME Inv, [Next]_vars, NEW r \in Requests, entry[r] = "active", entry'[r] = "claimed",
                      NEW q \in Requests, Before(q, r), entry[q] = "active"
               PROVE  FALSE
    OBVIOUS
  <2> USE DEF Inv
  <2>1. PICK d \in Requests : Take(d) /\ r = next[d]
    <3>1. PICK d \in Requests :
            \/ Reject(d) \/ Admit(d) \/ HandlerStep(d) \/ CallbackStep(d)
            \/ ContainerEvent(d)
      BY DEF Next, vars, request
    <3>2. entry' # entry
      OBVIOUS
    <3>3. Offer(d) \/ Take(d) \/ CancelClaim(d) \/ CancelRemove(d)
      BY <3>1, <3>2
         DEF HandlerStep, CallbackStep, Reject, Admit, CheckCount, TryPermit, TryBytes, Reserve, CountUp,
             CountDown, Unreserve, Refuse, DrainEnter, Lock, Look, PollPermit, PollBytes, Undo,
             BackPermit, BackBytes, DecCount, FreeBytes, Store, Succeed, Fail, FreeInFlight, FreePermit,
             NestedDrain, Exit, RecheckCount, RecheckPermits, StackOverflow, Return, ContainerEvent,
             CancelDec, CancelFree, CallbackAnswer,
             beyondControl, beyondBudgets, beyondLine, beyondRequest, line, request
    <3>4. ~Offer(d)
      BY DEF Offer, Shape
    <3>5. ~CancelClaim(d) /\ ~CancelRemove(d)
      BY <3>2 DEF CancelClaim, CancelRemove, Shape, request
    <3>6. Take(d)
      BY <3>3, <3>4, <3>5
    <3>7. r = next[d]
      BY <3>2, <3>6 DEF Take, Shape
    <3> QED
      BY <3>6, <3>7
  <2>2. queue # <<>> /\ Head(queue) = r
    BY <2>1 DEF Knows, HeadLabels, Take, Goto
  <2>3. Len(queue) \in Nat /\ 1 \in 1 .. Len(queue) /\ queue[1] = r
    BY <2>2, HeadTailProperties, LenProperties, EmptySeq DEF Shape
  <2>4. PICK i \in 1 .. Len(queue) : queue[i] = q
    BY DEF Queueing
  <2>5. CASE i = 1
    BY <2>3, <2>4, <2>5, BeforeIsStrict
  <2>6. CASE i > 1
    <3>1. Before(queue[1], queue[i])
      BY <2>3, <2>6 DEF Queueing
    <3> QED
      BY <2>3, <2>4, <3>1, BeforeIsStrict
  <2> QED
    BY <2>3, <2>5, <2>6
<1>2. Spec => [][A]_vars
  BY <1>1, InvAlways, PTL DEF Spec
<1> QED
  BY <1>2 DEF FirstComeFirstServed

-----------------------------------------------------------------------------
(* What a queued upload reserves: its place and its bytes.                 *)

(* A callback that is cancelling owns the entry, and what is cancelled and *)
(* still in the queue is about to be removed.                              *)
Cancelling ==
  /\ \A r \in Requests : cb[r] \in {"remove", "dec", "free"} => entry[r] = "cancelled"
  /\ \A i \in 1 .. Len(queue) : entry[queue[i]] = "cancelled" => cb[queue[i]] = "remove"

LEMMA CancellingStep ==
  ASSUME Inv, Cancelling, [Next]_vars
  PROVE  Cancelling'
<1> USE DEF Inv, Shape
<1>0. /\ Len(queue) \in Nat /\ DOMAIN queue = 1 .. Len(queue)
      /\ \A i \in 1 .. Len(queue) : queue[i] \in Requests
  BY LenProperties, ElementOfSeq
<1>1. ASSUME UNCHANGED <<queue, entry>>,
             \A q \in Requests :
               /\ cb'[q] \in {"remove", "dec", "free"} => cb[q] \in {"remove", "dec", "free"}
               /\ cb[q] = "remove" => cb'[q] = "remove"
      PROVE  Cancelling'
  BY <1>0, <1>1 DEF Cancelling
<1>2. ASSUME NEW r \in Requests, Offer(r) PROVE Cancelling'
  <2>1. /\ entry[r] = "none" /\ entry' = [entry EXCEPT ![r] = "active"]
        /\ queue' = Append(queue, r) /\ UNCHANGED cb
    BY <1>2 DEF Offer, Goto, Knows, FreshLabels
  <2>2. \A i \in 1 .. Len(queue') : queue'[i] = r \/ (i \in 1 .. Len(queue) /\ queue'[i] = queue[i])
    BY <1>0, <2>1, AppendProperties
  <2> QED
    BY <1>0, <2>1, <2>2 DEF Cancelling
<1>3. ASSUME NEW r \in Requests, Look(r) \/ Take(r) PROVE Cancelling'
  <2>1. /\ UNCHANGED cb
        /\ \A q \in Requests : entry'[q] = "cancelled" <=> entry[q] = "cancelled"
    <3>1. CASE Look(r)
      BY <3>1 DEF Look, beyondLine, beyondControl, request
    <3>2. CASE Take(r)
      BY <3>2 DEF Take
    <3> QED
      BY <1>3, <3>1, <3>2
  <2>2. \A i \in 1 .. Len(queue') : \E k \in 1 .. Len(queue) : queue'[i] = queue[k]
    <3>1. CASE UNCHANGED queue
      BY <3>1
    <3>2. CASE queue # <<>> /\ queue' = Tail(queue)
      <4>1. \A i \in 1 .. Len(queue') : i + 1 \in 1 .. Len(queue) /\ queue'[i] = queue[i + 1]
        BY <1>0, <3>2, HeadTailProperties
      <4> QED
        BY <4>1
    <3>3. queue' = queue \/ (queue # <<>> /\ queue' = Tail(queue))
      <4>1. CASE Look(r)
        BY <4>1 DEF Look, beyondControl, line
      <4>2. CASE Take(r)
        <5>1. pc[r] = "take" /\ queue' = Tail(queue)
          BY <4>2 DEF Take, Goto
        <5>2. Knows(r)
          OBVIOUS
        <5>3. queue # <<>>
          BY <5>1, <5>2 DEF Knows, HeadLabels
        <5> QED
          BY <5>1, <5>3
      <4> QED
        BY <1>3, <4>1, <4>2
    <3> QED
      BY <3>1, <3>2, <3>3
  <2>3. ASSUME NEW q \in Requests, cb'[q] \in {"remove", "dec", "free"} PROVE entry'[q] = "cancelled"
    BY <2>1, <2>3 DEF Cancelling
  <2>4. ASSUME NEW i \in 1 .. Len(queue'), entry'[queue'[i]] = "cancelled" PROVE cb'[queue'[i]] = "remove"
    <3>1. PICK k \in 1 .. Len(queue) : queue'[i] = queue[k]
      BY <2>2
    <3>2. queue[k] \in Requests /\ entry[queue[k]] = "cancelled"
      BY <1>0, <2>1, <2>4, <3>1
    <3> QED
      BY <2>1, <3>1, <3>2 DEF Cancelling
  <2> QED
    BY <2>3, <2>4 DEF Cancelling
<1>4. ASSUME NEW r \in Requests, CancelClaim(r) PROVE Cancelling'
  <2>1. CASE entry[r] = "active"
    <3>1. /\ entry' = [entry EXCEPT ![r] = "cancelled"] /\ cb' = [cb EXCEPT ![r] = "remove"]
          /\ UNCHANGED queue
      BY <1>4, <2>1 DEF CancelClaim, Callback, line
    <3> QED
      BY <1>0, <3>1 DEF Cancelling
  <2>2. CASE entry[r] # "active"
    <3>1. /\ UNCHANGED <<queue, entry>> /\ cb[r] = "claim" /\ cb' = [cb EXCEPT ![r] = "answer"]
      BY <1>4, <2>2 DEF CancelClaim, Callback, line, request
    <3> QED
      BY <1>1, <3>1
  <2> QED
    BY <2>1, <2>2
<1>5. ASSUME NEW r \in Requests, CancelRemove(r) PROVE Cancelling'
  <2>1. CASE cb'[r] = "answer"
    <3>1. /\ cb' = [cb EXCEPT ![r] = "answer"] /\ entry' = [entry EXCEPT ![r] = "leaked"]
          /\ UNCHANGED queue /\ r \notin Range(queue)
      BY <1>5, <2>1 DEF CancelRemove, Callback
    <3>2. \A i \in 1 .. Len(queue) : queue[i] # r
      BY <1>0, <3>1 DEF Range
    <3> QED
      BY <1>0, <3>1, <3>2 DEF Cancelling
  <2>2. CASE cb'[r] # "answer"
    <3>1. /\ cb[r] = "remove" /\ cb' = [cb EXCEPT ![r] = "dec"] /\ UNCHANGED entry
          /\ \E i \in DOMAIN queue : queue[i] = r /\ queue' = RemoveAt(queue, i)
      BY <1>5, <2>2 DEF CancelRemove, Callback
    <3>2. PICK i \in 1 .. Len(queue) : queue[i] = r /\ queue' = RemoveAt(queue, i)
      BY <1>0, <3>1
    <3>3. /\ queue' \in Seq(Requests) /\ DOMAIN queue' = 1 .. Len(queue) - 1
          /\ \A j \in DOMAIN queue' : queue'[j] = queue[IF j < i THEN j ELSE j + 1]
      BY <1>0, <3>2, RemoveAtElements
    <3>4. DOMAIN queue' = 1 .. Len(queue')
      BY <3>3, LenProperties
    <3>5. \A j \in 1 .. Len(queue') : \E k \in 1 .. Len(queue) : k # i /\ queue'[j] = queue[k]
      <4>1. \A j \in DOMAIN queue' : (IF j < i THEN j ELSE j + 1) \in 1 .. Len(queue) \ {i}
        BY <1>0, <3>3
      <4> QED
        BY <3>3, <3>4, <4>1
    <3>6. \A k \in 1 .. Len(queue) : k # i => queue[k] # r
      BY <3>2, NoUploadTwice
    <3> QED
      BY <1>0, <3>1, <3>5, <3>6 DEF Cancelling
  <2> QED
    BY <2>1, <2>2
<1>6. CASE \A r \in Requests : ~Offer(r) /\ ~Look(r) /\ ~Take(r) /\ ~CancelClaim(r) /\ ~CancelRemove(r)
  <2>1. UNCHANGED <<queue, entry>>
    BY <1>6 DEF Next, HandlerStep, CallbackStep, vars, line, request, beyondBudgets, beyondLine,
         beyondRequest, beyondControl, Reject, Admit, CheckCount, TryPermit, TryBytes, Reserve,
         CountUp, CountDown, Unreserve, Refuse, DrainEnter, Lock, PollPermit, PollBytes, Undo,
         BackPermit, BackBytes, DecCount, FreeBytes, Store, Succeed, Fail, FreeInFlight, FreePermit,
         NestedDrain, Exit, RecheckCount, RecheckPermits, StackOverflow, Return, ContainerEvent,
         CancelDec, CancelFree, CallbackAnswer
  <2>2. \A q \in Requests :
          /\ cb'[q] \in {"remove", "dec", "free"} => cb[q] \in {"remove", "dec", "free"}
          /\ cb[q] = "remove" => cb'[q] = "remove"
    BY <1>6 DEF Next, HandlerStep, CallbackStep, vars, beyondBudgets, beyondLine,
         beyondRequest, beyondControl, Reject, Admit, CheckCount, TryPermit, TryBytes, Reserve,
         CountUp, CountDown, Unreserve, Refuse, DrainEnter, Lock, PollPermit, PollBytes, Undo,
         BackPermit, BackBytes, DecCount, FreeBytes, Store, Succeed, Fail, FreeInFlight, FreePermit,
         NestedDrain, Exit, RecheckCount, RecheckPermits, StackOverflow, Return, ContainerEvent,
         CancelDec, CancelFree, CallbackAnswer, Callback
  <2> QED
    BY <1>1, <2>1, <2>2
<1> QED
  BY <1>2, <1>3, <1>4, <1>5, <1>6

-----------------------------------------------------------------------------
(* The place in the queue.                                                 *)
SlotLabels == {"countDown", "offer"}
SlotsHeld == queuedCount = Cardinality(SlotHolders)

LEMMA SlotSet ==
  /\ SlotHolders \in SUBSET Requests /\ IsFiniteSet(SlotHolders)
  /\ Cardinality(SlotHolders) \in Nat
<1>1. SlotHolders \in SUBSET Requests
  BY DEF SlotHolders
<1> QED
  BY <1>1, UploadAssumption, FS_Subset, FS_CardinalityType

LEMMA SlotTaken ==
  ASSUME SlotsHeld, NEW r \in Requests, r \notin SlotHolders, queuedCount' = queuedCount + 1,
         SlotHolders' = SlotHolders \cup {r}
  PROVE  SlotsHeld'
<1>1. Cardinality(SlotHolders \cup {r}) = Cardinality(SlotHolders) + 1
  BY SlotSet, FS_AddElement
<1> QED
  BY <1>1 DEF SlotsHeld

LEMMA SlotReturned ==
  ASSUME SlotsHeld, NEW r \in SlotHolders, queuedCount' = queuedCount - 1,
         SlotHolders' = SlotHolders \ {r}
  PROVE  SlotsHeld'
<1>1. Cardinality(SlotHolders \ {r}) = Cardinality(SlotHolders) - 1
  BY SlotSet, FS_RemoveElement
<1> QED
  BY <1>1 DEF SlotsHeld

LEMMA SameSlots ==
  ASSUME SlotsHeld, queuedCount' = queuedCount, \A q \in Requests : q \in SlotHolders' <=> q \in SlotHolders
  PROVE  SlotsHeld'
<1>1. SlotHolders' = SlotHolders
  BY DEF SlotHolders
<1> QED
  BY <1>1 DEF SlotsHeld

LEMMA SameTaken ==
  ASSUME NEW Labels,
         \A d \in Requests : /\ pc'[d] \in Labels <=> pc[d] \in Labels
                             /\ pc[d] \in Labels => next'[d] = next[d]
  PROVE  TakenAt(Labels)' = TakenAt(Labels)
<1>1. {d \in Requests : pc'[d] \in Labels} = {d \in Requests : pc[d] \in Labels}
  OBVIOUS
<1> DEFINE D == {d \in Requests : pc[d] \in Labels}
<1>2. {next'[d] : d \in D} = {next[d] : d \in D}
  OBVIOUS
<1> QED
  BY <1>1, <1>2 DEF TakenAt

(* Most steps touch neither counter nor holders.                           *)
LEMMA QuietForSlots ==
  ASSUME Inv, [Next]_vars,
         \A r \in Requests : /\ ~CountUp(r) /\ ~CountDown(r) /\ ~Offer(r) /\ ~Take(r) /\ ~DecCount(r)
                             /\ ~CancelClaim(r) /\ ~CancelRemove(r) /\ ~CancelDec(r)
  PROVE  queuedCount' = queuedCount /\ \A q \in Requests : q \in SlotHolders' <=> q \in SlotHolders
<1> USE DEF Inv, Shape, Next, HandlerStep, CallbackStep, vars, beyondBudgets, beyondLine,
         beyondRequest, beyondControl, Reject, Admit, CheckCount, TryPermit, TryBytes, Reserve,
         Unreserve, Refuse, DrainEnter, Lock, Look, PollPermit, PollBytes, Undo,
         BackPermit, BackBytes, FreeBytes, Store, Succeed, Fail, FreeInFlight, FreePermit,
         NestedDrain, Exit, RecheckCount, RecheckPermits, StackOverflow, Return, ContainerEvent,
         CancelFree, CallbackAnswer
<1>1. UNCHANGED <<queuedCount, entry>>
  BY DEF budgets, request
<1>2. \A d \in Requests : pc'[d] \in SlotLabels <=> pc[d] \in SlotLabels
  BY DEF Goto, SlotLabels
<1>3. \A d \in Requests : /\ pc'[d] \in {"dec"} <=> pc[d] \in {"dec"}
                          /\ pc[d] \in {"dec"} => next'[d] = next[d]
  BY DEF Goto
<1>4. \A d \in Requests : cb'[d] \in {"remove", "dec"} <=> cb[d] \in {"remove", "dec"}
  BY DEF Callback
<1>5. TakenAt({"dec"})' = TakenAt({"dec"})
  BY <1>3, SameTaken
<1> QED
  BY ONLY <1>1, <1>2, <1>4, <1>5 DEF SlotHolders, SlotLabels

(* Whom the poll has taken, and knows to be claimed.                       *)
LEMMA TakenIsClaimed ==
  ASSUME Inv, NEW r \in Requests, pc[r] \in {"dec", "free"}
  PROVE  /\ next[r] \in Requests /\ entry[next[r]] = "claimed" /\ pc[next[r]] \notin FreshLabels
         /\ \A d \in Requests : pc[d] \in LockLabels => d = r
BY DEF Inv, Shape, Knows, TakenLabels, UseLabels, OneOwner, LockLabels

LEMMA SlotsStep ==
  ASSUME Inv, Cancelling, SlotsHeld, [Next]_vars
  PROVE  SlotsHeld'
<1> USE DEF Inv, Shape
<1>1. ASSUME NEW r \in Requests, CountUp(r) PROVE SlotsHeld'
  <2>1. /\ pc[r] = "countUp" /\ entry[r] = "none" /\ UNCHANGED <<entry, cb, next>>
        /\ pc' = [pc EXCEPT ![r] = pc'[r]] /\ pc'[r] \in SlotLabels
        /\ queuedCount' = queuedCount + 1
    BY <1>1 DEF CountUp, Goto, Knows, FreshLabels, beyondBudgets, request, SlotLabels
  <2>2. TakenAt({"dec"})' = TakenAt({"dec"})
    BY <2>1, SameTaken DEF SlotLabels
  <2>3. r \notin SlotHolders /\ SlotHolders' = SlotHolders \cup {r}
    BY <2>1, <2>2 DEF SlotHolders, SlotLabels
  <2> QED
    BY <2>1, <2>3, SlotTaken
<1>2. ASSUME NEW r \in Requests, CountDown(r) PROVE SlotsHeld'
  <2>1. /\ pc[r] = "countDown" /\ entry[r] = "none" /\ UNCHANGED <<entry, cb, next>>
        /\ pc' = [pc EXCEPT ![r] = "unreserve"] /\ queuedCount' = queuedCount - 1
    BY <1>2 DEF CountDown, Goto, Knows, FreshLabels, beyondBudgets, request
  <2>2. TakenAt({"dec"})' = TakenAt({"dec"})
    BY <2>1, SameTaken
  <2>3. r \in SlotHolders /\ SlotHolders' = SlotHolders \ {r}
    BY <2>1, <2>2 DEF SlotHolders
  <2> QED
    BY <2>1, <2>3, SlotReturned
<1>3. ASSUME NEW r \in Requests, Offer(r) PROVE SlotsHeld'
  <2>1. /\ pc[r] = "offer" /\ entry[r] = "none" /\ entry' = [entry EXCEPT ![r] = "active"]
        /\ UNCHANGED <<cb, next, queuedCount>> /\ pc' = [pc EXCEPT ![r] = "drain"]
    BY <1>3 DEF Offer, Goto, Knows, FreshLabels, budgets
  <2>2. TakenAt({"dec"})' = TakenAt({"dec"})
    BY <2>1, SameTaken
  <2>3. \A q \in Requests : q \in SlotHolders' <=> q \in SlotHolders
    BY <2>1, <2>2 DEF SlotHolders
  <2> QED
    BY <2>1, <2>3, SameSlots
<1>4. ASSUME NEW r \in Requests, Take(r) PROVE SlotsHeld'
  <2>1. /\ pc[r] = "take" /\ next[r] \in Requests /\ entry[next[r]] \in {"active", "cancelled"}
        /\ UNCHANGED <<cb, next, queuedCount>>
    BY <1>4 DEF Take, Goto, Knows, HeadLabels, UseLabels, budgets
  <2>2. CASE entry[next[r]] = "active"
    <3>1. /\ pc' = [pc EXCEPT ![r] = "dec"] /\ entry' = [entry EXCEPT ![next[r]] = "claimed"]
      BY <1>4, <2>2 DEF Take, Goto
    <3>2. TakenAt({"dec"})' = TakenAt({"dec"}) \cup {next[r]}
      BY <2>1, <3>1 DEF TakenAt
    <3>3. \A q \in Requests : q \in SlotHolders' <=> q \in SlotHolders
      BY <2>1, <2>2, <3>1, <3>2 DEF SlotHolders
    <3> QED
      BY <2>1, <3>3, SameSlots
  <2>3. CASE entry[next[r]] # "active"
    <3>1. pc' = [pc EXCEPT ![r] = "backPermit"] /\ UNCHANGED entry
      BY <1>4, <2>3 DEF Take, Goto
    <3>2. TakenAt({"dec"})' = TakenAt({"dec"})
      BY <2>1, <3>1, SameTaken
    <3>3. \A q \in Requests : q \in SlotHolders' <=> q \in SlotHolders
      BY <2>1, <3>1, <3>2 DEF SlotHolders
    <3> QED
      BY <2>1, <3>3, SameSlots
  <2> QED
    BY <2>2, <2>3
<1>5. ASSUME NEW r \in Requests, DecCount(r) PROVE SlotsHeld'
  <2>1. /\ pc[r] = "dec" /\ pc' = [pc EXCEPT ![r] = "free"] /\ queuedCount' = queuedCount - 1
        /\ UNCHANGED <<entry, cb, next>>
    BY <1>5 DEF DecCount, Goto, beyondBudgets, request
  <2>2. /\ next[r] \in Requests /\ entry[next[r]] = "claimed" /\ pc[next[r]] \notin FreshLabels
        /\ \A d \in Requests : pc[d] = "dec" => d = r
    BY <2>1, TakenIsClaimed DEF LockLabels, TakenLabels
  <2>3. TakenAt({"dec"}) = {next[r]} /\ TakenAt({"dec"})' = {}
    BY <2>1, <2>2 DEF TakenAt
  <2>4. next[r] \in SlotHolders /\ SlotHolders' = SlotHolders \ {next[r]}
    BY <2>1, <2>2, <2>3 DEF SlotHolders, FreshLabels
  <2> QED
    BY <2>1, <2>4, SlotReturned
<1>6. ASSUME NEW r \in Requests, CancelClaim(r) PROVE SlotsHeld'
  <2>1. UNCHANGED <<queuedCount, pc, next>> /\ TakenAt({"dec"})' = TakenAt({"dec"})
    BY <1>6 DEF CancelClaim, budgets, TakenAt
  <2>2. \A q \in Requests : q \in SlotHolders' <=> q \in SlotHolders
    BY <1>6, <2>1 DEF CancelClaim, Callback, SlotHolders, request
  <2> QED
    BY <2>1, <2>2, SameSlots
<1>7. ASSUME NEW r \in Requests, CancelRemove(r) PROVE SlotsHeld'
  <2>1. UNCHANGED <<queuedCount, pc, next>> /\ TakenAt({"dec"})' = TakenAt({"dec"})
    BY <1>7 DEF CancelRemove, budgets, TakenAt
  <2>2. entry[r] = "cancelled" /\ cb[r] = "remove"
    BY <1>7 DEF CancelRemove, Callback, Cancelling
  <2>3. \/ UNCHANGED entry /\ cb' = [cb EXCEPT ![r] = "dec"]
        \/ entry' = [entry EXCEPT ![r] = "leaked"] /\ cb' = [cb EXCEPT ![r] = "answer"]
    BY <1>7 DEF CancelRemove, Callback
  <2>4. \A q \in Requests : q \in SlotHolders' <=> q \in SlotHolders
    BY <2>1, <2>2, <2>3 DEF SlotHolders
  <2> QED
    BY <2>1, <2>4, SameSlots
<1>8. ASSUME NEW r \in Requests, CancelDec(r) PROVE SlotsHeld'
  <2>1. /\ cb[r] = "dec" /\ cb' = [cb EXCEPT ![r] = "free"] /\ entry[r] = "cancelled"
        /\ queuedCount' = queuedCount - 1 /\ UNCHANGED <<entry, pc, next>>
    BY <1>8 DEF CancelDec, Callback, Cancelling, request
  <2>2. TakenAt({"dec"})' = TakenAt({"dec"}) /\ pc[r] \notin FreshLabels
    BY <2>1 DEF TakenAt, Knows
  <2>3. r \in SlotHolders /\ SlotHolders' = SlotHolders \ {r}
    BY <2>1, <2>2 DEF SlotHolders, FreshLabels
  <2> QED
    BY <2>1, <2>3, SlotReturned
<1>9. CASE \A r \in Requests : /\ ~CountUp(r) /\ ~CountDown(r) /\ ~Offer(r) /\ ~Take(r) /\ ~DecCount(r)
                               /\ ~CancelClaim(r) /\ ~CancelRemove(r) /\ ~CancelDec(r)
  BY <1>9, QuietForSlots, SameSlots
<1> QED
  BY <1>1, <1>2, <1>3, <1>4, <1>5, <1>6, <1>7, <1>8, <1>9

-----------------------------------------------------------------------------
(* The limit of the queue.                                                 *)

(* Those in the queue, and those that may enter it without looking at the  *)
(* count again.                                                            *)
Admitted == {r \in Requests : pc[r] = "offer" \/ \E i \in 1 .. Len(queue) : queue[i] = r}
LimitKept == Cardinality(Admitted) <= MaxQueueRequests

(* All of them are counted.                                                *)
LEMMA AdmittedAreCounted ==
  ASSUME Inv, Cancelling
  PROVE  /\ Admitted \subseteq SlotHolders /\ IsFiniteSet(SlotHolders)
         /\ IsFiniteSet(Admitted) /\ Cardinality(Admitted) \in Nat
         /\ Cardinality(Admitted) <= Cardinality(SlotHolders)
<1>1. Admitted \subseteq SlotHolders
  BY DEF Inv, Queueing, Cancelling, Admitted, SlotHolders
<1>2. IsFiniteSet(SlotHolders)
  BY SlotSet
<1> QED
  BY <1>1, <1>2, FS_Subset, FS_CardinalityType

(* Only line 411, which compares the count, admits another one.            *)
LEMMA OnlyCountUpAdmits ==
  ASSUME Inv, [Next]_vars, \A r \in Requests : ~CountUp(r)
  PROVE  Admitted' \subseteq Admitted
<1> USE DEF Inv, Shape
<1>0. Len(queue) \in Nat /\ DOMAIN queue = 1 .. Len(queue)
  BY LenProperties
<1>1. ASSUME \A r \in Requests : pc'[r] = "offer" => pc[r] = "offer",
             \A i \in 1 .. Len(queue') : \E k \in 1 .. Len(queue) : queue'[i] = queue[k]
      PROVE  Admitted' \subseteq Admitted
  BY <1>1 DEF Admitted
<1>2. ASSUME NEW r \in Requests, Offer(r) PROVE Admitted' \subseteq Admitted
  <2>1. /\ pc[r] = "offer" /\ queue' = Append(queue, r)
        /\ \A q \in Requests : pc'[q] = "offer" => pc[q] = "offer"
    BY <1>2 DEF Offer, Goto
  <2>2. \A i \in 1 .. Len(queue') : queue'[i] = r \/ (i \in 1 .. Len(queue) /\ queue'[i] = queue[i])
    BY <1>0, <2>1, AppendProperties
  <2> QED
    BY <2>1, <2>2 DEF Admitted
<1>3. ASSUME queue # <<>>, queue' = Tail(queue)
      PROVE  \A i \in 1 .. Len(queue') : \E k \in 1 .. Len(queue) : queue'[i] = queue[k]
  <2>1. \A i \in 1 .. Len(queue') : i + 1 \in 1 .. Len(queue) /\ queue'[i] = queue[i + 1]
    BY <1>0, <1>3, HeadTailProperties
  <2> QED
    BY <2>1
<1>4. ASSUME NEW r \in Requests, Look(r) \/ Take(r) PROVE Admitted' \subseteq Admitted
  <2>1. \A q \in Requests : pc'[q] = "offer" => pc[q] = "offer"
    BY <1>4 DEF Look, Take, Goto, beyondLine, beyondControl
  <2>2. queue' = queue \/ (queue # <<>> /\ queue' = Tail(queue))
    BY <1>4 DEF Look, Take, Goto, Knows, HeadLabels, beyondLine, beyondControl, line
  <2>3. CASE queue' = queue
    BY <1>1, <2>1, <2>3
  <2>4. CASE queue # <<>> /\ queue' = Tail(queue)
    BY <1>1, <1>3, <2>1, <2>4
  <2> QED
    BY <2>2, <2>3, <2>4
<1>5. ASSUME NEW r \in Requests, CancelRemove(r) PROVE Admitted' \subseteq Admitted
  <2>1. UNCHANGED pc
    BY <1>5 DEF CancelRemove, Callback
  <2>2. CASE \E i \in DOMAIN queue : queue' = RemoveAt(queue, i)
    <3>1. PICK i \in 1 .. Len(queue) : queue' = RemoveAt(queue, i)
      BY <1>0, <2>2
    <3>2. /\ queue' \in Seq(Requests) /\ DOMAIN queue' = 1 .. Len(queue) - 1
          /\ \A j \in DOMAIN queue' : queue'[j] = queue[IF j < i THEN j ELSE j + 1]
      BY <1>0, <3>1, RemoveAtElements
    <3>3. DOMAIN queue' = 1 .. Len(queue')
      BY <3>2, LenProperties
    <3>4. \A j \in DOMAIN queue' : (IF j < i THEN j ELSE j + 1) \in 1 .. Len(queue)
      BY <1>0, <3>2
    <3> QED
      BY <1>1, <2>1, <3>2, <3>3, <3>4
  <2>3. CASE UNCHANGED queue
    BY <1>1, <2>1, <2>3
  <2> QED
    BY <1>5, <2>2, <2>3 DEF CancelRemove
<1>6. CASE \A r \in Requests : ~Offer(r) /\ ~Look(r) /\ ~Take(r) /\ ~CancelRemove(r)
  <2>1. UNCHANGED queue
    BY <1>6 DEF Next, HandlerStep, CallbackStep, vars, line, beyondBudgets, beyondLine,
         beyondRequest, beyondControl, Reject, Admit, CheckCount, TryPermit, TryBytes, Reserve,
         CountDown, Unreserve, Refuse, DrainEnter, Lock, PollPermit, PollBytes, Undo,
         BackPermit, BackBytes, DecCount, FreeBytes, Store, Succeed, Fail, FreeInFlight, FreePermit,
         NestedDrain, Exit, RecheckCount, RecheckPermits, StackOverflow, Return, ContainerEvent,
         CancelClaim, CancelDec, CancelFree, CallbackAnswer
  <2>2. \A q \in Requests : pc'[q] = "offer" => pc[q] = "offer"
    BY <1>6 DEF Next, HandlerStep, CallbackStep, vars, beyondBudgets, beyondLine,
         beyondRequest, beyondControl, Reject, Admit, CheckCount, TryPermit, TryBytes, Reserve,
         CountDown, Unreserve, Refuse, DrainEnter, Lock, PollPermit, PollBytes, Undo,
         BackPermit, BackBytes, DecCount, FreeBytes, Store, Succeed, Fail, FreeInFlight, FreePermit,
         NestedDrain, Exit, RecheckCount, RecheckPermits, StackOverflow, Return, ContainerEvent,
         CancelClaim, CancelDec, CancelFree, CallbackAnswer, Goto
  <2> QED
    BY <1>1, <2>1, <2>2
<1> QED
  BY <1>2, <1>4, <1>5, <1>6

LEMMA LimitStep ==
  ASSUME Inv, Cancelling, SlotsHeld, [Next]_vars, (Inv /\ Cancelling /\ SlotsHeld)', LimitKept
  PROVE  LimitKept'
<1>1. /\ IsFiniteSet(Admitted) /\ Cardinality(Admitted) \in Nat /\ MaxQueueRequests \in Nat
      /\ queuedCount \in Nat
  BY AdmittedAreCounted, SlotSet, UploadAssumption DEF SlotsHeld
<1>2. (Inv /\ Cancelling => /\ Cardinality(Admitted) \in Nat /\ IsFiniteSet(Admitted)
                            /\ Cardinality(Admitted) <= Cardinality(SlotHolders))'
  BY AdmittedAreCounted, PTL
<1>3. CASE Admitted' \subseteq Admitted
  <2>1. Cardinality(Admitted') <= Cardinality(Admitted)
    BY <1>1, <1>3, FS_Subset
  <2> QED
    BY <1>1, <1>2, <2>1 DEF LimitKept
<1>4. CASE \A r \in Requests : ~CountUp(r)
  BY <1>3, <1>4, OnlyCountUpAdmits
<1>5. ASSUME NEW r \in Requests, CountUp(r), queuedCount + 1 <= MaxQueueRequests PROVE LimitKept'
  <2>1. queuedCount' = queuedCount + 1 /\ queuedCount' = Cardinality(SlotHolders')
    BY <1>5 DEF CountUp, SlotsHeld
  <2>2. Cardinality(Admitted') <= Cardinality(SlotHolders') /\ Cardinality(Admitted') \in Nat
    BY <1>2
  <2> QED
    BY <1>1, <1>5, <2>1, <2>2 DEF LimitKept
<1>6. ASSUME NEW r \in Requests, CountUp(r), ~(queuedCount + 1 <= MaxQueueRequests) PROVE LimitKept'
  <2>1. queuedCount + 1 > MaxQueueRequests
    BY <1>1, <1>6
  <2>2. pc' = [pc EXCEPT ![r] = "countDown"] /\ UNCHANGED queue
    BY <1>6, <2>1 DEF CountUp, Goto, beyondBudgets, line
  <2>3. Admitted' \subseteq Admitted
    BY <2>2 DEF Admitted, Inv, Shape
  <2> QED
    BY <1>3, <2>3
<1> QED
  BY <1>4, <1>5, <1>6

(* Nobody is in the queue twice.                                           *)
LEMMA QueueFits ==
  ASSUME Inv, Cancelling, LimitKept
  PROVE  Len(queue) <= MaxQueueRequests
<1> DEFINE Places == 1 .. Len(queue)
<1>1. /\ queue \in Seq(Requests) /\ Len(queue) \in Nat /\ queue \in [Places -> Requests]
  BY LenProperties DEF Inv, Shape
<1>2. queue \in Injection(Places, Admitted)
  <2>1. \A i \in Places : queue[i] \in Admitted
    BY <1>1 DEF Admitted
  <2>2. \A i, j \in Places : queue[i] = queue[j] => i = j
    BY NoUploadTwice DEF Inv
  <2> QED
    BY <1>1, <2>1, <2>2 DEF Injection, IsInjective
<1>3. Cardinality(Places) = Len(queue)
  BY <1>1, FS_Interval
<1>4. Cardinality(Places) <= Cardinality(Admitted)
  BY <1>2, AdmittedAreCounted, FS_Injection
<1> QED
  BY <1>1, <1>3, <1>4, AdmittedAreCounted, UploadAssumption DEF LimitKept

-----------------------------------------------------------------------------
(* The byte budget of the queue.                                           *)

(* Labels at which a handler owes its bytes, and at which a poll owes      *)
(* those of the upload that it has taken.                                  *)
ByteLabels == {"countUp", "countDown", "unreserve", "offer"}
BytesHeld == queueBytes = SumOf(Size, ByteHolders) /\ queueBytes <= MaxQueueBytes

LEMMA ByteSet ==
  /\ ByteHolders \subseteq Requests /\ IsFiniteSet(ByteHolders)
  /\ SumOf(Size, ByteHolders) \in Nat
  /\ MaxQueueBytes \in Nat /\ \A r \in Requests : Size[r] \in Nat
<1>1. ByteHolders \subseteq Requests
  BY DEF ByteHolders
<1>2. IsFiniteSet(ByteHolders) /\ MaxQueueBytes \in Nat /\ \A r \in Requests : Size[r] \in Nat
  BY <1>1, UploadAssumption, FS_Subset
<1>3. \A r \in ByteHolders : Size[r] \in Nat
  BY <1>1, <1>2
<1> QED
  BY <1>1, <1>2, <1>3, SumType

LEMMA BytesTaken ==
  ASSUME BytesHeld, NEW r \in Requests, r \notin ByteHolders,
         Fits(queueBytes, Size[r], MaxQueueBytes), queueBytes' = Charged(queueBytes, Size[r]),
         ByteHolders' = ByteHolders \cup {r}
  PROVE  BytesHeld'
<1>1. \A q \in ByteHolders : Size[q] \in Nat
  BY ByteSet
<1>2. SumOf(Size, ByteHolders \cup {r}) = SumOf(Size, ByteHolders) + Size[r]
  BY <1>1, ByteSet, SumAdd
<1>3. SumOf(Size, ByteHolders)' = SumOf(Size, ByteHolders \cup {r})
  OBVIOUS
<1>4. queueBytes \in Nat /\ Size[r] \in Nat /\ MaxQueueBytes \in Nat
  BY ByteSet DEF BytesHeld
<1> QED
  BY <1>2, <1>3, <1>4 DEF BytesHeld, Fits, Charged

LEMMA BytesReturned ==
  ASSUME BytesHeld, NEW r \in ByteHolders, queueBytes' = Refunded(queueBytes, Size[r]),
         ByteHolders' = ByteHolders \ {r}
  PROVE  BytesHeld'
<1>1. \A q \in ByteHolders : Size[q] \in Nat
  BY ByteSet
<1>2. SumOf(Size, ByteHolders) = Size[r] + SumOf(Size, ByteHolders \ {r})
  BY <1>1, ByteSet, SumRemove
<1>3. SumOf(Size, ByteHolders)' = SumOf(Size, ByteHolders \ {r})
  OBVIOUS
<1>4. SumOf(Size, ByteHolders \ {r}) \in Nat /\ Size[r] \in Nat /\ MaxQueueBytes \in Nat
  <2>1. IsFiniteSet(ByteHolders \ {r}) /\ \A q \in ByteHolders \ {r} : Size[q] \in Nat
    BY ByteSet, FS_Subset
  <2> QED
    BY <1>1, <2>1, ByteSet, SumType
<1> QED
  BY <1>2, <1>3, <1>4 DEF BytesHeld, Refunded

LEMMA SameBytes ==
  ASSUME BytesHeld, queueBytes' = queueBytes, \A q \in Requests : q \in ByteHolders' <=> q \in ByteHolders
  PROVE  BytesHeld'
<1>1. ByteHolders' = ByteHolders
  BY DEF ByteHolders
<1>2. SumOf(Size, ByteHolders)' = SumOf(Size, ByteHolders)
  BY <1>1
<1> QED
  BY <1>2 DEF BytesHeld

(* Most steps touch neither the budget nor its holders.                    *)
LEMMA QuietForBytes ==
  ASSUME Inv, [Next]_vars,
         \A r \in Requests : /\ ~Reserve(r) /\ ~Unreserve(r) /\ ~FreeBytes(r) /\ ~CancelFree(r)
                             /\ ~Offer(r) /\ ~Take(r) /\ ~CancelClaim(r) /\ ~CancelRemove(r)
  PROVE  queueBytes' = queueBytes /\ \A q \in Requests : q \in ByteHolders' <=> q \in ByteHolders
<1> USE DEF Inv, Shape, Next, HandlerStep, CallbackStep, vars, beyondBudgets, beyondLine,
         beyondRequest, beyondControl, Reject, Admit, CheckCount, TryPermit, TryBytes,
         CountUp, CountDown, Refuse, DrainEnter, Lock, Look, PollPermit, PollBytes, Undo,
         BackPermit, BackBytes, DecCount, Store, Succeed, Fail, FreeInFlight, FreePermit,
         NestedDrain, Exit, RecheckCount, RecheckPermits, StackOverflow, Return, ContainerEvent,
         CancelDec, CallbackAnswer
<1>1. UNCHANGED <<queueBytes, entry>>
  BY DEF budgets, request
<1>2. \A d \in Requests : pc'[d] \in ByteLabels <=> pc[d] \in ByteLabels
  BY DEF Goto, ByteLabels
<1>3. \A d \in Requests : /\ pc'[d] \in TakenLabels <=> pc[d] \in TakenLabels
                          /\ pc[d] \in TakenLabels => next'[d] = next[d]
  BY DEF Goto, TakenLabels
<1>4. \A d \in Requests : cb'[d] \in {"remove", "dec", "free"} <=> cb[d] \in {"remove", "dec", "free"}
  BY DEF Callback
<1>5. TakenAt(TakenLabels)' = TakenAt(TakenLabels)
  BY <1>3, SameTaken
<1> QED
  BY ONLY <1>1, <1>2, <1>4, <1>5 DEF ByteHolders, ByteLabels, TakenLabels

LEMMA BytesStep ==
  ASSUME Inv, Cancelling, BytesHeld, [Next]_vars
  PROVE  BytesHeld'
<1> USE DEF Inv, Shape
<1>1. ASSUME NEW r \in Requests, Reserve(r) PROVE BytesHeld'
  <2>1. pc[r] = "reserve" /\ entry[r] = "none" /\ UNCHANGED <<entry, cb, next>>
    BY <1>1 DEF Reserve, Goto, Knows, FreshLabels, beyondBudgets, beyondControl, request
  <2>2. CASE Fits(queueBytes, Size[r], MaxQueueBytes)
    <3>1. pc' = [pc EXCEPT ![r] = "countUp"] /\ queueBytes' = Charged(queueBytes, Size[r])
      BY <1>1, <2>2 DEF Reserve, Goto
    <3>2. TakenAt({"dec", "free"})' = TakenAt({"dec", "free"})
      BY <2>1, <3>1, SameTaken
    <3>3. r \notin ByteHolders /\ ByteHolders' = ByteHolders \cup {r}
      BY <2>1, <3>1, <3>2 DEF ByteHolders
    <3> QED
      BY <2>2, <3>1, <3>3, BytesTaken
  <2>3. CASE ~Fits(queueBytes, Size[r], MaxQueueBytes)
    <3>1. pc' = [pc EXCEPT ![r] = "refuse"] /\ queueBytes' = queueBytes
      BY <1>1, <2>3 DEF Reserve, Goto, beyondControl, budgets
    <3>2. TakenAt({"dec", "free"})' = TakenAt({"dec", "free"})
      BY <2>1, <3>1, SameTaken
    <3>3. \A q \in Requests : q \in ByteHolders' <=> q \in ByteHolders
      BY <2>1, <3>1, <3>2 DEF ByteHolders
    <3> QED
      BY <3>1, <3>3, SameBytes
  <2> QED
    BY <2>2, <2>3
<1>2. ASSUME NEW r \in Requests, Unreserve(r) PROVE BytesHeld'
  <2>1. /\ pc[r] = "unreserve" /\ entry[r] = "none" /\ UNCHANGED <<entry, cb, next>>
        /\ pc' = [pc EXCEPT ![r] = "refuse"] /\ queueBytes' = Refunded(queueBytes, Size[r])
    BY <1>2 DEF Unreserve, Goto, Knows, FreshLabels, beyondBudgets, request
  <2>2. TakenAt({"dec", "free"})' = TakenAt({"dec", "free"})
    BY <2>1, SameTaken
  <2>3. r \in ByteHolders /\ ByteHolders' = ByteHolders \ {r}
    BY <2>1, <2>2 DEF ByteHolders
  <2> QED
    BY <2>1, <2>3, BytesReturned
<1>3. ASSUME NEW r \in Requests, FreeBytes(r) PROVE BytesHeld'
  <2>1. /\ pc[r] = "free" /\ pc' = [pc EXCEPT ![r] = "store"] /\ UNCHANGED <<entry, cb, next>>
        /\ queueBytes' = Refunded(queueBytes, Size[next[r]])
    BY <1>3 DEF FreeBytes, Goto, request
  <2>2. /\ next[r] \in Requests /\ entry[next[r]] = "claimed" /\ pc[next[r]] \notin FreshLabels
        /\ \A d \in Requests : pc[d] \in {"dec", "free"} => d = r
    BY <2>1, TakenIsClaimed DEF LockLabels, TakenLabels
  <2>3. TakenAt({"dec", "free"}) = {next[r]} /\ TakenAt({"dec", "free"})' = {}
    BY <2>1, <2>2 DEF TakenAt
  <2>4. next[r] \in ByteHolders /\ ByteHolders' = ByteHolders \ {next[r]}
    BY <2>1, <2>2, <2>3 DEF ByteHolders, FreshLabels
  <2> QED
    BY <2>1, <2>4, BytesReturned
<1>4. ASSUME NEW r \in Requests, CancelFree(r) PROVE BytesHeld'
  <2>1. /\ cb[r] = "free" /\ cb' = [cb EXCEPT ![r] = "answer"] /\ entry[r] = "cancelled"
        /\ queueBytes' = Refunded(queueBytes, Size[r]) /\ UNCHANGED <<entry, pc, next>>
    BY <1>4 DEF CancelFree, Callback, Cancelling, request
  <2>2. TakenAt({"dec", "free"})' = TakenAt({"dec", "free"}) /\ pc[r] \notin FreshLabels
    BY <2>1 DEF TakenAt, Knows
  <2>3. r \in ByteHolders /\ ByteHolders' = ByteHolders \ {r}
    BY <2>1, <2>2 DEF ByteHolders, FreshLabels
  <2> QED
    BY <2>1, <2>3, BytesReturned
<1>5. ASSUME NEW r \in Requests, Offer(r) PROVE BytesHeld'
  <2>1. /\ pc[r] = "offer" /\ entry[r] = "none" /\ entry' = [entry EXCEPT ![r] = "active"]
        /\ UNCHANGED <<cb, next, queueBytes>> /\ pc' = [pc EXCEPT ![r] = "drain"]
    BY <1>5 DEF Offer, Goto, Knows, FreshLabels, budgets
  <2>2. TakenAt({"dec", "free"})' = TakenAt({"dec", "free"})
    BY <2>1, SameTaken
  <2>3. \A q \in Requests : q \in ByteHolders' <=> q \in ByteHolders
    BY <2>1, <2>2 DEF ByteHolders
  <2> QED
    BY <2>1, <2>3, SameBytes
<1>6. ASSUME NEW r \in Requests, Take(r) PROVE BytesHeld'
  <2>1. /\ pc[r] = "take" /\ next[r] \in Requests /\ entry[next[r]] \in {"active", "cancelled"}
        /\ UNCHANGED <<cb, next, queueBytes>>
    BY <1>6 DEF Take, Goto, Knows, HeadLabels, UseLabels, budgets
  <2>2. CASE entry[next[r]] = "active"
    <3>1. /\ pc' = [pc EXCEPT ![r] = "dec"] /\ entry' = [entry EXCEPT ![next[r]] = "claimed"]
      BY <1>6, <2>2 DEF Take, Goto
    <3>2. TakenAt({"dec", "free"})' = TakenAt({"dec", "free"}) \cup {next[r]}
      BY <2>1, <3>1 DEF TakenAt
    <3>3. \A q \in Requests : q \in ByteHolders' <=> q \in ByteHolders
      BY <2>1, <2>2, <3>1, <3>2 DEF ByteHolders
    <3> QED
      BY <2>1, <3>3, SameBytes
  <2>3. CASE entry[next[r]] # "active"
    <3>1. pc' = [pc EXCEPT ![r] = "backPermit"] /\ UNCHANGED entry
      BY <1>6, <2>3 DEF Take, Goto
    <3>2. TakenAt({"dec", "free"})' = TakenAt({"dec", "free"})
      BY <2>1, <3>1, SameTaken
    <3>3. \A q \in Requests : q \in ByteHolders' <=> q \in ByteHolders
      BY <2>1, <3>1, <3>2 DEF ByteHolders
    <3> QED
      BY <2>1, <3>3, SameBytes
  <2> QED
    BY <2>2, <2>3
<1>7. ASSUME NEW r \in Requests, CancelClaim(r) PROVE BytesHeld'
  <2>1. UNCHANGED <<queueBytes, pc, next>> /\ TakenAt({"dec", "free"})' = TakenAt({"dec", "free"})
    BY <1>7 DEF CancelClaim, budgets, TakenAt
  <2>2. \A q \in Requests : q \in ByteHolders' <=> q \in ByteHolders
    BY <1>7, <2>1 DEF CancelClaim, Callback, ByteHolders, request
  <2> QED
    BY <2>1, <2>2, SameBytes
<1>8. ASSUME NEW r \in Requests, CancelRemove(r) PROVE BytesHeld'
  <2>1. UNCHANGED <<queueBytes, pc, next>> /\ TakenAt({"dec", "free"})' = TakenAt({"dec", "free"})
    BY <1>8 DEF CancelRemove, budgets, TakenAt
  <2>2. entry[r] = "cancelled" /\ cb[r] = "remove"
    BY <1>8 DEF CancelRemove, Callback, Cancelling
  <2>3. \/ UNCHANGED entry /\ cb' = [cb EXCEPT ![r] = "dec"]
        \/ entry' = [entry EXCEPT ![r] = "leaked"] /\ cb' = [cb EXCEPT ![r] = "answer"]
    BY <1>8 DEF CancelRemove, Callback
  <2>4. \A q \in Requests : q \in ByteHolders' <=> q \in ByteHolders
    BY <2>1, <2>2, <2>3 DEF ByteHolders
  <2> QED
    BY <2>1, <2>4, SameBytes
<1>9. CASE \A r \in Requests : /\ ~Reserve(r) /\ ~Unreserve(r) /\ ~FreeBytes(r) /\ ~CancelFree(r)
                               /\ ~Offer(r) /\ ~Take(r) /\ ~CancelClaim(r) /\ ~CancelRemove(r)
  BY <1>9, QuietForBytes, SameBytes
<1> QED
  BY <1>1, <1>2, <1>3, <1>4, <1>5, <1>6, <1>7, <1>8, <1>9

-----------------------------------------------------------------------------
(* The bytes in flight, whoever executes the upload.                       *)
FlightLabels ==
  {"take", "backPermit", "backBytes", "dec", "free", "store", "succeed", "fail", "freeInFlight"}
Load == [r \in Requests |-> Size[next[r]]]
FlightHeld == inFlightBytes = SumOf(Load, InFlight) /\ inFlightBytes <= MaxInFlightBytes

LEMMA FlightSet ==
  ASSUME Inv
  PROVE  /\ InFlight \subseteq Requests /\ IsFiniteSet(InFlight) /\ MaxInFlightBytes \in Nat
         /\ \A r \in InFlight : next[r] \in Requests /\ Load[r] = Size[next[r]] /\ Load[r] \in Nat
         /\ SumOf(Load, InFlight) \in Nat
<1>1. InFlight \subseteq Requests /\ IsFiniteSet(InFlight) /\ MaxInFlightBytes \in Nat
  <2>1. InFlight \subseteq Requests
    BY DEF InFlight
  <2> QED
    BY <2>1, UploadAssumption, FS_Subset
<1>2. \A r \in InFlight : next[r] \in Requests
  BY <1>1 DEF Inv, Shape, Knows, InFlight, UseLabels, HeadLabels, BackLabels, TakenLabels, ExecuteLabels
<1>3. \A r \in InFlight : Load[r] = Size[next[r]] /\ Load[r] \in Nat
  BY <1>1, <1>2, UploadAssumption DEF Load
<1> QED
  BY <1>1, <1>2, <1>3, SumType

(* The sum of BytesConserved, which names no function, is that of Load.    *)
LEMMA FlightIsASum ==
  ASSUME Inv
  PROVE  MapThenSumSet(LAMBDA r : Size[next[r]], InFlight) = SumOf(Load, InFlight)
<1> DEFINE Solves(h) ==
      h = [s \in SUBSET InFlight |->
             IF s = {} THEN 0 ELSE Size[next[Chosen(s)]] + h[s \ {Chosen(s)}]]
<1>1. /\ IsFiniteSet(InFlight)
      /\ \A r \in InFlight : Load[r] = Size[next[r]] /\ Load[r] \in Nat
  BY FlightSet
<1>2. PICK g \in [SUBSET InFlight -> Nat] : SolvesSum(Load, g, SUBSET InFlight)
  BY <1>1, SumsExist
<1>3. \A s \in SUBSET InFlight : s # {} => Chosen(s) \in InFlight
  BY DEF Chosen
<1>4. \A h : Solves(h) => SolvesSum(Load, h, SUBSET InFlight)
  BY <1>1, <1>3 DEF SolvesSum
<1>5. Solves(g)
  BY <1>1, <1>2, <1>3 DEF SolvesSum
<1>6. \A h : Solves(h) => h = g
  BY <1>1, <1>2, <1>4, SumIsUnique
<1>7. MapThenSumSet(LAMBDA r : Size[next[r]], InFlight) = g[InFlight]
  BY <1>5, <1>6 DEF MapThenSumSet, MapThenFoldSet, Chosen
<1> QED
  BY <1>1, <1>2, <1>7, SumIsSolution

LEMMA FlightTaken ==
  ASSUME Inv, FlightHeld, NEW r \in Requests, r \notin InFlight, NEW upload \in Requests,
         Inv', InFlight' = InFlight \cup {r}, next'[r] = upload,
         \A q \in InFlight : next'[q] = next[q],
         Fits(inFlightBytes, Size[upload], MaxInFlightBytes),
         inFlightBytes' = Charged(inFlightBytes, Size[upload])
  PROVE  FlightHeld'
<1>1. \A q \in InFlight : Load[q] \in Nat /\ Load'[q] = Load[q]
  BY FlightSet DEF Load
<1>2. Load'[r] = Size[upload] /\ Size[upload] \in Nat
  BY UploadAssumption DEF Load
<1>3. SumOf(Load', InFlight \cup {r}) = SumOf(Load', InFlight) + Load'[r]
  BY <1>1, <1>2, FlightSet, SumAdd
<1>4. SumOf(Load', InFlight) = SumOf(Load, InFlight)
  BY <1>1, FlightSet, SumSame
<1>5. SumOf(Load, InFlight)' = SumOf(Load', InFlight \cup {r})
  OBVIOUS
<1>6. inFlightBytes \in Nat /\ MaxInFlightBytes \in Nat
  BY FlightSet DEF FlightHeld
<1> QED
  BY <1>2, <1>3, <1>4, <1>5, <1>6 DEF FlightHeld, Fits, Charged

LEMMA FlightReturned ==
  ASSUME Inv, FlightHeld, NEW r \in InFlight, InFlight' = InFlight \ {r},
         \A q \in InFlight \ {r} : next'[q] = next[q],
         inFlightBytes' = Refunded(inFlightBytes, Size[next[r]])
  PROVE  FlightHeld'
<1>1. \A q \in InFlight : Load[q] \in Nat
  BY FlightSet
<1>2. \A q \in InFlight \ {r} : Load[q] \in Nat /\ Load'[q] = Load[q]
  BY FlightSet DEF Load
<1>3. IsFiniteSet(InFlight \ {r})
  BY FlightSet, FS_Subset
<1>4. SumOf(Load, InFlight) = Load[r] + SumOf(Load, InFlight \ {r})
  BY <1>1, FlightSet, SumRemove
<1>5. SumOf(Load', InFlight \ {r}) = SumOf(Load, InFlight \ {r})
  BY <1>2, <1>3, SumSame
<1>6. SumOf(Load, InFlight)' = SumOf(Load', InFlight \ {r})
  OBVIOUS
<1>7. SumOf(Load, InFlight \ {r}) \in Nat
  BY <1>2, <1>3, SumType
<1>8. Load[r] = Size[next[r]] /\ Load[r] \in Nat /\ MaxInFlightBytes \in Nat
  BY FlightSet
<1> QED
  BY <1>4, <1>5, <1>6, <1>7, <1>8 DEF FlightHeld, Refunded

LEMMA SameFlight ==
  ASSUME Inv, FlightHeld, \A q \in Requests : q \in InFlight' <=> q \in InFlight,
         \A q \in InFlight : next'[q] = next[q], inFlightBytes' = inFlightBytes
  PROVE  FlightHeld'
<1>1. \A q \in InFlight : Load[q] \in Nat /\ Load'[q] = Load[q]
  BY FlightSet DEF Load
<1>2. InFlight' = InFlight
  BY DEF InFlight
<1>3. SumOf(Load', InFlight) = SumOf(Load, InFlight)
  BY <1>1, FlightSet, SumSame
<1>4. SumOf(Load, InFlight)' = SumOf(Load', InFlight)
  BY <1>2
<1> QED
  BY <1>3, <1>4 DEF FlightHeld

LEMMA QuietForFlight ==
  ASSUME Inv, [Next]_vars,
         \A r \in Requests : ~TryBytes(r) /\ ~PollBytes(r) /\ ~BackBytes(r) /\ ~FreeInFlight(r)
  PROVE  /\ inFlightBytes' = inFlightBytes
         /\ \A q \in Requests : q \in InFlight' <=> q \in InFlight
         /\ \A q \in InFlight : next'[q] = next[q]
<1> USE DEF Inv, Shape, Next, HandlerStep, CallbackStep, vars, beyondBudgets, beyondLine,
         beyondRequest, beyondControl, Reject, Admit, CheckCount, TryPermit, Reserve, Unreserve,
         CountUp, CountDown, Refuse, Offer, DrainEnter, Lock, Look, PollPermit, Undo, Take,
         BackPermit, DecCount, FreeBytes, Store, Succeed, Fail, FreePermit,
         NestedDrain, Exit, RecheckCount, RecheckPermits, StackOverflow, Return, ContainerEvent,
         CancelClaim, CancelRemove, CancelDec, CancelFree, CallbackAnswer
<1>1. inFlightBytes' = inFlightBytes
  BY DEF budgets
<1>2. \A d \in Requests : /\ pc'[d] \in FlightLabels <=> pc[d] \in FlightLabels
                          /\ pc[d] \in FlightLabels => next'[d] = next[d]
  BY DEF Goto, FlightLabels
<1> QED
  BY ONLY <1>1, <1>2 DEF InFlight, FlightLabels

LEMMA FlightStep ==
  ASSUME Inv, FlightHeld, [Next]_vars, Inv'
  PROVE  FlightHeld'
<1> USE DEF Inv, Shape
<1>1. ASSUME NEW r \in Requests, TryBytes(r) PROVE FlightHeld'
  <2>1. CASE Fits(inFlightBytes, Size[r], MaxInFlightBytes)
    <3>1. /\ pc[r] = "tryBytes" /\ pc' = [pc EXCEPT ![r] = "store"] /\ next' = [next EXCEPT ![r] = r]
          /\ inFlightBytes' = Charged(inFlightBytes, Size[r])
      BY <1>1, <2>1 DEF TryBytes, Goto
    <3>2. r \notin InFlight /\ InFlight' = InFlight \cup {r} /\ \A q \in InFlight : next'[q] = next[q]
      BY <3>1 DEF InFlight
    <3>3. next'[r] = r
      BY <3>1
    <3> HIDE DEF Inv, Shape
    <3> QED
      BY <2>1, <3>1, <3>2, <3>3, FlightTaken
  <2>2. CASE ~Fits(inFlightBytes, Size[r], MaxInFlightBytes)
    <3>1. /\ pc[r] = "tryBytes" /\ pc' = [pc EXCEPT ![r] = "reserve"] /\ UNCHANGED <<next, inFlightBytes>>
      BY <1>1, <2>2 DEF TryBytes, Goto, budgets
    <3>2. \A q \in Requests : q \in InFlight' <=> q \in InFlight
      BY <3>1 DEF InFlight
    <3> QED
      BY <3>1, <3>2, SameFlight
  <2> QED
    BY <2>1, <2>2
<1>2. ASSUME NEW r \in Requests, PollBytes(r) PROVE FlightHeld'
  <2>0. PICK upload \in Requests : upload = next[r]
    BY <1>2 DEF PollBytes, Goto, Knows, UseLabels, HeadLabels
  <2>1. CASE Fits(inFlightBytes, Size[upload], MaxInFlightBytes)
    <3>1. /\ pc[r] = "pollBytes" /\ pc' = [pc EXCEPT ![r] = "take"] /\ UNCHANGED next
          /\ inFlightBytes' = Charged(inFlightBytes, Size[upload])
      BY <1>2, <2>0, <2>1 DEF PollBytes, Goto, beyondBudgets
    <3>2. r \notin InFlight /\ InFlight' = InFlight \cup {r} /\ \A q \in InFlight : next'[q] = next[q]
      BY <3>1 DEF InFlight
    <3>3. next'[r] = upload
      BY <2>0, <3>1
    <3> HIDE DEF Inv, Shape
    <3> QED
      BY <2>1, <3>1, <3>2, <3>3, FlightTaken
  <2>2. CASE ~Fits(inFlightBytes, Size[upload], MaxInFlightBytes)
    <3>1. /\ pc[r] = "pollBytes" /\ pc' = [pc EXCEPT ![r] = "undo"] /\ UNCHANGED <<next, inFlightBytes>>
      BY <1>2, <2>0, <2>2 DEF PollBytes, Goto, beyondControl, budgets
    <3>2. \A q \in Requests : q \in InFlight' <=> q \in InFlight
      BY <3>1 DEF InFlight
    <3> QED
      BY <3>1, <3>2, SameFlight
  <2> QED
    BY <2>1, <2>2
<1>3. ASSUME NEW r \in Requests, BackBytes(r) \/ FreeInFlight(r) PROVE FlightHeld'
  <2>1. /\ pc[r] \in {"backBytes", "freeInFlight"}
        /\ \E to \in {"look", "freePermit"} : pc' = [pc EXCEPT ![r] = to]
        /\ \A q \in Requests : q # r => next'[q] = next[q]
        /\ inFlightBytes' = Refunded(inFlightBytes, Size[next[r]])
    BY <1>3 DEF BackBytes, FreeInFlight, Goto, beyondBudgets
  <2>2. r \in InFlight /\ InFlight' = InFlight \ {r} /\ \A q \in InFlight \ {r} : next'[q] = next[q]
    BY <2>1 DEF InFlight
  <2> HIDE DEF Inv, Shape
  <2> QED
    BY <2>1, <2>2, FlightReturned
<1>4. CASE \A r \in Requests : ~TryBytes(r) /\ ~PollBytes(r) /\ ~BackBytes(r) /\ ~FreeInFlight(r)
  BY <1>4, QuietForFlight, SameFlight
<1> QED
  BY <1>1, <1>2, <1>3, <1>4

-----------------------------------------------------------------------------
(* No lost wake-up.                                                        *)

(* A thread in the region that drainInProgress guards: in the loop, or     *)
(* executing an upload that it took from the queue.                        *)
RegionLabels == LockLabels \cup {"lock", "nested", "exit"}
Draining(d) == pc[d] \in RegionLabels \/ (pc[d] \in ExecuteLabels /\ entry[next[d]] # "none")
FlagHeld == drainInProgress => \E d \in Requests : Draining(d)

(* A thread that drains, or is on its way to look again: every execution   *)
(* ends with a drain.  What overflowed its stack has not returned.         *)
AttendLabels ==
  RegionLabels \cup ExecuteLabels \cup {"drain", "recheckCount", "recheckPermits", "overflowed"}

(* As long as somebody waits beside a free permit, somebody attends to the *)
(* queue.                                                                  *)
Attended == Waiting # {} /\ permits > 0 => \E d \in Requests : pc[d] \in AttendLabels

LEMMA FlagStep ==
  ASSUME Inv, FlagHeld, [Next]_vars
  PROVE  FlagHeld'
<1> USE DEF Inv, Shape
<1>1. ASSUME NEW r \in Requests, DrainEnter(r) PROVE FlagHeld'
  <2>1. CASE drainInProgress
    <3>1. PICK d \in Requests : Draining(d)
      BY <2>1 DEF FlagHeld
    <3>2. pc[r] = "drain" /\ pc' = [pc EXCEPT ![r] = "return"] /\ UNCHANGED <<next, entry>>
      BY <1>1, <2>1 DEF DrainEnter, Goto, beyondLine, request
    <3>3. d # r
      BY <3>1, <3>2 DEF Draining, RegionLabels, LockLabels, HeadLabels, BackLabels, TakenLabels, ExecuteLabels
    <3>4. Draining(d)'
      BY <3>1, <3>2, <3>3 DEF Draining
    <3> QED
      BY <3>4 DEF FlagHeld
  <2>2. CASE ~drainInProgress
    <3>1. pc'[r] = "lock"
      BY <1>1, <2>2 DEF DrainEnter, Goto
    <3> QED
      BY <3>1 DEF FlagHeld, Draining, RegionLabels
  <2> QED
    BY <2>1, <2>2
<1>2. ASSUME NEW r \in Requests, Exit(r) PROVE FlagHeld'
  BY <1>2 DEF Exit, FlagHeld
<1>3. CASE \A r \in Requests : ~DrainEnter(r) /\ ~Exit(r)
  <2> USE <1>3 DEF Next, HandlerStep, CallbackStep, vars, beyondBudgets, beyondLine,
         beyondRequest, beyondControl, Reject, Admit, CheckCount, TryPermit, TryBytes, Reserve,
         CountUp, CountDown, Unreserve, Refuse, Offer, Lock, Look, PollPermit, PollBytes, Undo, Take,
         BackPermit, BackBytes, DecCount, FreeBytes, Store, Succeed, Fail, FreeInFlight, FreePermit,
         NestedDrain, RecheckCount, RecheckPermits, StackOverflow, Return, ContainerEvent,
         CancelClaim, CancelRemove, CancelDec, CancelFree, CallbackAnswer
  <2>1. UNCHANGED drainInProgress
    BY DEF line
  <2>2. \A d \in Requests : pc[d] \in RegionLabels =>
          \/ pc'[d] \in RegionLabels
          \/ pc[d] = "free" /\ pc'[d] = "store" /\ next'[d] = next[d]
    BY DEF Goto, RegionLabels, LockLabels, HeadLabels, BackLabels, TakenLabels
  <2>3. \A d \in Requests : pc[d] \in ExecuteLabels /\ entry[next[d]] # "none" =>
          pc'[d] = "nested" \/ (pc'[d] \in ExecuteLabels /\ next'[d] = next[d])
    BY DEF Goto, ExecuteLabels
  <2>4. \A q \in Requests : entry[q] # "none" => entry'[q] # "none"
    BY DEF request
  <2>5. \A d \in Requests : pc[d] \in ExecuteLabels => next[d] \in Requests
    BY DEF Knows, UseLabels
  <2>6. \A d \in Requests : pc[d] = "free" => next[d] \in Requests /\ entry[next[d]] = "claimed"
    BY TakenIsClaimed
  <2>7. \A d \in Requests : Draining(d) => Draining(d)'
    BY ONLY <2>2, <2>3, <2>4, <2>5, <2>6 DEF Draining, RegionLabels, ExecuteLabels
  <2> QED
    BY <2>1, <2>7 DEF FlagHeld
<1> QED
  BY <1>1, <1>2, <1>3

(* Only these steps make somebody wait, free a permit, or turn a thread    *)
(* away from the queue.                                                    *)
LEMMA QuietForWaiting ==
  ASSUME Inv, [Next]_vars,
         \A r \in Requests : /\ ~Offer(r) /\ ~DrainEnter(r) /\ ~Undo(r) /\ ~BackPermit(r)
                             /\ ~FreePermit(r) /\ ~RecheckCount(r) /\ ~RecheckPermits(r)
  PROVE  /\ Waiting' \subseteq Waiting /\ permits' <= permits
         /\ \A d \in Requests : pc[d] \in AttendLabels => pc'[d] \in AttendLabels
<1> USE DEF Inv, Shape, Next, HandlerStep, CallbackStep, vars, beyondBudgets, beyondLine,
         beyondRequest, beyondControl, Reject, Admit, CheckCount, TryPermit, TryBytes, Reserve,
         CountUp, CountDown, Unreserve, Refuse, Lock, Look, PollPermit, PollBytes, Take,
         BackBytes, DecCount, FreeBytes, Store, Succeed, Fail, FreeInFlight,
         NestedDrain, Exit, StackOverflow, Return, ContainerEvent,
         CancelClaim, CancelRemove, CancelDec, CancelFree, CallbackAnswer
<1>1. Waiting' \subseteq Waiting
  BY DEF Waiting, request
<1>2. permits' <= permits
  BY DEF budgets
<1>3. \A d \in Requests : pc[d] \in AttendLabels => pc'[d] \in AttendLabels
  BY DEF Goto, AttendLabels, RegionLabels, LockLabels, HeadLabels, BackLabels, TakenLabels,
         ExecuteLabels
<1> QED
  BY <1>1, <1>2, <1>3

LEMMA AttendedStep ==
  ASSUME Inv, SlotsHeld, FlagHeld, Attended, [Next]_vars, Inv'
  PROVE  Attended'
<1> USE DEF Inv, Shape
<1>1. ASSUME NEW r \in Requests, pc'[r] \in AttendLabels
      PROVE  Attended'
  BY <1>1 DEF Attended
<1>2. ASSUME NEW r \in Requests, DrainEnter(r) PROVE Attended'
  <2>1. CASE drainInProgress
    <3>1. PICK d \in Requests : Draining(d)
      BY <2>1 DEF FlagHeld
    <3>2. pc[r] = "drain" /\ pc' = [pc EXCEPT ![r] = "return"]
      BY <1>2, <2>1 DEF DrainEnter, Goto
    <3>3. d # r
      BY <3>1, <3>2 DEF Draining, RegionLabels, LockLabels, HeadLabels, BackLabels, TakenLabels, ExecuteLabels
    <3>4. pc'[d] \in AttendLabels
      BY <3>1, <3>2, <3>3 DEF Draining, AttendLabels
    <3> QED
      BY <1>1, <3>4
  <2>2. CASE ~drainInProgress
    <3>1. pc'[r] = "lock"
      BY <1>2, <2>2 DEF DrainEnter, Goto
    <3> QED
      BY <1>1, <3>1 DEF AttendLabels, RegionLabels
  <2> QED
    BY <2>1, <2>2
<1>3. ASSUME NEW r \in Requests, Offer(r) \/ Undo(r) \/ BackPermit(r) \/ FreePermit(r)
      PROVE  Attended'
  <2>1. pc'[r] \in {"drain", "exit", "backBytes", "nested"}
    BY <1>3 DEF Offer, Undo, BackPermit, FreePermit, Goto
  <2> QED
    BY <1>1, <2>1 DEF AttendLabels, RegionLabels, LockLabels, BackLabels
(* An upload that waits is counted.                                        *)
<1>4. ASSUME NEW r \in Requests, RecheckCount(r) PROVE Attended'
  <2>1. CASE queuedCount > 0
    <3>1. pc'[r] = "recheckPermits"
      BY <1>4, <2>1 DEF RecheckCount, Goto
    <3> QED
      BY <1>1, <3>1 DEF AttendLabels
  <2>2. CASE ~(queuedCount > 0)
    <3>1. Cardinality(SlotHolders) = 0
      BY <2>2, SlotSet DEF SlotsHeld
    <3>2. SlotHolders = {}
      BY <3>1, SlotSet, FS_EmptySet
    <3>3. Waiting = {}
      BY <3>2 DEF Waiting, SlotHolders
    <3>4. Waiting' = {}
      BY <1>4, <3>3 DEF RecheckCount, Waiting, beyondControl, request
    <3> QED
      BY <3>4 DEF Attended
  <2> QED
    BY <2>1, <2>2
<1>5. ASSUME NEW r \in Requests, RecheckPermits(r) PROVE Attended'
  <2>1. CASE permits = 0
    BY <1>5, <2>1 DEF RecheckPermits, Attended, beyondControl, budgets
  <2>2. CASE permits # 0
    <3>1. pc'[r] = "drain"
      BY <1>5, <2>2 DEF RecheckPermits, Goto
    <3> QED
      BY <1>1, <3>1 DEF AttendLabels
  <2> QED
    BY <2>1, <2>2
<1>6. CASE \A r \in Requests : /\ ~Offer(r) /\ ~DrainEnter(r) /\ ~Undo(r) /\ ~BackPermit(r)
                               /\ ~FreePermit(r) /\ ~RecheckCount(r) /\ ~RecheckPermits(r)
  <2>1. /\ Waiting' \subseteq Waiting /\ permits' <= permits
        /\ \A d \in Requests : pc[d] \in AttendLabels => pc'[d] \in AttendLabels
    BY <1>6, QuietForWaiting
  <2>2. permits \in Nat /\ permits' \in Nat
    OBVIOUS
  <2> QED
    BY ONLY <2>1, <2>2, Attended DEF Attended
<1> QED
  BY <1>2, <1>3, <1>4, <1>5, <1>6

-----------------------------------------------------------------------------
(* What holds at the start.                                                *)
LEMMA HeldInit ==
  Init => /\ Cancelling /\ SlotsHeld /\ LimitKept /\ BytesHeld /\ FlightHeld
          /\ FlagHeld /\ Attended
<1> SUFFICES ASSUME Init
             PROVE  /\ Cancelling /\ SlotsHeld /\ LimitKept /\ BytesHeld /\ FlightHeld
                    /\ FlagHeld /\ Attended
  OBVIOUS
<1>1. Cancelling /\ FlagHeld /\ Attended
  BY DEF Init, Cancelling, FlagHeld, Attended, Waiting
<1>2. SlotHolders = {} /\ Admitted = {} /\ ByteHolders = {} /\ InFlight = {}
  BY DEF Init, SlotHolders, Admitted, ByteHolders, InFlight, TakenAt
<1>3. SlotsHeld /\ LimitKept
  BY <1>2, FS_EmptySet, UploadAssumption DEF Init, SlotsHeld, LimitKept
<1>4. BytesHeld
  BY <1>2, SumEmpty, UploadAssumption DEF Init, BytesHeld
<1>5. FlightHeld
  BY <1>2, SumEmpty, UploadAssumption DEF Init, FlightHeld
<1> QED
  BY <1>1, <1>3, <1>4, <1>5

LEMMA HeldAlways ==
  Spec => [](/\ Inv /\ Cancelling /\ SlotsHeld /\ LimitKept /\ BytesHeld /\ FlightHeld
             /\ FlagHeld /\ Attended)
<1>1. Inv /\ Cancelling /\ SlotsHeld /\ LimitKept /\ BytesHeld /\ FlightHeld /\ FlagHeld /\ Attended
      /\ Inv' /\ [Next]_vars
      => /\ Cancelling' /\ SlotsHeld' /\ LimitKept' /\ BytesHeld' /\ FlightHeld'
         /\ FlagHeld' /\ Attended'
  BY CancellingStep, SlotsStep, LimitStep, BytesStep, FlightStep, FlagStep, AttendedStep
<1> QED
  BY <1>1, HeldInit, InvAlways, PTL DEF Spec

(* A queued upload has one place and its bytes, whether a handler rolls    *)
(* back, a poll takes it or a callback cancels it (405-429, 444-457,       *)
(* 483-513); its bytes in flight are returned by whoever stored it; and    *)
(* neither limit is ever exceeded.                                         *)
THEOREM ReservationsAreConserved == Spec => []ReservationsConserved
<1>1. Inv /\ Cancelling /\ SlotsHeld /\ LimitKept => SlotsConserved
  BY QueueFits DEF SlotsHeld, SlotsConserved
<1>2. Inv /\ BytesHeld /\ FlightHeld => BytesConserved
  <2> SUFFICES ASSUME Inv, BytesHeld, FlightHeld PROVE BytesConserved
    OBVIOUS
  <2>1. MapThenSumSet(LAMBDA r : Size[r], ByteHolders) = SumOf(Size, ByteHolders)
    BY DEF SumOf
  <2>2. MapThenSumSet(LAMBDA r : Size[next[r]], InFlight) = SumOf(Load, InFlight)
    BY FlightIsASum
  <2> QED
    BY <2>1, <2>2 DEF BytesHeld, FlightHeld, BytesConserved
<1> QED
  BY <1>1, <1>2, HeldAlways, PTL DEF ReservationsConserved

(* Every execution ends with a drain, a drain that gives up looks again    *)
(* after it has cleared the flag (475-480), and whoever found the flag set *)
(* relies on it.                                                           *)
THEOREM NoWakeupIsLost == Spec => []NoLostWakeup
<1>1. Inv /\ Attended => NoLostWakeup
  BY DEF Inv, Shape, Attended, AttendLabels, RegionLabels, LockLabels, HeadLabels, BackLabels,
         TakenLabels, ExecuteLabels, NoLostWakeup, HandlersDone
<1> QED
  BY <1>1, HeldAlways, PTL
=============================================================================
