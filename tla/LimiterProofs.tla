---------------------------- MODULE LimiterProofs ---------------------------
(***************************************************************************)
(* Proofs about the two limiters of FileController.kt: the theorems of     *)
(* one, those of the other, and that downloadFile, which passes both, uses *)
(* each of them as its theorems assume.                                    *)
(*   InFlightByteLimiter: for any set of threads, any maxBytes and any set *)
(*   of reservation sizes.                                                 *)
(*   FixedWindowRateLimiter: for any calls, clients, limit and window, and *)
(*   for clocks that are read at any distance from their use.              *)
(***************************************************************************)
EXTENDS DownloadAdmission, FiniteSetTheorems, TLAPS

-----------------------------------------------------------------------------
(*                           InFlightByteLimiter                           *)

(* What makes the test of line 618 still hold at the compare-and-set of    *)
(* line 621: the value that was read leaves room for the reservation.      *)
ReadFits ==
  \A t \in Threads :
    pc[t] = "acquireCas" => bytes[t] > 0 /\ Fits(current[t], bytes[t], MaxBytes)

(* A thread in the loop of release passed the bytes <= 0 test.             *)
ReleaseNonzero == \A t \in Threads : pc[t] = "releaseCas" => bytes[t] > 0

ByteInv == TypeOK /\ WithinBudget /\ ReadFits /\ ReleaseNonzero

(* A reservation is a number of bytes: sizes are clamped at zero before    *)
(* they reach the limiter.                                                 *)
LEMMA ReservationIsNat == ASSUME TypeOK, NEW t \in Threads PROVE bytes[t] \in Nat
<1>1. bytes[t] \in Sizes \cup {0}
  BY DEF TypeOK
<1>2. Sizes \cup {0} \subseteq Nat
  BY LimiterAssumption
<1> QED
  BY <1>1, <1>2

(* The invariant holds initially.                                          *)
LEMMA ByteInvInit == Init => ByteInv
  BY LimiterAssumption DEF Init, ByteInv, TypeOK, WithinBudget, ReadFits, ReleaseNonzero, Labels

(* Every step of a thread, whether a call or a step of a loop, preserves   *)
(* the invariant.                                                          *)
LEMMA ByteInvStep == ByteInv /\ [Next]_vars => ByteInv'
<1> SUFFICES ASSUME ByteInv, [Next]_vars PROVE ByteInv'
  OBVIOUS
<1> USE LimiterAssumption DEF ByteInv, TypeOK, Labels, WithinBudget, ReadFits, ReleaseNonzero
<1>1. ASSUME NEW t \in Threads, NEW b \in Sizes, CallTryAcquire(t, b) PROVE ByteInv'
  BY <1>1 DEF CallTryAcquire, Move
<1>2. ASSUME NEW t \in Threads, CallRelease(t) PROVE ByteInv'
  BY <1>2 DEF CallRelease, Move
<1>3. ASSUME NEW t \in Threads, AcquireNothing(t) PROVE ByteInv'
  BY <1>3 DEF AcquireNothing, Move
<1>4. ASSUME NEW t \in Threads, AcquireRead(t) PROVE ByteInv'
  BY <1>4 DEF AcquireRead, Move
<1>5. ASSUME NEW t \in Threads, AcquireRefused(t) PROVE ByteInv'
  BY <1>5 DEF AcquireRefused, Move
<1>6. ASSUME NEW t \in Threads, AcquireCas(t) PROVE ByteInv'
  <2>1. bytes[t] \in Nat /\ current[t] \in Nat /\ MaxBytes \in Nat
    BY ReservationIsNat
  <2>2. bytes[t] > 0 /\ current[t] + bytes[t] <= MaxBytes
    BY <1>6, <2>1 DEF AcquireCas, Move, Fits
  <2>3. inFlightBytes' \in Nat /\ inFlightBytes' <= MaxBytes
    BY <1>6, <2>1, <2>2 DEF AcquireCas, Charged
  <2> QED
    BY <1>6, <2>3 DEF AcquireCas, Move
<1>7. ASSUME NEW t \in Threads, AcquireRetry(t) PROVE ByteInv'
  BY <1>7 DEF AcquireRetry, Move
<1>8. ASSUME NEW t \in Threads, ReleaseNothing(t) PROVE ByteInv'
  BY <1>8 DEF ReleaseNothing, Move
<1>9. ASSUME NEW t \in Threads, ReleaseRead(t) PROVE ByteInv'
  BY <1>9 DEF ReleaseRead, Move
<1>10. ASSUME NEW t \in Threads, ReleaseCas(t) PROVE ByteInv'
  <2>1. bytes[t] \in Nat /\ inFlightBytes \in Nat /\ MaxBytes \in Nat
    BY ReservationIsNat
  <2>2. inFlightBytes' \in Nat /\ inFlightBytes' <= MaxBytes
    BY <1>10, <2>1 DEF ReleaseCas, Refunded
  <2> QED
    BY <1>10, <2>2 DEF ReleaseCas, Move
<1>11. ASSUME NEW t \in Threads, ReleaseRetry(t) PROVE ByteInv'
  BY <1>11 DEF ReleaseRetry, Move
<1>12. CASE UNCHANGED vars
  BY <1>12 DEF vars
<1> QED
  BY <1>1, <1>2, <1>3, <1>4, <1>5, <1>6, <1>7, <1>8, <1>9, <1>10, <1>11, <1>12 DEF Next, Run

(* The invariant holds in every reachable state.                           *)
LEMMA ByteInvariance == Spec => []ByteInv
  BY ByteInvInit, ByteInvStep, PTL DEF Spec

(* The counter, the labels and the values read keep their types: in        *)
(* particular the AtomicLong never goes below zero.                        *)
THEOREM ByteTypeCorrect == Spec => []TypeOK
  BY ByteInvariance, PTL DEF ByteInv

(* The bytes reserved never exceed maxBytes, however many threads run the  *)
(* loop of tryAcquire at once (lines 615-624).                             *)
THEOREM BudgetKept == Spec => []WithinBudget
  BY ByteInvariance, PTL DEF ByteInv

-----------------------------------------------------------------------------
(* The initial states of the loops are initial states of the budget.       *)
LEMMA RefinesInit == Init => Atomic!Init
  BY DEF Init, Atomic!Init, AbstractPhase, PhaseOf

(* A step that moves one thread between two labels moves, or leaves, its   *)
(* abstract phase accordingly.                                             *)
LEMMA PhaseStep ==
  ASSUME TypeOK, NEW t \in Threads, NEW from, NEW to, Move(t, from, to)
  PROVE  /\ AbstractPhase[t] = PhaseOf(from)
         /\ AbstractPhase' = [AbstractPhase EXCEPT ![t] = PhaseOf(to)]
  BY DEF TypeOK, Move, AbstractPhase

(* Each step of a loop is a step of the budget or leaves it unchanged: a   *)
(* reservation takes effect at the successful compare-and-set, a refusal   *)
(* at the read, and a lost compare-and-set changes nothing.                *)
LEMMA RefinesStep == ByteInv /\ [Next]_vars => [Atomic!Next]_(Atomic!vars)
<1> SUFFICES ASSUME ByteInv, [Next]_vars PROVE [Atomic!Next]_(Atomic!vars)
  OBVIOUS
<1> USE LimiterAssumption DEF ByteInv, Labels
<1> DEFINE Stutter == UNCHANGED <<inFlightBytes, AbstractPhase, bytes>>
<1>1. ASSUME NEW t \in Threads, NEW b \in Sizes, CallTryAcquire(t, b)
      PROVE  Atomic!Ask(t, b)
  <2>1. Move(t, "idle", "acquireRead")
    BY <1>1 DEF CallTryAcquire
  <2>3. /\ AbstractPhase[t] = PhaseOf("idle")
        /\ AbstractPhase' = [AbstractPhase EXCEPT ![t] = PhaseOf("acquireRead")]
    BY <2>1, PhaseStep
  <2> QED
    BY <1>1, <2>3 DEF PhaseOf, CallTryAcquire, Atomic!Ask, Atomic!Move
<1>2. ASSUME NEW t \in Threads, CallRelease(t) PROVE Atomic!GiveBack(t)
  <2>1. Move(t, "holding", "releaseRead")
    BY <1>2 DEF CallRelease
  <2>3. /\ AbstractPhase[t] = PhaseOf("holding")
        /\ AbstractPhase' = [AbstractPhase EXCEPT ![t] = PhaseOf("releaseRead")]
    BY <2>1, PhaseStep
  <2> QED
    BY <1>2, <2>3 DEF PhaseOf, CallRelease, Atomic!GiveBack, Atomic!Move
<1>3. ASSUME NEW t \in Threads, AcquireNothing(t) PROVE Atomic!Grant(t)
  <2>1. Move(t, "acquireRead", "holding")
    BY <1>3 DEF AcquireNothing
  <2>2. inFlightBytes' = Charged(inFlightBytes, bytes[t])
    BY <1>3 DEF AcquireNothing, Charged, TypeOK
  <2>3. /\ AbstractPhase[t] = PhaseOf("acquireRead")
        /\ AbstractPhase' = [AbstractPhase EXCEPT ![t] = PhaseOf("holding")]
    BY <2>1, PhaseStep
  <2> QED
    BY <1>3, <2>2, <2>3 DEF PhaseOf, AcquireNothing, Atomic!Grant, Atomic!Move, Atomic!Fits, Fits, Atomic!Charged, Charged
<1>4. ASSUME NEW t \in Threads, AcquireRead(t) PROVE Stutter
  <2>1. Move(t, "acquireRead", "acquireCas")
    BY <1>4 DEF AcquireRead
  <2>3. /\ AbstractPhase[t] = PhaseOf("acquireRead")
        /\ AbstractPhase' = [AbstractPhase EXCEPT ![t] = PhaseOf("acquireCas")]
    BY <2>1, PhaseStep
  <2> QED
    BY <1>4, <2>3 DEF PhaseOf, AbstractPhase, AcquireRead
<1>5. ASSUME NEW t \in Threads, AcquireRefused(t) PROVE Atomic!Refuse(t)
  <2>1. Move(t, "acquireRead", "idle")
    BY <1>5 DEF AcquireRefused
  <2>3. /\ AbstractPhase[t] = PhaseOf("acquireRead")
        /\ AbstractPhase' = [AbstractPhase EXCEPT ![t] = PhaseOf("idle")]
    BY <2>1, PhaseStep
  <2> QED
    BY <1>5, <2>3 DEF PhaseOf, AcquireRefused, Atomic!Refuse, Atomic!Move, Atomic!Fits, Fits
<1>6. ASSUME NEW t \in Threads, AcquireCas(t) PROVE Atomic!Grant(t)
  <2>1. Move(t, "acquireCas", "holding")
    BY <1>6 DEF AcquireCas
  <2>2. Fits(inFlightBytes, bytes[t], MaxBytes)
    BY <1>6, <2>1 DEF AcquireCas, ReadFits, Move
  <2>3. /\ AbstractPhase[t] = PhaseOf("acquireCas")
        /\ AbstractPhase' = [AbstractPhase EXCEPT ![t] = PhaseOf("holding")]
    BY <2>1, PhaseStep
  <2> QED
    BY <1>6, <2>2, <2>3 DEF PhaseOf, AcquireCas, Atomic!Grant, Atomic!Move, Atomic!Fits, Fits, Atomic!Charged, Charged
<1>7. ASSUME NEW t \in Threads, AcquireRetry(t) PROVE Stutter
  <2>1. Move(t, "acquireCas", "acquireRead")
    BY <1>7 DEF AcquireRetry
  <2>3. /\ AbstractPhase[t] = PhaseOf("acquireCas")
        /\ AbstractPhase' = [AbstractPhase EXCEPT ![t] = PhaseOf("acquireRead")]
    BY <2>1, PhaseStep
  <2> QED
    BY <1>7, <2>3 DEF PhaseOf, AbstractPhase, AcquireRetry
<1>8. ASSUME NEW t \in Threads, ReleaseNothing(t) PROVE Atomic!Refund(t)
  <2>1. Move(t, "releaseRead", "idle")
    BY <1>8 DEF ReleaseNothing
  <2>2. inFlightBytes' = Refunded(inFlightBytes, bytes[t])
    BY <1>8 DEF ReleaseNothing, Refunded, TypeOK
  <2>3. /\ AbstractPhase[t] = PhaseOf("releaseRead")
        /\ AbstractPhase' = [AbstractPhase EXCEPT ![t] = PhaseOf("idle")]
    BY <2>1, PhaseStep
  <2> QED
    BY <1>8, <2>2, <2>3 DEF PhaseOf, ReleaseNothing, Atomic!Refund, Atomic!Move, Atomic!Refunded, Refunded
<1>9. ASSUME NEW t \in Threads, ReleaseRead(t) PROVE Stutter
  <2>1. Move(t, "releaseRead", "releaseCas")
    BY <1>9 DEF ReleaseRead
  <2>3. /\ AbstractPhase[t] = PhaseOf("releaseRead")
        /\ AbstractPhase' = [AbstractPhase EXCEPT ![t] = PhaseOf("releaseCas")]
    BY <2>1, PhaseStep
  <2> QED
    BY <1>9, <2>3 DEF PhaseOf, AbstractPhase, ReleaseRead
<1>10. ASSUME NEW t \in Threads, ReleaseCas(t) PROVE Atomic!Refund(t)
  <2>1. Move(t, "releaseCas", "idle")
    BY <1>10 DEF ReleaseCas
  <2>3. /\ AbstractPhase[t] = PhaseOf("releaseCas")
        /\ AbstractPhase' = [AbstractPhase EXCEPT ![t] = PhaseOf("idle")]
    BY <2>1, PhaseStep
  <2> QED
    BY <1>10, <2>3 DEF PhaseOf, ReleaseCas, Atomic!Refund, Atomic!Move, Atomic!Refunded, Refunded
<1>11. ASSUME NEW t \in Threads, ReleaseRetry(t) PROVE Stutter
  <2>1. Move(t, "releaseCas", "releaseRead")
    BY <1>11 DEF ReleaseRetry
  <2>3. /\ AbstractPhase[t] = PhaseOf("releaseCas")
        /\ AbstractPhase' = [AbstractPhase EXCEPT ![t] = PhaseOf("releaseRead")]
    BY <2>1, PhaseStep
  <2> QED
    BY <1>11, <2>3 DEF PhaseOf, AbstractPhase, ReleaseRetry
<1>12. CASE UNCHANGED vars
  <2>1. Stutter
    BY <1>12 DEF vars, AbstractPhase
  <2> QED
    BY <2>1 DEF Atomic!vars
<1> QED
  BY <1>1, <1>2, <1>3, <1>4, <1>5, <1>6, <1>7, <1>8, <1>9, <1>10, <1>11, <1>12
  DEF Next, Run, Atomic!Next, Atomic!vars

(* The two loops implement the byte budget on which a reservation and a    *)
(* refund are one step: what the queues of FileController rely on.         *)
THEOREM LimiterRefinesBudget == Spec => ImplementsByteBudget
<1>1. Spec => Atomic!Init /\ [][Atomic!Next]_(Atomic!vars)
  BY RefinesInit, RefinesStep, ByteInvariance, PTL DEF Spec
<1> QED
  BY <1>1 DEF ImplementsByteBudget, Atomic!Spec

-----------------------------------------------------------------------------
(*                          FixedWindowRateLimiter                         *)

(* A call that was held up carries an old time, never a future one.        *)
ClockRead == \A c \in Calls : now[c] <= clock

(* A call gets its verdict in a window of its own key, and no window of    *)
(* the past is later than the present one.                                 *)
Ordered ==
  \A c \in Calls :
    /\ stage[c] = "done" <=> verdict[c] # "none"
    /\ stage[c] \in {"count", "done"} => Key(c) \in opened
    /\ stage[c] = "done" => window[c] <= windowStart[Key(c)]

Capped(number) == IF number <= MaxRequests THEN number ELSE MaxRequests

(* count is the number of calls of the present window, admitted up to the  *)
(* limit.                                                                  *)
CountTrue ==
  \A k \in Clients :
    /\ Cardinality(AdmittedIn(k, windowStart[k])) = Capped(count[k])
    /\ k \notin opened => count[k] = 0

RateInv ==
  /\ RateTypeOK /\ ClockRead /\ Ordered /\ CountTrue
  /\ WindowBound /\ RefusalJustified

LEMMA KeyIsClient == ASSUME NEW c \in Calls PROVE Key(c) \in Clients
BY RateAssumption DEF Key

LEMMA TimesAreNat == Times \subseteq Nat /\ MaxRequests \in Nat /\ WindowMillis \in Nat \ {0}
BY RateAssumption DEF Times

LEMMA AdmittedFinite ==
  ASSUME NEW k, NEW start
  PROVE  /\ AdmittedIn(k, start) \subseteq Calls
         /\ IsFiniteSet(AdmittedIn(k, start))
         /\ Cardinality(AdmittedIn(k, start)) \in Nat
<1>1. AdmittedIn(k, start) \subseteq Calls
  BY DEF AdmittedIn
<1>2. IsFiniteSet(AdmittedIn(k, start))
  BY <1>1, RateAssumption, FS_Subset
<1> QED
  BY <1>1, <1>2, FS_CardinalityType

(* Nobody was admitted for a key whose counter is not open, or in a window *)
(* that is still to come.                                                  *)
LEMMA NobodyYet ==
  ASSUME RateInv, NEW k \in Clients, NEW start \in Times,
         k \notin opened \/ start > windowStart[k]
  PROVE  AdmittedIn(k, start) = {} /\ Cardinality(AdmittedIn(k, start)) = 0
<1>1. AdmittedIn(k, start) = {}
  <2> SUFFICES ASSUME NEW c \in Calls, verdict[c] = "admitted", Key(c) = k, window[c] = start
               PROVE  FALSE
    BY DEF AdmittedIn
  <2>1. stage[c] = "done"
    BY DEF RateInv, Ordered
  <2>2. Key(c) \in opened /\ window[c] <= windowStart[k]
    BY <2>1 DEF RateInv, Ordered
  <2>3. start \in Nat /\ windowStart[k] \in Nat
    BY TimesAreNat DEF RateInv, RateTypeOK
  <2> QED
    BY <2>2, <2>3
<1> QED
  BY <1>1, FS_EmptySet

(* While no verdict and no window changes, neither does who was admitted.  *)
LEMMA AdmittedUnchanged ==
  ASSUME UNCHANGED <<verdict, window>>, NEW k, NEW start
  PROVE  AdmittedIn(k, start)' = AdmittedIn(k, start)
BY DEF AdmittedIn, Key

LEMMA RateInvInit == RateInit => RateInv
<1> SUFFICES ASSUME RateInit PROVE RateInv
  OBVIOUS
<1>1. RateTypeOK
  BY RateAssumption DEF RateInit, RateTypeOK, Times
<1>2. ClockRead /\ Ordered
  BY DEF RateInit, ClockRead, Ordered
<1>3. \A k, start : AdmittedIn(k, start) = {} /\ Cardinality(AdmittedIn(k, start)) = 0
  BY FS_EmptySet DEF RateInit, AdmittedIn
<1>4. CountTrue
  BY <1>3, RateAssumption DEF RateInit, CountTrue, Capped
<1>5. WindowBound
  BY <1>3, RateAssumption DEF WindowBound
<1>6. RefusalJustified
  BY DEF RateInit, RefusalJustified
<1> QED
  BY <1>1, <1>2, <1>4, <1>5, <1>6 DEF RateInv

(* Time passes.                                                            *)
LEMMA TickStep == ASSUME RateInv, Tick PROVE RateInv'
<1> USE DEF RateInv, Tick, counters
<1>1. RateTypeOK'
  BY RateAssumption DEF RateTypeOK, Times
<1>2. ClockRead'
  BY RateAssumption DEF ClockRead, RateTypeOK, Times
<1>3. Ordered'
  BY DEF Ordered, Key
<1>4. \A k, start : AdmittedIn(k, start)' = AdmittedIn(k, start)
  BY AdmittedUnchanged
<1>5. CountTrue' /\ WindowBound'
  BY <1>4 DEF CountTrue, Capped, WindowBound
<1>6. RefusalJustified'
  BY <1>4 DEF RefusalJustified, Key
<1> QED
  BY <1>1, <1>2, <1>3, <1>5, <1>6

LEMMA ReadClockStep == ASSUME RateInv, NEW c \in Calls, ReadClock(c) PROVE RateInv'
<1> USE DEF RateInv, ReadClock, Advance, counters
<1>1. RateTypeOK'
  BY DEF RateTypeOK
<1>2. ClockRead'
  BY RateAssumption DEF ClockRead, RateTypeOK, Times
<1>3. Ordered'
  BY DEF Ordered, Key, RateTypeOK
<1>4. \A k, start : AdmittedIn(k, start)' = AdmittedIn(k, start)
  BY AdmittedUnchanged
<1>5. CountTrue' /\ WindowBound'
  BY <1>4 DEF CountTrue, Capped, WindowBound
<1>6. \A d \in Calls : verdict[d] = "refused" => now'[d] = now[d]
  BY DEF Ordered, RateTypeOK
<1>7. RefusalJustified'
  BY <1>4, <1>6 DEF RefusalJustified, Key
<1> QED
  BY <1>1, <1>2, <1>3, <1>5, <1>7

LEMMA FindStep == ASSUME RateInv, NEW c \in Calls, Find(c) PROVE RateInv'
<1> USE DEF RateInv, Find, Advance
<1>0. Key(c) \in Clients
  BY KeyIsClient
<1>1. RateTypeOK'
  BY <1>0 DEF RateTypeOK, ClockRead
<1>2. ClockRead'
  BY DEF ClockRead
<1>3. Ordered'
  BY <1>0 DEF Ordered, Key, RateTypeOK
<1>4. \A k, start : AdmittedIn(k, start)' = AdmittedIn(k, start)
  BY AdmittedUnchanged
<1>5. ASSUME NEW k \in Clients
      PROVE  /\ Cardinality(AdmittedIn(k, windowStart[k]))' = Capped(count[k])'
             /\ k \notin opened' => count'[k] = 0
  <2>1. CASE windowStart'[k] = windowStart[k]
    BY <1>4, <2>1 DEF CountTrue, Capped
  <2>2. CASE windowStart'[k] # windowStart[k]
    <3>1. k = Key(c) /\ k \notin opened /\ windowStart'[k] = now[c]
      BY <1>0, <2>2 DEF RateTypeOK
    <3>2. Cardinality(AdmittedIn(k, now[c])) = 0
      BY <3>1, NobodyYet DEF RateTypeOK
    <3>3. count'[k] = 0
      BY <3>1 DEF CountTrue
    <3> QED
      BY <1>4, <3>1, <3>2, <3>3, TimesAreNat DEF Capped
  <2> QED
    BY <2>1, <2>2
<1>6. CountTrue'
  BY <1>5 DEF CountTrue
<1>7. WindowBound'
  BY <1>4 DEF WindowBound
<1>8. RefusalJustified'
  BY <1>4 DEF RefusalJustified, Key
<1> QED
  BY <1>1, <1>2, <1>3, <1>6, <1>7, <1>8

(* The heart of the matter: a call is counted as number in a window that   *)
(* is the present one or a new one.                                        *)
LEMMA CountedInStep ==
  ASSUME RateInv, NEW c \in Calls, NEW start \in Times, NEW number \in Nat \ {0},
         Advance(c, "count", "done"), CountedIn(c, start, number),
         windowStart[Key(c)] <= start, start <= clock, now[c] < start + WindowMillis,
         Cardinality(AdmittedIn(Key(c), start)) = Capped(number - 1)
  PROVE  RateInv'
<1> USE DEF RateInv, Advance, CountedIn
<1>0. /\ Key(c) \in Clients /\ Key(c) \in opened
      /\ stage[c] = "count" /\ verdict[c] = "none"
      /\ start \in Nat /\ windowStart[Key(c)] \in Nat /\ MaxRequests \in Nat
  BY KeyIsClient, TimesAreNat DEF Ordered, RateTypeOK
<1>1. RateTypeOK'
  BY <1>0 DEF RateTypeOK
<1>2. ClockRead'
  BY DEF ClockRead
<1>3. Ordered'
  <2> SUFFICES ASSUME NEW d \in Calls
               PROVE  /\ stage'[d] = "done" <=> verdict'[d] # "none"
                      /\ stage'[d] \in {"count", "done"} => Key(d) \in opened'
                      /\ stage'[d] = "done" => window'[d] <= windowStart'[Key(d)]
    BY DEF Ordered, Key
  <2>1. CASE d = c
    BY <1>0, <2>1 DEF RateTypeOK
  <2>2. CASE d # c
    <3>1. stage'[d] = stage[d] /\ verdict'[d] = verdict[d] /\ window'[d] = window[d]
      BY <2>2 DEF RateTypeOK
    <3>2. windowStart[Key(d)] <= windowStart'[Key(d)] /\ Key(d) \in Clients
      <4> DEFINE k == Key(d)
      <4>1. k \in Clients
        BY KeyIsClient
      <4>2. windowStart[k] \in Nat
        BY <4>1, TimesAreNat DEF RateTypeOK
      <4>3. windowStart'[k] = IF k = Key(c) THEN start ELSE windowStart[k]
        BY <1>0, <4>1 DEF RateTypeOK
      <4> QED
        BY <4>1, <4>2, <4>3
    <3>3. window[d] \in Nat /\ windowStart[Key(d)] \in Nat /\ windowStart'[Key(d)] \in Nat
      BY <1>1, <3>2, TimesAreNat DEF RateTypeOK
    <3> QED
      BY <3>1, <3>2, <3>3 DEF Ordered
  <2> QED
    BY <2>1, <2>2
<1>4. c \notin AdmittedIn(Key(c), start)
  BY <1>0 DEF AdmittedIn
<1>5. ASSUME NEW k, NEW s, k # Key(c) \/ s # start \/ ~(number <= MaxRequests)
      PROVE  AdmittedIn(k, s)' = AdmittedIn(k, s)
  <2> SUFFICES ASSUME NEW d \in Calls
               PROVE  (verdict'[d] = "admitted" /\ Key(d) = k /\ window'[d] = s)
                        <=> (verdict[d] = "admitted" /\ Key(d) = k /\ window[d] = s)
    BY DEF AdmittedIn, Key
  <2>1. CASE d = c
    BY <1>0, <1>5, <2>1 DEF RateTypeOK
  <2>2. CASE d # c
    BY <2>2 DEF RateTypeOK
  <2> QED
    BY <2>1, <2>2
<1>6. ASSUME number <= MaxRequests
      PROVE  AdmittedIn(Key(c), start)' = AdmittedIn(Key(c), start) \cup {c}
  <2> SUFFICES ASSUME NEW d \in Calls
               PROVE  (verdict'[d] = "admitted" /\ Key(d) = Key(c) /\ window'[d] = start)
                        <=> (verdict[d] = "admitted" /\ Key(d) = Key(c) /\ window[d] = start) \/ d = c
    BY DEF AdmittedIn, Key
  <2>1. CASE d = c
    BY <1>6, <2>1 DEF RateTypeOK
  <2>2. CASE d # c
    BY <2>2 DEF RateTypeOK
  <2> QED
    BY <2>1, <2>2
<1>7. Cardinality(AdmittedIn(Key(c), start))' = Capped(number)
  <2>1. CASE number <= MaxRequests
    <3>1. Cardinality(AdmittedIn(Key(c), start) \cup {c})
            = Cardinality(AdmittedIn(Key(c), start)) + 1
      BY <1>4, AdmittedFinite, FS_AddElement
    <3>2. Cardinality(AdmittedIn(Key(c), start))' = Cardinality(AdmittedIn(Key(c), start) \cup {c})
      BY <1>6, <2>1
    <3>3. Capped(number - 1) + 1 = Capped(number)
      BY <1>0, <2>1 DEF Capped
    <3> QED
      BY <3>1, <3>2, <3>3
  <2>2. CASE ~(number <= MaxRequests)
    BY <1>0, <1>5, <2>2 DEF Capped
  <2> QED
    BY <2>1, <2>2
<1>8. CountTrue'
  <2> SUFFICES ASSUME NEW k \in Clients
               PROVE  /\ Cardinality(AdmittedIn(k, windowStart[k]))' = Capped(count[k])'
                      /\ k \notin opened' => count'[k] = 0
    BY DEF CountTrue
  <2>1. CASE k = Key(c)
    BY <1>0, <1>7, <2>1 DEF Capped, RateTypeOK, Key
  <2>2. CASE k # Key(c)
    BY <1>5, <2>2 DEF CountTrue, Capped, RateTypeOK
  <2> QED
    BY <2>1, <2>2
<1>9. WindowBound'
  <2> SUFFICES ASSUME NEW k \in Clients, NEW s \in Times
               PROVE  Cardinality(AdmittedIn(k, s))' <= MaxRequests
    BY DEF WindowBound, Times
  <2>1. CASE k = Key(c) /\ s = start
    BY <1>0, <1>7, <2>1 DEF Capped
  <2>2. CASE ~(k = Key(c) /\ s = start)
    BY <1>5, <2>2 DEF WindowBound
  <2> QED
    BY <2>1, <2>2
<1>10. RefusalJustified'
  <2> SUFFICES ASSUME NEW d \in Calls, verdict'[d] = "refused"
               PROVE  /\ Cardinality(AdmittedIn(Key(d), window[d]))' = MaxRequests
                      /\ now'[d] < window'[d] + WindowMillis
    BY DEF RefusalJustified, Key
  <2>1. CASE d = c
    <3>1. ~(number <= MaxRequests) /\ window'[d] = start
      BY <2>1 DEF RateTypeOK
    <3> QED
      BY <1>0, <1>7, <2>1, <3>1 DEF Capped, Key
  <2>2. CASE d # c
    <3>1. verdict[d] = "refused" /\ window'[d] = window[d] /\ now'[d] = now[d]
      BY <2>2 DEF RateTypeOK
    <3>2. Cardinality(AdmittedIn(Key(d), window[d])) = MaxRequests
          /\ now[d] < window[d] + WindowMillis
      BY <3>1 DEF RefusalJustified
    <3>3. ~(Key(d) = Key(c) /\ window[d] = start /\ number <= MaxRequests)
      BY <1>0, <3>2 DEF Capped
    <3>4. AdmittedIn(Key(d), window[d])' = AdmittedIn(Key(d), window[d])
      BY <1>5, <3>1, <3>3 DEF AdmittedIn, Key
    <3> QED
      BY <3>1, <3>2, <3>4
  <2> QED
    BY <2>1, <2>2
<1> QED
  BY <1>1, <1>2, <1>3, <1>8, <1>9, <1>10

LEMMA RestartStep == ASSUME RateInv, NEW c \in Calls, Restart(c) PROVE RateInv'
<1> USE DEF RateInv
<1>1. /\ Key(c) \in Clients
      /\ now[c] \in Times /\ now[c] \in Nat /\ windowStart[Key(c)] \in Nat
      /\ WindowMillis \in Nat \ {0} /\ MaxRequests \in Nat
  BY KeyIsClient, TimesAreNat DEF RateTypeOK
<1>2. Advance(c, "count", "done") /\ CountedIn(c, now[c], 1)
  BY DEF Restart
<1>3. windowStart[Key(c)] < now[c] /\ now[c] <= clock /\ now[c] < now[c] + WindowMillis
  BY <1>1 DEF Restart, ClockRead
<1>4. Cardinality(AdmittedIn(Key(c), now[c])) = 0
  BY <1>1, <1>3, NobodyYet
<1>5. Capped(1 - 1) = 0
  BY <1>1 DEF Capped
<1>6. windowStart[Key(c)] <= now[c]
  BY <1>1, <1>3
<1> QED
  BY <1>1, <1>2, <1>3, <1>4, <1>5, <1>6, CountedInStep

LEMMA CountStep == ASSUME RateInv, NEW c \in Calls, Count(c) PROVE RateInv'
<1> USE DEF RateInv
<1> DEFINE k == Key(c)
<1>1. /\ k \in Clients /\ windowStart[k] \in Times /\ windowStart[k] \in Nat
      /\ count[k] \in Nat /\ windowStart[k] <= clock
  BY KeyIsClient, TimesAreNat DEF RateTypeOK
<1>2. /\ Advance(c, "count", "done") /\ CountedIn(c, windowStart[k], count[k] + 1)
      /\ now[c] < windowStart[k] + WindowMillis
  BY DEF Count
<1>3. Cardinality(AdmittedIn(k, windowStart[k])) = Capped(count[k])
  BY <1>1 DEF CountTrue
<1>4. count[k] + 1 \in Nat \ {0} /\ (count[k] + 1) - 1 = count[k] /\ windowStart[k] <= windowStart[k]
  BY <1>1
<1> QED
  BY <1>1, <1>2, <1>3, <1>4, CountedInStep

(* Every step preserves the invariant.                                     *)
LEMMA RateInvStep == RateInv /\ [RateNext]_rateVars => RateInv'
<1> SUFFICES ASSUME RateInv, [RateNext]_rateVars PROVE RateInv'
  OBVIOUS
<1>1. CASE Tick
  BY <1>1, TickStep
<1>2. ASSUME NEW c \in Calls, ReadClock(c) PROVE RateInv'
  BY <1>2, ReadClockStep
<1>3. ASSUME NEW c \in Calls, Find(c) PROVE RateInv'
  BY <1>3, FindStep
<1>4. ASSUME NEW c \in Calls, Restart(c) PROVE RateInv'
  BY <1>4, RestartStep
<1>5. ASSUME NEW c \in Calls, Count(c) PROVE RateInv'
  BY <1>5, CountStep
<1>6. CASE UNCHANGED rateVars
  <2>1. \A k, start : AdmittedIn(k, start)' = AdmittedIn(k, start)
    BY <1>6, AdmittedUnchanged DEF rateVars
  <2> QED
    BY <1>6, <2>1 DEF RateInv, rateVars, counters, RateTypeOK, ClockRead, Ordered, CountTrue, Capped, WindowBound,
       RefusalJustified, Key
<1> QED
  BY <1>1, <1>2, <1>3, <1>4, <1>5, <1>6 DEF RateNext

LEMMA RateInvAlways == RateSpec => []RateInv
BY RateInvInit, RateInvStep, PTL DEF RateSpec

(* No counter of FixedWindowRateLimiter opens in the future, and each      *)
(* variable keeps its type.                                                *)
THEOREM RateTypeCorrect == RateSpec => []RateTypeOK
<1>1. RateInv => RateTypeOK
  BY DEF RateInv
<1> QED
  BY <1>1, RateInvAlways, PTL

(* allow admits no more than maxRequests to a window of a client, however  *)
(* many calls race, and however old the times are that they carry into the *)
(* synchronized block.                                                     *)
THEOREM WindowsBounded == RateSpec => []WindowBound
<1>1. RateInv => WindowBound
  BY DEF RateInv
<1> QED
  BY <1>1, RateInvAlways, PTL

(* allow refuses nobody whose window was not full, or had ended when the   *)
(* call came.                                                              *)
THEOREM RefusalsJustified == RateSpec => []RefusalJustified
<1>1. RateInv => RefusalJustified
  BY DEF RateInv
<1> QED
  BY <1>1, RateInvAlways, PTL

(* The windows that allow opens for a client never overlap, and never go   *)
(* back.                                                                   *)
THEOREM WindowsKeptApart == RateSpec => WindowsApart
<1> DEFINE Apart ==
      \A k \in opened :
        windowStart'[k] # windowStart[k] => windowStart'[k] >= windowStart[k] + WindowMillis
<1>1. RateInv /\ [RateNext]_rateVars => [Apart]_rateVars
  <2> SUFFICES ASSUME RateInv, RateNext, NEW k \in opened, windowStart'[k] # windowStart[k]
               PROVE  windowStart'[k] >= windowStart[k] + WindowMillis
    OBVIOUS
  <2>1. k \in Clients /\ windowStart \in [Clients -> Times]
    BY DEF RateInv, RateTypeOK
  <2>2. ASSUME NEW c \in Calls, Find(c) PROVE FALSE
    BY <2>1, <2>2, KeyIsClient DEF Find
  <2>3. ASSUME NEW c \in Calls, Restart(c)
        PROVE  windowStart'[k] >= windowStart[k] + WindowMillis
    BY <2>1, <2>3, KeyIsClient DEF Restart, CountedIn
  <2>4. ASSUME NEW c \in Calls, Count(c) PROVE FALSE
    BY <2>1, <2>4, KeyIsClient DEF Count, CountedIn
  <2> QED
    BY <2>2, <2>3, <2>4 DEF RateNext, Tick, ReadClock, counters
<1> QED
  BY <1>1, RateInvAlways, PTL DEF RateSpec, WindowsApart

-----------------------------------------------------------------------------
(*                            DownloadAdmission                            *)

(* A step of downloadFile is a step of one limiter, and leaves the other   *)
(* alone.                                                                  *)
LEMMA AdmissionStep ==
  [AdmissionNext]_admissionVars => [Next]_vars /\ [RateNext]_rateVars
<1> SUFFICES ASSUME AdmissionNext PROVE [Next]_vars /\ [RateNext]_rateVars
  BY DEF admissionVars, vars, rateVars
<1>1. CASE RateStep
  BY <1>1 DEF RateStep
<1>2. ASSUME NEW c \in Calls, Reserve(c) \/ GiveBack(c) \/ InLimiter(c)
      PROVE  Next /\ UNCHANGED rateVars
  <2>1. c \in Threads
    BY AdmissionAssumption
  <2> QED
    BY <1>2, <2>1 DEF Reserve, GiveBack, InLimiter, Next
<1> QED
  BY <1>1, <1>2 DEF AdmissionNext

(* downloadFile, which calls tryAcquire only after allow has let it pass   *)
(* (lines 158-187), uses both limiters as they are specified.              *)
THEOREM AdmissionUsesBoth == AdmissionSpec => Spec /\ RateSpec
<1>1. AdmissionInit => Init /\ RateInit
  BY DEF AdmissionInit
<1> QED
  BY <1>1, AdmissionStep, PTL DEF AdmissionSpec, Spec, RateSpec

(* So for the downloads both limits hold together: the bytes reserved stay *)
(* within the budget, the windows within theirs, and nobody is refused by  *)
(* allow without a full window.                                            *)
THEOREM AdmissionWithinLimits ==
  AdmissionSpec => []WithinBudget /\ []WindowBound /\ []RefusalJustified
  BY AdmissionUsesBoth, BudgetKept, WindowsBounded, RefusalsJustified, PTL
=============================================================================
