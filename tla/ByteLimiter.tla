---------------------------- MODULE ByteLimiter -----------------------------
(***************************************************************************)
(* InFlightByteLimiter of FileController.kt as it runs: tryAcquire and     *)
(* release are compare-and-set loops on one AtomicLong, interleaved        *)
(* between request threads.  A thread asks for a reservation, and gives a  *)
(* granted one back later, as the upload and download handlers do.         *)
(***************************************************************************)
EXTENDS Budget

CONSTANTS
  Threads,   \* the request threads that use one limiter
  MaxBytes,  \* the limiter's maxBytes
  Sizes      \* the reservations they ask for

ASSUME LimiterAssumption == MaxBytes \in Nat /\ Sizes \subseteq Nat

VARIABLES
  inFlightBytes,  \* the AtomicLong
  pc,             \* where each thread is
  bytes,          \* the argument of the call it is in
  current         \* the value it read last

vars == <<inFlightBytes, pc, bytes, current>>

Labels == {"idle", "acquireRead", "acquireCas", "holding", "releaseRead", "releaseCas"}

TypeOK ==
  /\ inFlightBytes \in Nat
  /\ pc \in [Threads -> Labels]
  /\ bytes \in [Threads -> Sizes \cup {0}]
  /\ current \in [Threads -> Nat]

Init ==
  /\ inFlightBytes = 0
  /\ pc = [t \in Threads |-> "idle"]
  /\ bytes = [t \in Threads |-> 0]
  /\ current = [t \in Threads |-> 0]

Move(t, from, to) == pc[t] = from /\ pc' = [pc EXCEPT ![t] = to]

-----------------------------------------------------------------------------
(* Plausible errors in the two loops, which the properties must notice.    *)

(* A plain set of the value computed earlier, instead of compareAndSet.    *)
AcquirePlainSet(t) ==
  /\ Move(t, "acquireCas", "holding")
  /\ inFlightBytes' = Charged(current[t], bytes[t])
  /\ UNCHANGED <<bytes, current>>

(* addAndGet after the test on the old value, instead of compareAndSet.    *)
AcquireAddAndGet(t) ==
  /\ Move(t, "acquireCas", "holding")
  /\ inFlightBytes' = Charged(inFlightBytes, bytes[t])
  /\ UNCHANGED <<bytes, current>>

(* The counter is read once, before the loop.                              *)
AcquireRetryStale(t) ==
  /\ inFlightBytes # current[t]
  /\ Move(t, "acquireCas", "acquireCas")
  /\ UNCHANGED <<inFlightBytes, bytes, current>>

-----------------------------------------------------------------------------
CallTryAcquire(t, b) ==
  /\ Move(t, "idle", "acquireRead")
  /\ bytes' = [bytes EXCEPT ![t] = b]
  /\ UNCHANGED <<inFlightBytes, current>>

(* A reservation of nothing returns true without touching the counter.     *)
AcquireNothing(t) ==
  /\ bytes[t] = 0
  /\ Move(t, "acquireRead", "holding")
  /\ UNCHANGED <<inFlightBytes, bytes, current>>

(* get(), and the test against maxBytes on the value that was read.        *)
AcquireRead(t) ==
  /\ bytes[t] > 0
  /\ Fits(inFlightBytes, bytes[t], MaxBytes)
  /\ Move(t, "acquireRead", "acquireCas")
  /\ current' = [current EXCEPT ![t] = inFlightBytes]
  /\ UNCHANGED <<inFlightBytes, bytes>>

AcquireRefused(t) ==
  /\ bytes[t] > 0
  /\ ~Fits(inFlightBytes, bytes[t], MaxBytes)
  /\ Move(t, "acquireRead", "idle")
  /\ UNCHANGED <<inFlightBytes, bytes, current>>

AcquireCas(t) ==
  /\ inFlightBytes = current[t]
  /\ Move(t, "acquireCas", "holding")
  /\ inFlightBytes' = Charged(current[t], bytes[t])
  /\ UNCHANGED <<bytes, current>>

(* compareAndSet lost to another thread: back to the top of the loop.      *)
AcquireRetry(t) ==
  /\ inFlightBytes # current[t]
  /\ Move(t, "acquireCas", "acquireRead")
  /\ UNCHANGED <<inFlightBytes, bytes, current>>

-----------------------------------------------------------------------------
CallRelease(t) ==
  /\ Move(t, "holding", "releaseRead")
  /\ UNCHANGED <<inFlightBytes, bytes, current>>

ReleaseNothing(t) ==
  /\ bytes[t] = 0
  /\ Move(t, "releaseRead", "idle")
  /\ UNCHANGED <<inFlightBytes, bytes, current>>

ReleaseRead(t) ==
  /\ bytes[t] > 0
  /\ Move(t, "releaseRead", "releaseCas")
  /\ current' = [current EXCEPT ![t] = inFlightBytes]
  /\ UNCHANGED <<inFlightBytes, bytes>>

ReleaseCas(t) ==
  /\ inFlightBytes = current[t]
  /\ Move(t, "releaseCas", "idle")
  /\ inFlightBytes' = Refunded(current[t], bytes[t])
  /\ UNCHANGED <<bytes, current>>

ReleaseRetry(t) ==
  /\ inFlightBytes # current[t]
  /\ Move(t, "releaseCas", "releaseRead")
  /\ UNCHANGED <<inFlightBytes, bytes, current>>

-----------------------------------------------------------------------------
(* The steps a thread takes once it is inside tryAcquire or release.       *)
Run(t) ==
  \/ AcquireNothing(t) \/ AcquireRead(t) \/ AcquireRefused(t)
  \/ AcquireCas(t) \/ AcquireRetry(t)
  \/ ReleaseNothing(t) \/ ReleaseRead(t) \/ ReleaseCas(t) \/ ReleaseRetry(t)

Next ==
  \E t \in Threads :
    \/ \E b \in Sizes : CallTryAcquire(t, b)
    \/ CallRelease(t)
    \/ Run(t)

Spec == Init /\ [][Next]_vars

(* The scheduler runs every thread that is inside a call; whether a thread *)
(* makes a call is the client's choice.                                    *)
FairSpec == Spec /\ \A t \in Threads : WF_vars(Run(t))

-----------------------------------------------------------------------------
(* The counter never exceeds maxBytes and never falls below zero, although *)
(* the test on line 618 and the update on line 621 are not one step.       *)
WithinBudget == inFlightBytes \in 0 .. MaxBytes

(* The loops are lock-free: while threads are inside a call, calls return  *)
(* again and again; it never happens that everybody retries for ever.      *)
Inside(t) == pc[t] \notin {"idle", "holding"}
CallReturns(t) == Inside(t) /\ pc'[t] \in {"idle", "holding"}
SomeCallReturns ==
  []<>(\A t \in Threads : ~Inside(t)) \/ []<><<\E t \in Threads : CallReturns(t)>>_vars

(* The refinement mapping to the atomic budget: a thread inside the loop   *)
(* of tryAcquire is asking, one inside the loop of release is returning.   *)
PhaseOf(label) ==
  CASE label \in {"acquireRead", "acquireCas"} -> "asking"
    [] label \in {"releaseRead", "releaseCas"} -> "returning"
    [] OTHER -> label

AbstractPhase == [t \in Threads |-> PhaseOf(pc[t])]

Atomic == INSTANCE ByteBudget WITH used <- inFlightBytes, phase <- AbstractPhase

(* tryAcquire and release behave as if each took effect in one step.       *)
ImplementsByteBudget == Atomic!Spec

=============================================================================
