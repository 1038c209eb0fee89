-------------------------- MODULE DownloadAdmission -------------------------
(***************************************************************************)
(* The two limiters that a download passes one after the other: allow of   *)
(* the FixedWindowRateLimiter (FileController.kt, lines 158-168), and,     *)
(* once that has admitted it, tryAcquire of the InFlightByteLimiter for    *)
(* its place in the queue (lines 182-187).  A download reserves its bytes  *)
(* at most once: it may not exist, be served at once, or be refused.  What *)
(* it has reserved is released once, whichever thread ends its wait.       *)
(*                                                                         *)
(* Each limiter keeps its own state, and a step is a step of one of them:  *)
(* a call of allow that was let in late runs beside the loops of the calls *)
(* before it.                                                              *)
(***************************************************************************)
EXTENDS ByteLimiter, RateLimiter

ASSUME AdmissionAssumption == Threads = Calls

VARIABLE asked  \* the downloads that have called tryAcquire

admissionVars == <<vars, rateVars, asked>>

AdmissionInit == Init /\ RateInit /\ asked = {}

RateStep == RateNext /\ UNCHANGED <<vars, asked>>

(* Line 183: only after line 160 returned true, for a file of any size.    *)
Reserve(c) ==
  /\ verdict[c] = "admitted" /\ c \notin asked
  /\ \E b \in Sizes : CallTryAcquire(c, b)
  /\ asked' = asked \cup {c}
  /\ UNCHANGED rateVars

GiveBack(c) == CallRelease(c) /\ UNCHANGED <<rateVars, asked>>

InLimiter(c) == Run(c) /\ UNCHANGED <<rateVars, asked>>

AdmissionNext == RateStep \/ \E c \in Calls : Reserve(c) \/ GiveBack(c) \/ InLimiter(c)

AdmissionSpec == AdmissionInit /\ [][AdmissionNext]_admissionVars

(* As in FairSpec of ByteLimiter: a thread inside a loop is run.           *)
FairAdmissionSpec == AdmissionSpec /\ \A c \in Calls : WF_vars(Run(c))
=============================================================================
