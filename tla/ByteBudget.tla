----------------------------- MODULE ByteBudget -----------------------------
(***************************************************************************)
(* What InFlightByteLimiter promises: a byte budget on which reserving and *)
(* giving back happen in one step each.  The queues of FileController are  *)
(* modelled on top of this promise; ByteLimiter shows that the             *)
(* compare-and-set loops of the code keep it.                              *)
(***************************************************************************)
EXTENDS Budget

CONSTANTS
  Threads,   \* the request threads that use one limiter
  MaxBytes,  \* the limiter's maxBytes
  Sizes      \* the reservations they ask for

VARIABLES
  used,      \* bytes reserved now
  phase,     \* what each thread is doing with its reservation
  bytes      \* the size of each thread's reservation

vars == <<used, phase, bytes>>

Phases == {"idle", "asking", "holding", "returning"}

TypeOK ==
  /\ used \in Nat
  /\ phase \in [Threads -> Phases]
  /\ bytes \in [Threads -> Sizes \cup {0}]

Init ==
  /\ used = 0
  /\ phase = [t \in Threads |-> "idle"]
  /\ bytes = [t \in Threads |-> 0]

Move(t, from, to) == phase[t] = from /\ phase' = [phase EXCEPT ![t] = to]

Ask(t, b) ==
  /\ Move(t, "idle", "asking")
  /\ bytes' = [bytes EXCEPT ![t] = b]
  /\ UNCHANGED used

Grant(t) ==
  /\ Move(t, "asking", "holding")
  /\ Fits(used, bytes[t], MaxBytes)
  /\ used' = Charged(used, bytes[t])
  /\ UNCHANGED bytes

Refuse(t) ==
  /\ Move(t, "asking", "idle")
  /\ ~Fits(used, bytes[t], MaxBytes)
  /\ UNCHANGED <<used, bytes>>

GiveBack(t) ==
  /\ Move(t, "holding", "returning")
  /\ UNCHANGED <<used, bytes>>

Refund(t) ==
  /\ Move(t, "returning", "idle")
  /\ used' = Refunded(used, bytes[t])
  /\ UNCHANGED bytes

Next ==
  \E t \in Threads :
    \/ \E b \in Sizes : Ask(t, b)
    \/ Grant(t)
    \/ Refuse(t)
    \/ GiveBack(t)
    \/ Refund(t)

Spec == Init /\ [][Next]_vars
=============================================================================
