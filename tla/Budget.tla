------------------------------- MODULE Budget -------------------------------
(***************************************************************************)
(* The arithmetic of InFlightByteLimiter (FileController.kt): when a       *)
(* reservation fits, and what the counter becomes when it is charged or    *)
(* given back.  A reservation is never negative, because every caller      *)
(* passes size.coerceAtLeast(0).                                           *)
(***************************************************************************)
EXTENDS Integers

(* tryAcquire answers true: a reservation of nothing always does.          *)
Fits(used, bytes, maxBytes) == bytes = 0 \/ used + bytes <= maxBytes

(* The counter after a granted tryAcquire.                                 *)
Charged(used, bytes) == used + bytes

(* The counter after release: (current - bytes).coerceAtLeast(0).          *)
Refunded(used, bytes) == IF bytes <= used THEN used - bytes ELSE 0
=============================================================================
