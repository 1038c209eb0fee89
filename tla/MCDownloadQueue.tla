--------------------------- MODULE MCDownloadQueue --------------------------
(***************************************************************************)
(* Small instances of DownloadQueue.                                       *)
(***************************************************************************)
EXTENDS DownloadQueue, TLC

CONSTANTS r1, r2, r3, r4, r5

FiveRequests == {r1, r2, r3, r4, r5}
ThreeRequests == {r1, r2, r3}

(* One file fills a budget of three bytes alone; the queue fills up by     *)
(* bytes in some runs and by requests in others.                           *)
MCSize == [r \in Requests |-> IF r = r1 THEN 3 ELSE 1]

(* Four downloads in any order.  The fifth comes while the first one's     *)
(* body runs and the second's waits for the executor: only then do three   *)
(* of them crowd around a queue for two.                                   *)
Arrivals == pc[r5] = "new" \/ (stream[r1] = "running" /\ stream[r2] = "submitted")
=============================================================================
