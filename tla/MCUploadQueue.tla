---------------------------- MODULE MCUploadQueue ---------------------------
(***************************************************************************)
(* Small instances of UploadQueue.                                         *)
(***************************************************************************)
EXTENDS UploadQueue, TLC

CONSTANTS r1, r2, r3, r4

FourRequests == {r1, r2, r3, r4}
TwoRequests == {r1, r2}

(* Against two in-flight bytes, the larger file fits when it is alone, or  *)
(* never.                                                                  *)
OneLarger == [r \in Requests |-> IF r = r2 THEN 2 ELSE 1]
TooLarge == [r \in Requests |-> IF r \in {r2, r4} THEN 3 ELSE 1]

(* Three uploads in any order, or two that are both too large: then the    *)
(* queue of five bytes is full for the second.                             *)
Arrivals == pc[r4] = "new" \/ (pc[r1] = "new" /\ pc[r3] = "new")
=============================================================================
