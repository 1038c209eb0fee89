-------------------------- MODULE DownloadService ---------------------------
(***************************************************************************)
(* What the download path of FileController promises its clients: at most  *)
(* MaxConcurrency files are streamed at once, at most MaxQueueRequests     *)
(* requests wait in a line that is served from its head, and a request     *)
(* gets one outcome, which is final.                                       *)
(***************************************************************************)
EXTENDS Naturals, Sequences, FiniteSets

CONSTANTS
  Requests,          \* download requests, each with its own connection
  MaxConcurrency,    \* app.download.max-concurrency
  MaxQueueRequests   \* app.download.max-queue-requests

VARIABLES
  outcome,  \* how far each request is
  line      \* the requests that had to wait, in the order of their arrival

vars == <<outcome, line>>

Outcomes == {"new", "waiting", "chosen", "streaming", "closed", "refused"}

At(o) == {r \in Requests : outcome[r] = o}

Init ==
  /\ outcome = [r \in Requests |-> "new"]
  /\ line = <<>>

Becomes(r, from, to) == outcome[r] = from /\ outcome' = [outcome EXCEPT ![r] = to]

(* Too many requests, no such file, or no room in the line.                *)
Refuse(r) == Becomes(r, "new", "refused") /\ UNCHANGED line

StreamAtOnce(r) ==
  /\ Cardinality(At("streaming")) < MaxConcurrency
  /\ Becomes(r, "new", "streaming")
  /\ UNCHANGED line

Join(r) ==
  /\ Cardinality(At("waiting")) < MaxQueueRequests
  /\ Becomes(r, "new", "waiting")
  /\ line' = Append(line, r)

(* The client went away or waited too long.                                *)
Leave(r) == Becomes(r, "waiting", "refused") /\ UNCHANGED line

(* Nobody who came before r is waiting.                                    *)
First(r) ==
  \E k \in DOMAIN line :
    line[k] = r /\ \A i \in 1 .. k - 1 : outcome[line[i]] # "waiting"

(* The first of those who wait is taken, one request at a time.            *)
Choose(r) ==
  /\ At("chosen") = {}
  /\ First(r)
  /\ Becomes(r, "waiting", "chosen")
  /\ UNCHANGED line

StreamChosen(r) ==
  /\ Cardinality(At("streaming")) < MaxConcurrency
  /\ Becomes(r, "chosen", "streaming")
  /\ UNCHANGED line

(* The answer to a timeout overtook the head of the line.                  *)
RefuseChosen(r) == Becomes(r, "chosen", "refused") /\ UNCHANGED line

Close(r) == Becomes(r, "streaming", "closed") /\ UNCHANGED line

Next ==
  \E r \in Requests :
    \/ Refuse(r) \/ StreamAtOnce(r) \/ Join(r) \/ Leave(r)
    \/ Choose(r) \/ StreamChosen(r) \/ RefuseChosen(r) \/ Close(r)

Spec == Init /\ [][Next]_vars
=============================================================================
