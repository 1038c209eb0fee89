------------------------------ MODULE MCMonitor -----------------------------
(***************************************************************************)
(* Two monitors of one container, beside or after each other.              *)
(***************************************************************************)
EXTENDS Monitor

CONSTANTS m1, m2

TwoMonitors == {m1, m2}

(* A second of work for one of the two CPUs, an idle one, a busy one.      *)
Workload == <<{1}, {0}, {2}, {2}>>
=============================================================================
