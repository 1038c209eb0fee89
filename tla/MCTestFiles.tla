----------------------------- MODULE MCTestFiles ----------------------------
(***************************************************************************)
(* Three runs over two files of two chunks.                                 *)
(***************************************************************************)
EXTENDS TestFiles

CONSTANTS tool, loader, other

ThreeRuns == {tool, loader, other}
Benchmarks == {loader, other}
TwoSeeds == {1, 7}
=============================================================================
