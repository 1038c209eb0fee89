----------------------------- MODULE MCBenchmark ----------------------------
(***************************************************************************)
(* A small instance of Benchmark, in the shape of the tables of            *)
(* benchmark.go: a folder that is moved and deleted, one whose files are   *)
(* deleted one by one, one that is moved with a folder in it, and one that *)
(* is deleted with a folder in it.  An earlier run may have left a row of  *)
(* the folder that is moved, and one of the files deleted one by one.      *)
(***************************************************************************)
EXTENDS Benchmark

CONSTANTS s, x, y, h, A, C, M,  \* names of folders
          a1, c1, c2, x1, x2, h1, h2, k, l

AllNames == {s, x, y, h, A, C, M, a1, c1, c2, x1, x2, h1, h2}
NoLookalikes == {}

AllFiles == {a1, c1, c2, x1, x2, h1, h2}
OldRows == {k, l}
Paths ==
  [id \in AllFiles \cup OldRows |->
     CASE id \in {a1, k} -> <<s, A, a1>>
       [] id \in {c1, c2} -> <<s, C, id>>
       [] id \in {x1, x2} -> <<x, A, id>>
       [] id \in {h1, h2} -> <<h, A, id>>
       [] id = l -> <<s, C, c1>>]

Uploads == <<{a1, c1, c2}, {x1, x2}, {h1, h2}>>
Moves == <<[from |-> <<s, A>>, to |-> <<s, M>>, files |-> 1],
           [from |-> <<x>>, to |-> <<y>>, files |-> 2]>>
FileDeletes == <<[folder |-> <<s, C>>, files |-> 2]>>
FolderDeletes == <<[folder |-> <<s, M>>, files |-> 1], [folder |-> <<y>>, files |-> 2],
                   [folder |-> <<h>>, files |-> 2]>>
=============================================================================
