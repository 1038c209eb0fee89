----------------------------- MODULE MCFileStore ----------------------------
(***************************************************************************)
(* Small instances of FileStore.                                           *)
(***************************************************************************)
EXTENDS FileStore, TLC

CONSTANTS r1, r2, u1, u2, f, g, n

TwoRequests == {r1, r2}
TwoUsers == {u1, u2}
OneUser == {u1}
TwoIds == {1, 2}

(* The folder f is named like "a_b": as a pattern, it matches g, "axb".    *)
ThreeNames == {f, g, n}
FMatchesG == {<<f, g>>}
TwoFolders == {<<f>>, <<g>>}

FileInEach == {<<f, n>>, <<g, n>>}

(* A file in the folder f, and one with the name of the folder g.          *)
TwoPaths == {<<f, n>>, <<g>>}

Symmetry == Permutations(TwoRequests) \cup Permutations(TwoUsers)
=============================================================================
