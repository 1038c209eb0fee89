SPECIFICATION Spec
CONSTANTS
  Names <- AllNames
  Lookalikes <- NoLookalikes
  Files <- AllFiles
  Leftovers <- OldRows
  PathOf <- Paths
  UploadCases <- Uploads
  MoveCases <- Moves
  DeleteFileCases <- FileDeletes
  DeleteFolderCases <- FolderDeletes
  MaxTroubles = 0
  Nothing = Nothing
  s = s
  x = x
  y = y
  h = h
  A = A
  C = C
  M = M
  a1 = a1
  c1 = c1
  c2 = c2
  x1 = x1
  x2 = x2
  h1 = h1
  h2 = h2
  k = k
  l = l
INVARIANT CleanMovesVerified
\* When main has ended, nothing is left to do.
CHECK_DEADLOCK FALSE
