SPECIFICATION Spec
CONSTANTS
  r1 = r1
  r2 = r2
  u1 = u1
  u2 = u2
  f = f
  g = g
  n = n
  Requests <- TwoRequests
  Users <- OneUser
  Ids <- TwoIds
  Names <- ThreeNames
  Lookalikes <- FMatchesG
  Destinations <- FileInEach
  Folders <- TwoFolders
  NoRow = NoRow
PROPERTIES
  FolderDeleteStaysInside
\* Ids run out: then there may be nothing left to do.
CHECK_DEADLOCK FALSE
