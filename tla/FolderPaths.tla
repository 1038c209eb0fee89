---------------------------- MODULE FolderPaths -----------------------------
(***************************************************************************)
(* The logical paths of FileService.kt and FileRepository.kt.  A path is a *)
(* sequence of names, the root folder the empty one.                       *)
(*                                                                         *)
(* Folders are looked up with SQL's LIKE, for which '_' and '%' in a       *)
(* folder's name are wildcards and upper and lower case are the same:      *)
(* <<f, g>> \in Lookalikes when the name f, taken as a pattern, matches    *)
(* the other name g.  A '%' that would match across a '/' is left out.     *)
(***************************************************************************)
EXTENDS Naturals, Sequences

CONSTANTS Names, Lookalikes

ASSUME NamesAssumption == Lookalikes \subseteq Names \X Names

Like(pattern, name) == pattern = name \/ <<pattern, name>> \in Lookalikes

(* What a folder holds, and what file_path LIKE 'folder/%' finds.          *)
Within(folder, path) ==
  Len(folder) < Len(path) /\ \A i \in DOMAIN folder : folder[i] = path[i]
Matches(folder, path) ==
  Len(folder) < Len(path) /\ \A i \in DOMAIN folder : Like(folder[i], path[i])

(* SET file_path = to || substr(file_path, length of from + 1)             *)
Rebased(path, from, to) == to \o SubSeq(path, Len(from) + 1, Len(path))

(* What listFolderEntries makes of them: an entry per row that lies in the *)
(* folder itself, and one per name of a folder below it.  A path that the  *)
(* query found although only its pattern matches keeps its first "/": its  *)
(* next name is blank, and it is left out.                                 *)
LiesIn(folder, path) == Within(folder, path) /\ Len(path) = Len(folder) + 1
ChildFolders(folder, paths) ==
  {path[Len(folder) + 1] : path \in
     {p \in paths : Within(folder, p) /\ Len(p) > Len(folder) + 1}}
=============================================================================
