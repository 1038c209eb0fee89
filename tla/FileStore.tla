------------------------------ MODULE FileStore -----------------------------
(***************************************************************************)
(* FileService.kt and FileRepository.kt: one row per file in SQLite, one   *)
(* file per id on disk, and the requests that change both.                 *)
(*                                                                         *)
(* Nothing spans a row and its file: there is no transaction and no lock,  *)
(* so every SQL statement and every file operation is one step, and the    *)
(* steps of different requests interleave (the connection pool holds one   *)
(* connection, which a request gives back after each statement).  A step   *)
(* may throw, and the process may die; nothing cleans up after either.     *)
(*                                                                         *)
(* A file is only ever read through its row.  Its content is abstracted to *)
(* how much of it has been written.  Requests that find nothing to act on  *)
(* answer 404 and change nothing: they are not steps of the model.         *)
(***************************************************************************)
EXTENDS FolderPaths, FiniteSetsExt

CONSTANTS
  Requests,      \* the requests that are handled at once, each on its thread
  Users,         \* user ids
  Ids,           \* UUIDs of files
  Folders,       \* folders that requests name, <<>> for "/"
  Destinations,  \* paths for files, as normalizeFilePath completes them
  NoRow

ASSUME StoreAssumption ==
  /\ IsFiniteSet(Requests)
  /\ IsFiniteSet(Ids) /\ Ids \subseteq Nat \ {0}
  /\ Folders \subseteq Seq(Names) /\ Destinations \subseteq Seq(Names)
  /\ NoRow \notin Users \cup [user : Users, path : Seq(Names)]

VARIABLES
  rows,         \* the table files: user_id and file_path of each id
  disk,         \* the file of each id under app.storage.dir
  pc,           \* where each request is
  job,          \* its local variables
  origin,       \* history: how an id came into use
  removed,      \* history: the ids whose row was deleted
  slipped,      \* history: deleted with a folder without having been listed
  escaped,      \* history: listed with a folder, but not deleted with it
  abandoned,    \* history: ids at which a request failed or died
  announced,    \* history: rows that answers said were deleted
  unannounced   \* history: rows deleted by requests that failed or died

store == <<rows, disk>>
thread == <<pc, job>>
deletions == <<removed, slipped, escaped>>
answers == <<announced, unannounced>>
vars == <<store, thread, origin, deletions, abandoned, answers>>

Row == [user : Users, path : Seq(Names)]
Labels == {"idle", "create", "copy", "insert", "deleteRow", "unlink", "deleteRows",
           "unlinkAll", "update", "exists", "open"}
Idle == [user |-> NoRow, path |-> <<>>, id |-> 0, targets |-> {}, deleted |-> 0]

(* Every variable keeps its type; only ids in use have rows or files.      *)
TypeOK ==
  /\ \A id \in Ids : rows[id] = NoRow \/ rows[id] \in Row
  /\ disk \in [Ids -> {"none", "partial", "whole"}]
  /\ pc \in [Requests -> Labels]
  /\ \A r \in Requests : pc[r] = "idle" <=> job[r] = Idle
  /\ origin \in [Ids -> {"unused", "upload", "metadata"}]
  /\ \A id \in Ids : origin[id] = "unused" => rows[id] = NoRow /\ disk[id] = "none"
  /\ removed \subseteq Ids /\ slipped \subseteq removed
  /\ escaped \subseteq Ids /\ abandoned \subseteq Ids
  /\ announced \in Nat /\ unannounced \in Nat

Init ==
  /\ rows = [id \in Ids |-> NoRow]
  /\ disk = [id \in Ids |-> "none"]
  /\ pc = [r \in Requests |-> "idle"]
  /\ job = [r \in Requests |-> Idle]
  /\ origin = [id \in Ids |-> "unused"]
  /\ removed = {} /\ slipped = {} /\ escaped = {} /\ abandoned = {}
  /\ announced = 0 /\ unannounced = 0

(* A request starts with its parameters, moves on, or ends.                *)
Job(user, path, id) ==
  [user |-> user, path |-> path, id |-> id, targets |-> {}, deleted |-> 0]
Start(r, to, parameters) ==
  /\ pc[r] = "idle"
  /\ pc' = [pc EXCEPT ![r] = to]
  /\ job' = [job EXCEPT ![r] = parameters]
Goto(r, from, to) == pc[r] = from /\ pc' = [pc EXCEPT ![r] = to]
End(r, from) == Goto(r, from, "idle") /\ job' = [job EXCEPT ![r] = Idle]

Present == {id \in Ids : rows[id] # NoRow}

-----------------------------------------------------------------------------
(* Plausible errors in the code, which the properties must notice.         *)

(* The row is inserted before the file is written.                         *)
CreateFileAfterRow(r) ==
  /\ Goto(r, "create", "copy")
  /\ rows' = [rows EXCEPT ![job[r].id] = [user |-> job[r].user, path |-> job[r].path]]
  /\ disk' = [disk EXCEPT ![job[r].id] = "partial"]
  /\ UNCHANGED <<job, origin, deletions, abandoned, answers>>

(* deleteFile removes the file before the row.                             *)
FindLatestUnlinks(r, user, path) ==
  LET id == Max({id \in Present : rows[id] = [user |-> user, path |-> path]}) IN
  /\ Start(r, "deleteRow", Job(user, <<>>, id))
  /\ disk' = [disk EXCEPT ![id] = "none"]
  /\ UNCHANGED <<rows, origin, deletions, abandoned, answers>>

(* deleteFile forgets the file.                                            *)
DeleteRowOnly(r) ==
  /\ End(r, "deleteRow")
  /\ rows' = [rows EXCEPT ![job[r].id] = NoRow]
  /\ removed' = removed \cup {job[r].id}
  /\ announced' = announced + IF rows[job[r].id] = NoRow THEN 0 ELSE 1
  /\ UNCHANGED <<disk, origin, slipped, escaped, abandoned, unannounced>>

(* deleteFile does not look at how many rows were deleted.                 *)
DeleteRowUnchecked(r) ==
  /\ Goto(r, "deleteRow", "unlink")
  /\ job' = [job EXCEPT ![r].deleted = 1]
  /\ rows' = [rows EXCEPT ![job[r].id] = NoRow]
  /\ removed' = removed \cup {job[r].id}
  /\ UNCHANGED <<disk, origin, slipped, escaped, abandoned, answers>>

(* moveFile saves the row it has found, whether it is still there or not.  *)
UpdatePathSaves(r) ==
  /\ End(r, "update")
  /\ rows' = [rows EXCEPT ![job[r].id] = [user |-> job[r].user, path |-> job[r].path]]
  /\ UNCHANGED <<disk, origin, deletions, abandoned, answers>>

-----------------------------------------------------------------------------
(* WHERE user_id = ? AND file_path LIKE 'folder/%'                         *)
RowsIn(user, folder) ==
  {id \in Present : rows[id].user = user /\ Matches(folder, rows[id].path)}

(* WHERE user_id = ? AND file_path = ? ORDER BY uploaded_at DESC LIMIT 1   *)
Versions(user, path) == {id \in Present : rows[id] = [user |-> user, path |-> path]}

-----------------------------------------------------------------------------
(* uploadFile: an id and a time, the file, then its row.  Ids are ordered  *)
(* like the texts of their upload times; such texts are not always in the  *)
(* order of the times (a time without a fraction sorts after those that    *)
(* have one), so any unused id may be next.                                *)
StartUpload(r, user, path) ==
  \E id \in Ids :
    /\ origin[id] = "unused"
    /\ origin' = [origin EXCEPT ![id] = "upload"]
    /\ Start(r, "create", Job(user, path, id))
    /\ UNCHANGED <<store, deletions, abandoned, answers>>

CreateFile(r) ==
  /\ Goto(r, "create", "copy")
  /\ disk' = [disk EXCEPT ![job[r].id] = "partial"]
  /\ UNCHANGED <<rows, job, origin, deletions, abandoned, answers>>

FinishCopy(r) ==
  /\ Goto(r, "copy", "insert")
  /\ disk' = [disk EXCEPT ![job[r].id] = "whole"]
  /\ UNCHANGED <<rows, job, origin, deletions, abandoned, answers>>

InsertRow(r) ==
  /\ End(r, "insert")
  /\ rows' = [rows EXCEPT ![job[r].id] = [user |-> job[r].user, path |-> job[r].path]]
  /\ UNCHANGED <<disk, origin, deletions, abandoned, answers>>

(* createUploadMetadata: a row whose file somebody else is to store.       *)
CreateMetadata(r, user, path) ==
  \E id \in Ids :
    /\ pc[r] = "idle" /\ origin[id] = "unused"
    /\ origin' = [origin EXCEPT ![id] = "metadata"]
    /\ rows' = [rows EXCEPT ![id] = [user |-> user, path |-> path]]
    /\ UNCHANGED <<disk, thread, deletions, abandoned, answers>>

-----------------------------------------------------------------------------
(* deleteFile: the latest version is looked up by path, and deleted by id. *)

FindLatest(r, user, path) ==
  /\ Versions(user, path) # {}
  /\ Start(r, "deleteRow", Job(user, <<>>, Max(Versions(user, path))))
  /\ UNCHANGED <<store, origin, deletions, abandoned, answers>>

(* Somebody else may have deleted the row: then the answer is 404.         *)
DeleteRow(r) ==
  LET id == job[r].id IN
  \/ /\ pc[r] = "deleteRow" /\ rows[id] # NoRow
     /\ Goto(r, "deleteRow", "unlink")
     /\ job' = [job EXCEPT ![r].deleted = 1]
     /\ rows' = [rows EXCEPT ![id] = NoRow]
     /\ removed' = removed \cup {id}
     /\ UNCHANGED <<disk, origin, slipped, escaped, abandoned, answers>>
  \/ /\ pc[r] = "deleteRow" /\ rows[id] = NoRow
     /\ End(r, "deleteRow")
     /\ UNCHANGED <<store, origin, deletions, abandoned, answers>>

Unlink(r) ==
  /\ End(r, "unlink")
  /\ disk' = [disk EXCEPT ![job[r].id] = "none"]
  /\ announced' = announced + job[r].deleted
  /\ UNCHANGED <<rows, origin, deletions, abandoned, unannounced>>

(* deleteFolder: its files are listed, its rows deleted by a statement     *)
(* that looks for them again, and the listed files removed one by one.     *)

ListFolder(r, user, folder) ==
  /\ RowsIn(user, folder) # {}
  /\ Start(r, "deleteRows", [Job(user, folder, 0) EXCEPT !.targets = RowsIn(user, folder)])
  /\ UNCHANGED <<store, origin, deletions, abandoned, answers>>

DeleteRows(r) ==
  LET doomed == RowsIn(job[r].user, job[r].path) IN
  /\ Goto(r, "deleteRows", "unlinkAll")
  /\ job' = [job EXCEPT ![r].deleted = Cardinality(doomed)]
  /\ rows' = [id \in Ids |-> IF id \in doomed THEN NoRow ELSE rows[id]]
  /\ removed' = removed \cup doomed
  /\ slipped' = slipped \cup (doomed \ job[r].targets)
  /\ escaped' = escaped \cup (job[r].targets \cap (Present \ doomed))
  /\ UNCHANGED <<disk, origin, abandoned, answers>>

UnlinkOne(r) ==
  /\ Goto(r, "unlinkAll", "unlinkAll")
  /\ \E id \in job[r].targets :
       /\ disk' = [disk EXCEPT ![id] = "none"]
       /\ job' = [job EXCEPT ![r].targets = job[r].targets \ {id}]
  /\ UNCHANGED <<rows, origin, deletions, abandoned, answers>>

FolderDeleted(r) ==
  /\ End(r, "unlinkAll")
  /\ job[r].targets = {}
  /\ announced' = announced + job[r].deleted
  /\ UNCHANGED <<store, origin, deletions, abandoned, unannounced>>

-----------------------------------------------------------------------------
(* moveFolder: one statement, for the files of every user, and for a file  *)
(* that has the folder's path itself.                                      *)
MoveFolder(r, from, to) ==
  LET moved == {id \in Present : rows[id].path = from \/ Matches(from, rows[id].path)} IN
  /\ pc[r] = "idle"
  /\ from # <<>> /\ to # <<>> /\ from # to
  /\ rows' = [id \in Ids |->
       IF id \in moved THEN [rows[id] EXCEPT !.path = Rebased(rows[id].path, from, to)]
       ELSE rows[id]]
  /\ UNCHANGED <<disk, thread, origin, deletions, abandoned, answers>>

(* moveFile: the row is looked up, then its path is set.  Nobody looks at  *)
(* whether the row was still there: the answer is 200 either way.          *)
FindForMove(r, id, path) ==
  /\ rows[id] # NoRow
  /\ Start(r, "update", Job(rows[id].user, path, id))
  /\ UNCHANGED <<store, origin, deletions, abandoned, answers>>

UpdatePath(r) ==
  LET id == job[r].id IN
  /\ End(r, "update")
  /\ rows' = IF rows[id] = NoRow THEN rows ELSE [rows EXCEPT ![id].path = job[r].path]
  /\ UNCHANGED <<disk, origin, deletions, abandoned, answers>>

-----------------------------------------------------------------------------
(* Downloads: getDownloadFile and, later, the response body.  The front    *)
(* end (download.lua) asks only for the metadata and opens the file.       *)

FindInfo(r, id, next) ==
  /\ rows[id] # NoRow
  /\ Start(r, next, Job(NoRow, <<>>, id))
  /\ UNCHANGED <<store, origin, deletions, abandoned, answers>>

CheckExists(r) ==
  /\ \/ Goto(r, "exists", "open") /\ disk[job[r].id] # "none" /\ UNCHANGED job
     \/ End(r, "exists") /\ disk[job[r].id] = "none"
  /\ UNCHANGED <<store, origin, deletions, abandoned, answers>>

(* An open file can be read to its end although its name is removed.       *)
Open(r) ==
  /\ End(r, "open")
  /\ UNCHANGED <<store, origin, deletions, abandoned, answers>>

-----------------------------------------------------------------------------
(* The files a request has yet to give a row, or to remove.                *)
Duties(r) ==
  CASE pc[r] \in {"create", "copy", "insert", "unlink"} -> {job[r].id}
    [] pc[r] = "unlinkAll" -> job[r].targets
    [] OTHER -> {}

(* A statement or a file operation throws, and the request is answered     *)
(* with 500; or the process dies with every request in it.                 *)
Ended(dead) ==
  /\ pc' = [r \in Requests |-> IF r \in dead THEN "idle" ELSE pc[r]]
  /\ job' = [r \in Requests |-> IF r \in dead THEN Idle ELSE job[r]]
  /\ abandoned' = abandoned \cup UNION {Duties(r) : r \in dead}
  /\ unannounced' = unannounced + MapThenSumSet(LAMBDA r : job[r].deleted, dead)
  /\ UNCHANGED <<store, origin, deletions, announced>>

Throw(r) == pc[r] # "idle" /\ Ended({r})
Crash == (\E r \in Requests : pc[r] # "idle") /\ Ended(Requests)

Step(r) ==
  \/ CreateFile(r) \/ FinishCopy(r) \/ InsertRow(r)
  \/ DeleteRow(r) \/ Unlink(r)
  \/ DeleteRows(r) \/ UnlinkOne(r) \/ FolderDeleted(r)
  \/ UpdatePath(r) \/ CheckExists(r) \/ Open(r)

Next ==
  \/ Crash
  \/ \E r \in Requests :
       \/ Step(r) \/ Throw(r)
       \/ \E user \in Users, path \in Destinations :
            StartUpload(r, user, path) \/ CreateMetadata(r, user, path)
       \/ \E id \in Present : FindLatest(r, rows[id].user, rows[id].path)
       \/ \E user \in Users, folder \in Folders : ListFolder(r, user, folder)
       \/ \E from, to \in Folders : MoveFolder(r, from, to)
       \/ \E id \in Ids, path \in Destinations : FindForMove(r, id, path)
       \/ \E id \in Ids, next \in {"exists", "open"} : FindInfo(r, id, next)

Spec == Init /\ [][Next]_vars

-----------------------------------------------------------------------------
(* A row of uploadFile has its whole file, at every moment and after every *)
(* failure and restart: the file is written first and removed last (lines  *)
(* 171-187, 72-78).  The exception are files of a deleted folder that were *)
(* moved out of it between its listing and its DELETE (lines 53-63).       *)
RowHasFile ==
  \A id \in Present :
    disk[id] = "whole" \/ origin[id] = "metadata" \/ id \in escaped

(* A file without a row is being stored or removed by a request, was left  *)
(* by one that failed or died, or came into a folder between its listing   *)
(* and its DELETE: no other way leaves an orphan on the disk.              *)
FileHasRow ==
  \A id \in Ids \ Present :
    disk[id] # "none" => id \in (UNION {Duties(r) : r \in Requests}) \cup abandoned \cup slipped

(* However long ago a download looked up its row, and whoever uploads,     *)
(* deletes, fails or restarts meanwhile: the file it opens is whole, or it *)
(* is gone (lines 146-157, 171-187).                                       *)
NoPartialDownload == \A r \in Requests : pc[r] = "open" => disk[job[r].id] # "partial"

(* A deleted file does not come back, whoever held its id when it was      *)
(* deleted (lines 137-144).                                                *)
DeletedStaysDeleted == removed \cap Present = {}

(* Deletes that race for a file announce it once: what the answers say was *)
(* deleted (lines 58-65, 72-80), and what failed requests could not say,   *)
(* adds up to what was deleted.                                            *)
DeletesAnnouncedOnce ==
  announced + unannounced + MapThenSumSet(LAMBDA r : job[r].deleted, Requests)
    = Cardinality(removed)

-----------------------------------------------------------------------------
(* What the repository's documents say, and the code does not do.          *)

(* loadtest/prd.md:347: folderPath is the folder to delete, with all that  *)
(* is below it.  So deleting a folder leaves what is elsewhere alone.      *)
FolderDeleteStaysInside ==
  [][\A r \in Requests, id \in Present :
       pc[r] = "deleteRows" /\ pc'[r] = "unlinkAll" /\ rows'[id] = NoRow
         => Within(job[r].path, rows[id].path)]_vars
=============================================================================
