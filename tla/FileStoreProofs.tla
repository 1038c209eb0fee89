--------------------------- MODULE FileStoreProofs --------------------------
(***************************************************************************)
(* Proofs about the file store, for any requests, users, paths and ids,    *)
(* and whatever LIKE finds in a folder.                                    *)
(***************************************************************************)
EXTENDS FileStore, DataLemmas

Jobs == [user : Users \cup {NoRow}, path : Seq(Names), id : Ids \cup {0}, targets : SUBSET Ids,
         deleted : Nat]

Shape ==
  /\ rows \in [Ids -> Row \cup {NoRow}]
  /\ disk \in [Ids -> {"none", "partial", "whole"}]
  /\ pc \in [Requests -> Labels] /\ job \in [Requests -> Jobs]
  /\ origin \in [Ids -> {"unused", "upload", "metadata"}]
  /\ removed \subseteq Ids /\ slipped \subseteq removed
  /\ escaped \subseteq Ids /\ abandoned \subseteq Ids

(* An id that has, or had, a row.                                          *)
Known(id) == rows[id] # NoRow \/ id \in removed

(* A row has its file; a file that has a row, or had one, is not partial;  *)
(* and rows do not come back.                                              *)
Sound(id) ==
  /\ origin[id] = "unused" => ~Known(id) /\ disk[id] = "none"
  /\ Known(id) => disk[id] # "partial"
  /\ rows[id] # NoRow => id \notin removed
  /\ rows[id] # NoRow => disk[id] = "whole" \/ origin[id] = "metadata" \/ id \in escaped
  /\ id \in escaped => Known(id)

Uploading(r) == pc[r] \in {"create", "copy", "insert"}

(* An upload has its id for itself, and its file is as far as it is.       *)
Uploads(r) ==
  Uploading(r) =>
    /\ job[r].id \in Ids /\ ~Known(job[r].id) /\ job[r].user \in Users
    /\ origin[job[r].id] = "upload"
    /\ pc[r] = "create" => disk[job[r].id] = "none"
    /\ pc[r] = "copy" => disk[job[r].id] = "partial"
    /\ pc[r] = "insert" => disk[job[r].id] = "whole"

OneUploadPerId ==
  \A r, s \in Requests : Uploading(r) /\ Uploading(s) /\ job[r].id = job[s].id => r = s

(* Any other request has found its id in a row.                            *)
Found(r) ==
  /\ pc[r] \in {"deleteRow", "unlink", "update", "exists", "open"} =>
       job[r].id \in Ids /\ Known(job[r].id)
  /\ pc[r] = "unlink" => job[r].id \in removed
  /\ pc[r] = "deleteRows" => \A id \in job[r].targets : Known(id)
  /\ pc[r] = "unlinkAll" => job[r].targets \subseteq removed \cup escaped

(* Somebody will see to a file without a row, or nobody can.               *)
Orphans ==
  \A id \in Ids : rows[id] = NoRow /\ disk[id] # "none" =>
    (\E r \in Requests : id \in Duties(r)) \/ id \in abandoned \/ id \in slipped

Inv ==
  /\ Shape /\ OneUploadPerId /\ Orphans
  /\ \A id \in Ids : Sound(id)
  /\ \A r \in Requests : Uploads(r) /\ Found(r)

(* The latest of several versions is one of them.                          *)
LEMMA MaxIsMember ==
  ASSUME NEW S, S \subseteq Nat, IsFiniteSet(S), S # {}
  PROVE  Max(S) \in S
<1> DEFINE Above(x) == {y \in S : y > x}
<1>1. IsWellFoundedOn(StrictSubsetOrdering(S), SUBSET S)
  BY FS_StrictSubsetOrderingWellFounded, FS_FiniteSubsetsOfFinite
<1>2. PICK x \in S : \A y \in S : <<Above(y), Above(x)>> \notin StrictSubsetOrdering(S)
  <2> DEFINE T == {Above(x) : x \in S}
  <2>1. T \subseteq SUBSET S /\ T # {}
    OBVIOUS
  <2>2. \E A \in T : \A B \in T : <<B, A>> \notin StrictSubsetOrdering(S)
    BY <1>1, <2>1, WFMin
  <2> QED
    BY <2>2
<1>3. \A y \in S : x >= y
  <2> SUFFICES ASSUME NEW y \in S, y > x PROVE FALSE
    OBVIOUS
  <2>0. x \in Nat /\ S \subseteq Nat /\ y \in Nat
    OBVIOUS
  <2>1. Above(y) \subseteq Above(x)
    <3> SUFFICES ASSUME NEW z \in S, z > y PROVE z > x
      OBVIOUS
    <3> QED
      BY <2>0
  <2>2. y \in Above(x) /\ y \notin Above(y)
    BY <2>0
  <2>3. Above(y) # Above(x)
    BY <2>2, Zenon
  <2>4. Above(y) \in SUBSET S /\ Above(x) \in SUBSET S
    OBVIOUS
  <2> HIDE DEF Above
  <2> QED
    BY <1>2, <2>1, <2>3, <2>4 DEF StrictSubsetOrdering
<1> QED
  BY <1>3 DEF Max

LEMMA Constants ==
  /\ IsFiniteSet(Ids) /\ Ids \subseteq Nat /\ 0 \notin Ids
  /\ NoRow \notin Users /\ NoRow \notin Row
  /\ Folders \subseteq Seq(Names) /\ Destinations \subseteq Seq(Names)
BY StoreAssumption DEF Row

LEMMA InvInit == Init => Inv
<1> SUFFICES ASSUME Init PROVE Inv
  OBVIOUS
<1>1. Idle \in Jobs
  BY EmptySeq DEF Idle, Jobs
<1>2. Shape
  BY <1>1 DEF Init, Shape, Labels
<1>3. \A id \in Ids : Sound(id)
  BY DEF Init, Sound, Known
<1>4. OneUploadPerId /\ \A r \in Requests : Uploads(r) /\ Found(r)
  BY DEF Init, OneUploadPerId, Uploading, Uploads, Found
<1>5. Orphans
  BY DEF Init, Orphans
<1> QED
  BY <1>2, <1>3, <1>4, <1>5 DEF Inv

-----------------------------------------------------------------------------
(* What a request does, the others do not notice: they hold ids of their   *)
(* own, or ids that are known and remain so.                               *)
LEMMA OneRequest ==
  ASSUME Inv, NEW r \in Requests, Shape',
         \A s \in Requests \ {r} : pc'[s] = pc[s] /\ job'[s] = job[s],
         \A id \in Ids : Sound(id)', Uploads(r)', Found(r)',
         \A id \in Ids : Known(id) => Known(id)',
         removed \subseteq removed', escaped \subseteq escaped',
         slipped \subseteq slipped', abandoned \subseteq abandoned',
         \A id \in Ids : ~Known(id) /\ origin[id] = "upload" =>
           \/ Uploading(r) /\ id = job[r].id
           \/ ~Known(id)' /\ origin'[id] = "upload" /\ disk'[id] = disk[id],
         Uploading(r)' => \/ Uploading(r) /\ job'[r].id = job[r].id
                          \/ origin[job'[r].id] = "unused",
         \A id \in Ids : rows'[id] = NoRow /\ disk'[id] # "none" =>
           \/ rows[id] = NoRow /\ disk[id] # "none" /\ id \notin Duties(r)
           \/ id \in Duties(r)' \cup abandoned' \cup slipped'
  PROVE  Inv'
<1> USE DEF Inv
<1>1. ASSUME NEW s \in Requests \ {r}, Uploading(s)
      PROVE  ~(Uploading(r) /\ job[s].id = job[r].id)
  BY <1>1 DEF OneUploadPerId
<1>2. ASSUME NEW s \in Requests \ {r} PROVE Uploads(s)'
  <2> SUFFICES ASSUME Uploading(s) PROVE Uploads(s)'
    BY DEF Uploads, Uploading
  <2>1. job[s].id \in Ids /\ ~Known(job[s].id) /\ origin[job[s].id] = "upload"
    BY DEF Uploads
  <2>2. ~Known(job[s].id)' /\ origin'[job[s].id] = "upload" /\ disk'[job[s].id] = disk[job[s].id]
    BY <1>1, <2>1 DEF Known
  <2> QED
    BY <2>1, <2>2 DEF Uploads, Uploading, Known
<1>3. ASSUME NEW s \in Requests \ {r} PROVE Found(s)'
  <2>1. job[s].targets \subseteq Ids
    BY DEF Shape, Jobs
  <2> QED
    BY <2>1 DEF Found, Known
<1>4. OneUploadPerId'
  <2>1. ASSUME NEW s \in Requests \ {r}, Uploading(s), Uploading(r)' PROVE job[s].id # job'[r].id
    BY <1>1, <2>1 DEF Uploads
  <2> QED
    BY <2>1 DEF OneUploadPerId, Uploading
<1>5. Orphans'
  <2> SUFFICES ASSUME NEW id \in Ids, rows'[id] = NoRow, disk'[id] # "none"
               PROVE  (\E s \in Requests : id \in Duties(s)') \/ id \in abandoned' \/ id \in slipped'
    BY DEF Orphans
  <2>1. \A s \in Requests \ {r} : Duties(s)' = Duties(s)
    BY DEF Duties
  <2>2. CASE rows[id] = NoRow /\ disk[id] # "none" /\ id \notin Duties(r)
    <3>1. (\E s \in Requests : id \in Duties(s)) \/ id \in abandoned \/ id \in slipped
      BY <2>2 DEF Orphans
    <3> QED
      BY <2>1, <2>2, <3>1
  <2> QED
    BY <2>2
<1> QED
  BY <1>2, <1>3, <1>4, <1>5

(* A step that changes no row, no file and no history.                     *)
LEMMA QuietStep ==
  ASSUME Inv, NEW r \in Requests, Shape',
         \A s \in Requests \ {r} : pc'[s] = pc[s] /\ job'[s] = job[s],
         ~Uploading(r)', Found(r)', Duties(r) = {},
         UNCHANGED <<store, origin, deletions, abandoned>>
  PROVE  Inv'
<1> USE DEF Inv, store, deletions
<1>1. \A id \in Ids : Sound(id)' /\ (Known(id)' <=> Known(id))
  BY DEF Sound, Known
<1>2. Uploads(r)'
  BY DEF Uploads
<1>3. \A id \in Ids : ~Known(id) /\ origin[id] = "upload" =>
        ~Known(id)' /\ origin'[id] = "upload" /\ disk'[id] = disk[id]
  BY <1>1
<1> QED
  BY <1>1, <1>2, <1>3, OneRequest

(* A job starts with an id that was found, or is a new one.                *)
LEMMA JobType ==
  ASSUME NEW user \in Users \cup {NoRow}, NEW path \in Seq(Names), NEW id \in Ids \cup {0}
  PROVE  /\ Job(user, path, id) \in Jobs
         /\ Job(user, path, id).user = user /\ Job(user, path, id).path = path
         /\ Job(user, path, id).id = id /\ Job(user, path, id).targets = {}
BY DEF Job, Jobs

LEMMA IdleType == Idle \in Jobs
BY EmptySeq DEF Idle, Jobs

LEMMA StartShape ==
  ASSUME Shape, NEW r \in Requests, NEW to \in Labels, NEW parameters \in Jobs,
         Start(r, to, parameters)
  PROVE  /\ pc' \in [Requests -> Labels] /\ job' \in [Requests -> Jobs]
         /\ pc[r] = "idle" /\ pc'[r] = to /\ job'[r] = parameters
         /\ \A s \in Requests \ {r} : pc'[s] = pc[s] /\ job'[s] = job[s]
         /\ Duties(r) = {}
BY DEF Start, Shape, Duties

LEMMA GotoShape ==
  ASSUME Shape, NEW r \in Requests, NEW from, NEW to \in Labels, Goto(r, from, to)
  PROVE  /\ pc' \in [Requests -> Labels]
         /\ pc[r] = from /\ pc'[r] = to
         /\ \A s \in Requests \ {r} : pc'[s] = pc[s]
BY DEF Goto, Shape

LEMMA EndShape ==
  ASSUME Shape, NEW r \in Requests, NEW from, End(r, from)
  PROVE  /\ pc' \in [Requests -> Labels] /\ job' \in [Requests -> Jobs]
         /\ pc[r] = from /\ pc'[r] = "idle" /\ job'[r] = Idle
         /\ \A s \in Requests \ {r} : pc'[s] = pc[s] /\ job'[s] = job[s]
<1>1. "idle" \in Labels
  BY DEF Labels
<1>2. Goto(r, from, "idle") /\ job' = [job EXCEPT ![r] = Idle]
  BY DEF End
<1> QED
  BY <1>1, <1>2, GotoShape, IdleType DEF Shape

(* Requests that look something up, and only then do something.            *)
LEMMA BeginStep ==
  ASSUME Inv, NEW r \in Requests, NEW to \in {"deleteRow", "deleteRows", "update", "exists", "open"},
         NEW parameters \in Jobs, Start(r, to, parameters),
         to # "deleteRows" => parameters.id \in Ids /\ Known(parameters.id),
         \A id \in parameters.targets : Known(id),
         UNCHANGED <<store, origin, deletions, abandoned>>
  PROVE  Inv'
<1> USE DEF Inv, store, deletions
<1>1. to \in Labels
  BY DEF Labels
<1>2. /\ pc' \in [Requests -> Labels] /\ job' \in [Requests -> Jobs]
      /\ pc'[r] = to /\ job'[r] = parameters
      /\ \A s \in Requests \ {r} : pc'[s] = pc[s] /\ job'[s] = job[s]
      /\ Duties(r) = {}
  BY <1>1, StartShape
<1>3. Shape' /\ ~Uploading(r)' /\ Found(r)'
  BY <1>2 DEF Shape, Uploading, Found, Known
<1> QED
  BY <1>2, <1>3, QuietStep

LEMMA VersionsAreIds ==
  ASSUME NEW user, NEW path, Versions(user, path) # {}
  PROVE  Max(Versions(user, path)) \in Ids /\ rows[Max(Versions(user, path))] # NoRow
<1> DEFINE V == Versions(user, path)
<1>1. V \subseteq Ids /\ \A id \in V : rows[id] # NoRow
  BY DEF Versions, Present
<1>2. V \subseteq Nat /\ IsFiniteSet(V)
  BY <1>1, Constants, FS_Subset
<1>3. Max(V) \in V
  BY <1>2, MaxIsMember
<1> QED
  BY <1>1, <1>3

LEMMA FindLatestStep ==
  ASSUME Inv, NEW r \in Requests, NEW user \in Users, NEW path \in Seq(Names),
         FindLatest(r, user, path)
  PROVE  Inv'
<1> DEFINE id == Max(Versions(user, path))
<1>1. id \in Ids /\ Known(id)
  BY VersionsAreIds DEF FindLatest, Known
<1>2. <<>> \in Seq(Names)
  BY EmptySeq
<1> HIDE DEF id
<1>3. Job(user, <<>>, id) \in Jobs /\ Job(user, <<>>, id).id = id /\ Job(user, <<>>, id).targets = {}
  BY <1>1, <1>2 DEF Job, Jobs
<1>4. /\ Start(r, "deleteRow", Job(user, <<>>, id))
      /\ UNCHANGED <<store, origin, deletions, abandoned>>
  BY DEF FindLatest, id
<1> QED
  BY <1>1, <1>3, <1>4, BeginStep

LEMMA ListFolderStep ==
  ASSUME Inv, NEW r \in Requests, NEW user \in Users, NEW folder \in Folders,
         ListFolder(r, user, folder)
  PROVE  Inv'
<1> DEFINE found == RowsIn(user, folder)
           parameters == [Job(user, folder, 0) EXCEPT !.targets = found]
<1>1. found \subseteq Ids /\ \A id \in found : Known(id)
  BY DEF RowsIn, Present, Known
<1>2. folder \in Seq(Names) /\ user \in Users \cup {NoRow} /\ 0 \in Ids \cup {0}
  BY Constants
<1> HIDE DEF found
<1>3. parameters \in Jobs /\ parameters.targets = found
  BY <1>1, <1>2 DEF Job, Jobs
<1>4. Start(r, "deleteRows", parameters) /\ UNCHANGED <<store, origin, deletions, abandoned>>
  BY DEF ListFolder, found
<1> HIDE DEF parameters
<1> QED
  BY <1>1, <1>3, <1>4, BeginStep

LEMMA FindForMoveStep ==
  ASSUME Inv, NEW r \in Requests, NEW id \in Ids, NEW path \in Destinations,
         FindForMove(r, id, path)
  PROVE  Inv'
<1>1. Known(id) /\ path \in Seq(Names)
  BY Constants DEF FindForMove, Known
<1>2. rows[id].user \in Users
  BY DEF FindForMove, Inv, Shape, Row
<1>3. /\ Job(rows[id].user, path, id) \in Jobs
      /\ Job(rows[id].user, path, id).id = id /\ Job(rows[id].user, path, id).targets = {}
  BY <1>1, <1>2, JobType
<1>4. /\ Start(r, "update", Job(rows[id].user, path, id))
      /\ UNCHANGED <<store, origin, deletions, abandoned>>
  BY DEF FindForMove
<1> QED
  BY <1>1, <1>3, <1>4, BeginStep

LEMMA FindInfoStep ==
  ASSUME Inv, NEW r \in Requests, NEW id \in Ids, NEW next \in {"exists", "open"},
         FindInfo(r, id, next)
  PROVE  Inv'
<1>1. /\ Known(id) /\ Job(NoRow, <<>>, id) \in Jobs
      /\ Job(NoRow, <<>>, id).id = id /\ Job(NoRow, <<>>, id).targets = {}
  BY EmptySeq DEF FindInfo, Known, Job, Jobs
<1>2. Start(r, next, Job(NoRow, <<>>, id)) /\ UNCHANGED <<store, origin, deletions, abandoned>>
  BY DEF FindInfo
<1> QED
  BY <1>1, <1>2, BeginStep

LEMMA NothingDoneStep ==
  ASSUME Inv, NEW r \in Requests,
         \/ DeleteRow(r) /\ rows[job[r].id] = NoRow
         \/ CheckExists(r) \/ Open(r) \/ FolderDeleted(r)
  PROVE  Inv'
<1> USE DEF Inv
<1>0. UNCHANGED <<store, origin, deletions, abandoned>>
  BY DEF DeleteRow, CheckExists, Open, FolderDeleted
<1>1. Duties(r) = {}
  BY DEF Duties, DeleteRow, CheckExists, Open, FolderDeleted, End, Goto
<1>2. CASE \E from : End(r, from)
  <2>1. /\ pc' \in [Requests -> Labels] /\ job' \in [Requests -> Jobs] /\ pc'[r] = "idle"
        /\ \A s \in Requests \ {r} : pc'[s] = pc[s] /\ job'[s] = job[s]
    BY <1>2, EndShape
  <2>2. Shape' /\ ~Uploading(r)' /\ Found(r)'
    BY <1>0, <2>1 DEF Shape, Uploading, Found, store, deletions
  <2> QED
    BY <1>0, <1>1, <2>1, <2>2, QuietStep
<1>3. CASE Goto(r, "exists", "open") /\ UNCHANGED job
  <2>1. "open" \in Labels
    BY DEF Labels
  <2>2. /\ pc' \in [Requests -> Labels] /\ pc[r] = "exists" /\ pc'[r] = "open"
        /\ \A s \in Requests \ {r} : pc'[s] = pc[s]
    BY <1>3, <2>1, GotoShape
  <2>3. Shape' /\ ~Uploading(r)' /\ Found(r)'
    BY <1>0, <1>3, <2>2 DEF Shape, Uploading, Found, Known, store, deletions
  <2> QED
    BY <1>0, <1>1, <1>3, <2>2, <2>3, QuietStep
<1> QED
  BY <1>2, <1>3 DEF DeleteRow, CheckExists, Open, FolderDeleted

-----------------------------------------------------------------------------
(* The steps of an upload.                                                 *)

LEMMA StartUploadStep ==
  ASSUME Inv, NEW r \in Requests, NEW user \in Users, NEW path \in Destinations,
         StartUpload(r, user, path)
  PROVE  Inv'
<1> USE DEF Inv, store, deletions
<1>1. PICK id \in Ids :
        /\ origin[id] = "unused"
        /\ origin' = [origin EXCEPT ![id] = "upload"]
        /\ Start(r, "create", Job(user, path, id))
        /\ UNCHANGED <<store, deletions, abandoned>>
  BY DEF StartUpload
<1>2. Job(user, path, id) \in Jobs /\ Job(user, path, id).id = id /\ Job(user, path, id).user = user
  BY Constants, JobType
<1>3. "create" \in Labels
  BY DEF Labels
<1>4. /\ pc' \in [Requests -> Labels] /\ job' \in [Requests -> Jobs]
      /\ pc[r] = "idle" /\ pc'[r] = "create" /\ job'[r] = Job(user, path, id)
      /\ \A s \in Requests \ {r} : pc'[s] = pc[s] /\ job'[s] = job[s]
      /\ Duties(r) = {}
  BY <1>1, <1>2, <1>3, StartShape
<1>5. Shape'
  BY <1>1, <1>4 DEF Shape
<1>6. ~Known(id) /\ disk[id] = "none" /\ origin'[id] = "upload"
      /\ \A i \in Ids \ {id} : origin'[i] = origin[i]
  BY <1>1 DEF Sound, Shape
<1>7. \A i \in Ids : Known(i)' <=> Known(i)
  BY <1>1 DEF Known
<1>8. \A i \in Ids : Sound(i)'
  BY <1>1, <1>6, <1>7 DEF Sound, Known
<1>9. Uploads(r)' /\ Found(r)'
  BY <1>1, <1>2, <1>4, <1>6, <1>7 DEF Uploads, Found
<1>10. Uploading(r)' => origin[job'[r].id] = "unused"
  BY <1>1, <1>2, <1>4
<1>11. \A i \in Ids : ~Known(i) /\ origin[i] = "upload" =>
         ~Known(i)' /\ origin'[i] = "upload" /\ disk'[i] = disk[i]
  BY <1>1, <1>6, <1>7
<1> QED
  BY <1>1, <1>4, <1>5, <1>7, <1>8, <1>9, <1>10, <1>11, OneRequest

LEMMA CreateMetadataStep ==
  ASSUME Inv, NEW r \in Requests, NEW user \in Users, NEW path \in Destinations,
         CreateMetadata(r, user, path)
  PROVE  Inv'
<1> USE DEF Inv, store, deletions, thread
<1> DEFINE row == [user |-> user, path |-> path]
<1>1. PICK id \in Ids :
        /\ pc[r] = "idle" /\ origin[id] = "unused"
        /\ origin' = [origin EXCEPT ![id] = "metadata"]
        /\ rows' = [rows EXCEPT ![id] = row]
        /\ UNCHANGED <<disk, thread, deletions, abandoned>>
  BY DEF CreateMetadata
<1>2. row \in Row /\ row # NoRow
  BY Constants DEF Row
<1> HIDE DEF row
<1>3. Shape'
  BY <1>1, <1>2 DEF Shape
<1>4. ~Known(id) /\ disk[id] = "none" /\ origin'[id] = "metadata" /\ rows'[id] = row
      /\ \A i \in Ids \ {id} : origin'[i] = origin[i] /\ rows'[i] = rows[i]
  BY <1>1 DEF Sound, Shape
<1>5. \A i \in Ids : (Known(i)' <=> Known(i) \/ i = id)
  BY <1>1, <1>2, <1>4 DEF Known
<1>6. \A i \in Ids : Sound(i)'
  BY <1>1, <1>2, <1>4, <1>5 DEF Sound, Known
<1>7. ~Uploading(r)' /\ Uploads(r)' /\ Found(r)' /\ Duties(r) = {}
  BY <1>1 DEF Uploads, Uploading, Found, Duties
<1>8. \A i \in Ids : ~Known(i) /\ origin[i] = "upload" =>
        ~Known(i)' /\ origin'[i] = "upload" /\ disk'[i] = disk[i]
  BY <1>1, <1>4, <1>5
<1>9. \A i \in Ids : rows'[i] = NoRow /\ disk'[i] # "none" => rows[i] = NoRow /\ disk[i] # "none"
  BY <1>1, <1>2, <1>4
<1> QED
  BY <1>1, <1>3, <1>5, <1>6, <1>7, <1>8, <1>9, OneRequest

LEMMA CopyStep ==
  ASSUME Inv, NEW r \in Requests, CreateFile(r) \/ FinishCopy(r)
  PROVE  Inv'
<1> USE DEF Inv, deletions
<1> DEFINE id == job[r].id
<1>1. PICK to \in {"copy", "insert"} :
        /\ Uploading(r) /\ Goto(r, pc[r], to)
        /\ disk' = [disk EXCEPT ![id] = IF to = "copy" THEN "partial" ELSE "whole"]
        /\ UNCHANGED <<rows, job, origin, deletions, abandoned>>
  BY DEF CreateFile, FinishCopy, Goto, Uploading
<1>2. id \in Ids /\ ~Known(id) /\ origin[id] = "upload" /\ job[r].user \in Users
  BY <1>1 DEF Uploads
<1>3. /\ pc' \in [Requests -> Labels] /\ pc'[r] = to
      /\ \A s \in Requests \ {r} : pc'[s] = pc[s] /\ job'[s] = job[s]
  BY <1>1, GotoShape DEF Labels
<1>4. /\ disk'[id] = IF to = "copy" THEN "partial" ELSE "whole"
      /\ \A i \in Ids \ {id} : disk'[i] = disk[i]
  BY <1>1, <1>2 DEF Shape
<1>5. Shape'
  BY <1>1, <1>3 DEF Shape
<1>6. \A i \in Ids : Known(i)' <=> Known(i)
  BY <1>1 DEF Known
<1>7. \A i \in Ids : Sound(i)'
  BY <1>1, <1>2, <1>4, <1>6 DEF Sound, Known
<1>8. Uploads(r)' /\ Found(r)'
  BY <1>1, <1>2, <1>3, <1>4, <1>6 DEF Uploads, Found
<1>9. \A i \in Ids : rows'[i] = NoRow /\ disk'[i] # "none" =>
        \/ rows[i] = NoRow /\ disk[i] # "none" /\ i \notin Duties(r)
        \/ i \in Duties(r)'
  BY <1>1, <1>3, <1>4 DEF Duties, Uploading
<1>10. \A i \in Ids : ~Known(i) /\ origin[i] = "upload" =>
         \/ Uploading(r) /\ i = job[r].id
         \/ ~Known(i)' /\ origin'[i] = "upload" /\ disk'[i] = disk[i]
  BY <1>1, <1>4, <1>6
<1> QED
  BY <1>1, <1>3, <1>5, <1>6, <1>7, <1>8, <1>9, <1>10, OneRequest

LEMMA InsertRowStep == ASSUME Inv, NEW r \in Requests, InsertRow(r) PROVE Inv'
<1> USE DEF Inv, deletions
<1> DEFINE id == job[r].id
           row == [user |-> job[r].user, path |-> job[r].path]
<1>1. /\ End(r, "insert") /\ rows' = [rows EXCEPT ![id] = row]
      /\ UNCHANGED <<disk, origin, deletions, abandoned>>
  BY DEF InsertRow
<1>2. /\ pc' \in [Requests -> Labels] /\ job' \in [Requests -> Jobs]
      /\ pc[r] = "insert" /\ pc'[r] = "idle"
      /\ \A s \in Requests \ {r} : pc'[s] = pc[s] /\ job'[s] = job[s]
  BY <1>1, EndShape
<1>3. /\ Uploading(r) /\ id \in Ids /\ ~Known(id) /\ origin[id] = "upload" /\ disk[id] = "whole"
      /\ job[r].user \in Users /\ job[r].path \in Seq(Names)
  BY <1>2 DEF Uploads, Uploading, Shape, Jobs
<1>4. row \in Row /\ row # NoRow
  BY <1>3, Constants DEF Row
<1> HIDE DEF row
<1>5. Shape'
  BY <1>1, <1>2, <1>4 DEF Shape
<1>6. rows'[id] = row /\ \A i \in Ids \ {id} : rows'[i] = rows[i]
  BY <1>1, <1>3 DEF Shape
<1>7. \A i \in Ids : Known(i)' <=> Known(i) \/ i = id
  BY <1>1, <1>4, <1>6 DEF Known
<1>8. \A i \in Ids : Sound(i)'
  BY <1>1, <1>3, <1>4, <1>6, <1>7 DEF Sound, Known
<1>9. ~Uploading(r)' /\ Uploads(r)' /\ Found(r)' /\ Duties(r) = {id}
  BY <1>2 DEF Uploads, Uploading, Found, Duties
<1>10. \A i \in Ids : rows'[i] = NoRow /\ disk'[i] # "none" =>
         rows[i] = NoRow /\ disk[i] # "none" /\ i \notin Duties(r)
  BY <1>1, <1>4, <1>6, <1>9
<1>11. \A i \in Ids : ~Known(i) /\ origin[i] = "upload" =>
         \/ Uploading(r) /\ i = job[r].id
         \/ ~Known(i)' /\ origin'[i] = "upload" /\ disk'[i] = disk[i]
  BY <1>1, <1>3, <1>7
<1> QED
  BY <1>1, <1>2, <1>5, <1>7, <1>8, <1>9, <1>10, <1>11, OneRequest

-----------------------------------------------------------------------------
(* The steps of a delete.                                                  *)

LEMMA DeleteRowStep ==
  ASSUME Inv, NEW r \in Requests, DeleteRow(r), rows[job[r].id] # NoRow
  PROVE  Inv'
<1> USE DEF Inv
<1> DEFINE id == job[r].id
<1>1. /\ Goto(r, "deleteRow", "unlink")
      /\ job' = [job EXCEPT ![r].deleted = 1]
      /\ rows' = [rows EXCEPT ![id] = NoRow]
      /\ removed' = removed \cup {id}
      /\ UNCHANGED <<disk, origin, slipped, escaped, abandoned>>
  BY DEF DeleteRow
<1>2. /\ pc' \in [Requests -> Labels] /\ pc[r] = "deleteRow" /\ pc'[r] = "unlink"
      /\ \A s \in Requests \ {r} : pc'[s] = pc[s]
  BY <1>1, GotoShape DEF Labels
<1>3. id \in Ids /\ Known(id)
  BY <1>2 DEF Found
<1>4. job' \in [Requests -> Jobs] /\ job'[r].id = id
      /\ \A s \in Requests \ {r} : job'[s] = job[s]
  BY <1>1 DEF Shape, Jobs
<1>5. Shape'
  BY <1>1, <1>2, <1>3, <1>4 DEF Shape
<1>6. rows'[id] = NoRow /\ \A i \in Ids \ {id} : rows'[i] = rows[i]
  BY <1>1, <1>3 DEF Shape
<1>7. \A i \in Ids : Known(i)' <=> Known(i)
  BY <1>1, <1>3, <1>6 DEF Known
<1>8. \A i \in Ids : Sound(i)'
  BY <1>1, <1>3, <1>6, <1>7 DEF Sound, Known
<1>9. ~Uploading(r)' /\ Uploads(r)' /\ Found(r)' /\ Duties(r)' = {id}
  BY <1>1, <1>2, <1>3, <1>4, <1>7 DEF Uploads, Uploading, Found, Duties
<1>10. \A i \in Ids : rows'[i] = NoRow /\ disk'[i] # "none" =>
         \/ rows[i] = NoRow /\ disk[i] # "none" /\ i \notin Duties(r)
         \/ i \in Duties(r)'
  BY <1>1, <1>2, <1>6, <1>9 DEF Duties
<1>11. \A i \in Ids : ~Known(i) /\ origin[i] = "upload" =>
         ~Known(i)' /\ origin'[i] = "upload" /\ disk'[i] = disk[i]
  BY <1>1, <1>7
<1> QED
  BY <1>1, <1>2, <1>4, <1>5, <1>7, <1>8, <1>9, <1>10, <1>11, OneRequest

LEMMA UnlinkStep == ASSUME Inv, NEW r \in Requests, Unlink(r) PROVE Inv'
<1> USE DEF Inv, deletions
<1> DEFINE id == job[r].id
<1>1. /\ End(r, "unlink") /\ disk' = [disk EXCEPT ![id] = "none"]
      /\ UNCHANGED <<rows, origin, deletions, abandoned>>
  BY DEF Unlink
<1>2. /\ pc' \in [Requests -> Labels] /\ job' \in [Requests -> Jobs]
      /\ pc[r] = "unlink" /\ pc'[r] = "idle"
      /\ \A s \in Requests \ {r} : pc'[s] = pc[s] /\ job'[s] = job[s]
  BY <1>1, EndShape
<1>3. id \in removed /\ id \in Ids /\ Known(id) /\ rows[id] = NoRow
  BY <1>2 DEF Found, Known, Sound
<1>4. Shape' /\ disk'[id] = "none" /\ \A i \in Ids \ {id} : disk'[i] = disk[i]
  BY <1>1, <1>2, <1>3 DEF Shape
<1>5. \A i \in Ids : Known(i)' <=> Known(i)
  BY <1>1 DEF Known
<1>6. \A i \in Ids : Sound(i)'
  BY <1>1, <1>3, <1>4, <1>5 DEF Sound, Known
<1>7. ~Uploading(r)' /\ Uploads(r)' /\ Found(r)' /\ Duties(r) = {id}
  BY <1>2 DEF Uploads, Uploading, Found, Duties
<1>8. \A i \in Ids : rows'[i] = NoRow /\ disk'[i] # "none" =>
        rows[i] = NoRow /\ disk[i] # "none" /\ i \notin Duties(r)
  BY <1>1, <1>4, <1>7
<1>9. \A i \in Ids : ~Known(i) /\ origin[i] = "upload" =>
        ~Known(i)' /\ origin'[i] = "upload" /\ disk'[i] = disk[i]
  BY <1>1, <1>3, <1>4, <1>5
<1> QED
  BY <1>1, <1>2, <1>4, <1>5, <1>6, <1>7, <1>8, <1>9, OneRequest

LEMMA DeleteRowsStep == ASSUME Inv, NEW r \in Requests, DeleteRows(r) PROVE Inv'
<1> USE DEF Inv
<1> DEFINE doomed == RowsIn(job[r].user, job[r].path)
           targets == job[r].targets
<1>1. /\ Goto(r, "deleteRows", "unlinkAll")
      /\ job' = [job EXCEPT ![r].deleted = Cardinality(doomed)]
      /\ rows' = [id \in Ids |-> IF id \in doomed THEN NoRow ELSE rows[id]]
      /\ removed' = removed \cup doomed
      /\ slipped' = slipped \cup (doomed \ targets)
      /\ escaped' = escaped \cup (targets \cap (Present \ doomed))
      /\ UNCHANGED <<disk, origin, abandoned>>
  BY DEF DeleteRows
<1>2. /\ pc' \in [Requests -> Labels] /\ pc[r] = "deleteRows" /\ pc'[r] = "unlinkAll"
      /\ \A s \in Requests \ {r} : pc'[s] = pc[s]
  BY <1>1, GotoShape DEF Labels
<1>3. doomed \subseteq Ids /\ \A id \in doomed : rows[id] # NoRow
  BY DEF RowsIn, Present
<1>4. Cardinality(doomed) \in Nat
  BY <1>3, Constants, FS_Subset, FS_CardinalityType
<1> HIDE DEF doomed
<1>5. job' \in [Requests -> Jobs] /\ job'[r].id = job[r].id /\ job'[r].targets = targets
      /\ \A s \in Requests \ {r} : job'[s] = job[s]
  BY <1>1, <1>4 DEF Shape, Jobs
<1>6. targets \subseteq Ids /\ \A id \in targets : Known(id)
  BY <1>2 DEF Shape, Jobs, Found
<1>7. Shape'
  BY <1>1, <1>2, <1>3, <1>5, <1>6 DEF Shape
<1>8. \A i \in Ids : Known(i)' <=> Known(i)
  BY <1>1, <1>3 DEF Known
<1>9. \A i \in Ids : Sound(i)'
  BY <1>1, <1>3, <1>8 DEF Sound, Known, Present
<1>10. Duties(r) = {} /\ Duties(r)' = targets
  BY <1>2, <1>5 DEF Duties
<1>11. targets \subseteq removed' \cup escaped'
  BY <1>1, <1>6 DEF Known, Present
<1>12. ~Uploading(r)' /\ Uploads(r)' /\ Found(r)'
  BY <1>2, <1>5, <1>11 DEF Uploads, Uploading, Found
<1>13. \A i \in Ids : rows'[i] = NoRow /\ disk'[i] # "none" =>
         \/ rows[i] = NoRow /\ disk[i] # "none" /\ i \notin Duties(r)
         \/ i \in Duties(r)' \cup abandoned' \cup slipped'
  BY <1>1, <1>3, <1>10
<1>14. \A i \in Ids : ~Known(i) /\ origin[i] = "upload" =>
         ~Known(i)' /\ origin'[i] = "upload" /\ disk'[i] = disk[i]
  BY <1>1, <1>8
<1> QED
  BY <1>1, <1>2, <1>5, <1>7, <1>8, <1>9, <1>12, <1>13, <1>14, OneRequest

LEMMA UnlinkOneStep == ASSUME Inv, NEW r \in Requests, UnlinkOne(r) PROVE Inv'
<1> USE DEF Inv, deletions
<1>1. PICK id \in job[r].targets :
        /\ disk' = [disk EXCEPT ![id] = "none"]
        /\ job' = [job EXCEPT ![r].targets = job[r].targets \ {id}]
  BY DEF UnlinkOne
<1>2. /\ Goto(r, "unlinkAll", "unlinkAll")
      /\ UNCHANGED <<rows, origin, deletions, abandoned>>
  BY DEF UnlinkOne
<1>3. /\ pc' \in [Requests -> Labels] /\ pc[r] = "unlinkAll" /\ pc'[r] = "unlinkAll"
      /\ \A s \in Requests \ {r} : pc'[s] = pc[s]
  BY <1>2, GotoShape DEF Labels
<1>4. /\ job' \in [Requests -> Jobs] /\ job'[r].id = job[r].id
      /\ job'[r].targets = job[r].targets \ {id}
      /\ \A s \in Requests \ {r} : job'[s] = job[s]
  BY <1>1 DEF Shape, Jobs
<1>5. id \in Ids /\ id \in removed \cup escaped /\ Known(id)
  BY <1>3 DEF Shape, Jobs, Found, Sound, Known
<1>6. Shape' /\ disk'[id] = "none" /\ \A i \in Ids \ {id} : disk'[i] = disk[i]
  BY <1>1, <1>2, <1>3, <1>4, <1>5 DEF Shape
<1>7. \A i \in Ids : Known(i)' <=> Known(i)
  BY <1>2 DEF Known
<1>8. \A i \in Ids : Sound(i)'
  BY <1>2, <1>5, <1>6, <1>7 DEF Sound, Known
<1>9. ~Uploading(r)' /\ Uploads(r)' /\ Found(r)' /\ Duties(r) = job[r].targets
      /\ Duties(r)' = job[r].targets \ {id}
  BY <1>2, <1>3, <1>4 DEF Uploads, Uploading, Found, Duties
<1>10. \A i \in Ids : rows'[i] = NoRow /\ disk'[i] # "none" =>
         \/ rows[i] = NoRow /\ disk[i] # "none" /\ i \notin Duties(r)
         \/ i \in Duties(r)'
  BY <1>2, <1>6, <1>9
<1>11. \A i \in Ids : ~Known(i) /\ origin[i] = "upload" =>
         ~Known(i)' /\ origin'[i] = "upload" /\ disk'[i] = disk[i]
  BY <1>2, <1>5, <1>6, <1>7 DEF Known
<1> QED
  BY <1>2, <1>3, <1>4, <1>6, <1>7, <1>8, <1>9, <1>10, <1>11, OneRequest

-----------------------------------------------------------------------------
(* The steps of a move.                                                    *)

(* A statement that gives rows other paths.                                *)
LEMMA PathsStep ==
  ASSUME Inv, NEW r \in Requests, Shape',
         \A s \in Requests \ {r} : pc'[s] = pc[s] /\ job'[s] = job[s],
         \A id \in Ids : rows'[id] = NoRow <=> rows[id] = NoRow,
         ~Uploading(r)', Found(r)', Duties(r) = {},
         UNCHANGED <<disk, origin, deletions, abandoned>>
  PROVE  Inv'
<1> USE DEF Inv, deletions
<1>1. \A id \in Ids : Sound(id)' /\ (Known(id)' <=> Known(id))
  BY DEF Sound, Known
<1>2. Uploads(r)'
  BY DEF Uploads
<1>3. \A id \in Ids : ~Known(id) /\ origin[id] = "upload" =>
        ~Known(id)' /\ origin'[id] = "upload" /\ disk'[id] = disk[id]
  BY <1>1
<1> QED
  BY <1>1, <1>2, <1>3, OneRequest

LEMMA RebasedType ==
  ASSUME NEW path \in Seq(Names), NEW from \in Folders, NEW to \in Folders,
         path = from \/ Matches(from, path)
  PROVE  Rebased(path, from, to) \in Seq(Names)
<1>1. from \in Seq(Names) /\ to \in Seq(Names)
  BY Constants
<1>2. Len(from) \in Nat /\ Len(path) \in Nat /\ Len(from) <= Len(path)
  BY <1>1, LenProperties DEF Matches
<1>3. SubSeq(path, Len(from) + 1, Len(path)) \in Seq(Names)
  BY <1>2, SubSeqProperties
<1> QED
  BY <1>1, <1>3, ConcatProperties DEF Rebased

LEMMA MoveFolderStep ==
  ASSUME Inv, NEW r \in Requests, NEW from \in Folders, NEW to \in Folders, MoveFolder(r, from, to)
  PROVE  Inv'
<1> USE DEF Inv, thread
<1> DEFINE moved == {id \in Present : rows[id].path = from \/ Matches(from, rows[id].path)}
<1>1. /\ pc[r] = "idle"
      /\ rows' = [id \in Ids |->
           IF id \in moved THEN [rows[id] EXCEPT !.path = Rebased(rows[id].path, from, to)]
           ELSE rows[id]]
      /\ UNCHANGED <<disk, thread, origin, deletions, abandoned>>
  BY DEF MoveFolder
<1>2. ASSUME NEW id \in Ids
      PROVE  /\ rows'[id] \in Row \cup {NoRow}
             /\ rows'[id] = NoRow <=> rows[id] = NoRow
  <2>1. CASE id \in moved
    <3>1. rows[id] \in Row /\ rows[id].path \in Seq(Names)
      BY <2>1 DEF Present, Shape, Row
    <3>2. Rebased(rows[id].path, from, to) \in Seq(Names)
      BY <2>1, <3>1, RebasedType
    <3>3. rows'[id] = [rows[id] EXCEPT !.path = Rebased(rows[id].path, from, to)]
      BY <1>1, <2>1
    <3>4. rows'[id] \in Row
      BY <3>1, <3>2, <3>3 DEF Row
    <3> QED
      BY <3>1, <3>4, Constants
  <2>2. CASE id \notin moved
    BY <1>1, <2>2 DEF Shape
  <2> QED
    BY <2>1, <2>2
<1> HIDE DEF moved
<1>3. Shape'
  BY <1>1, <1>2 DEF Shape, deletions
<1>4. ~Uploading(r)' /\ Found(r)' /\ Duties(r) = {}
  BY <1>1 DEF Uploading, Found, Duties
<1> QED
  BY <1>1, <1>2, <1>3, <1>4, PathsStep

LEMMA UpdatePathStep == ASSUME Inv, NEW r \in Requests, UpdatePath(r) PROVE Inv'
<1> USE DEF Inv
<1> DEFINE id == job[r].id
<1>1. /\ End(r, "update")
      /\ rows' = IF rows[id] = NoRow THEN rows ELSE [rows EXCEPT ![id].path = job[r].path]
      /\ UNCHANGED <<disk, origin, deletions, abandoned>>
  BY DEF UpdatePath
<1>2. /\ pc' \in [Requests -> Labels] /\ job' \in [Requests -> Jobs]
      /\ pc[r] = "update" /\ pc'[r] = "idle"
      /\ \A s \in Requests \ {r} : pc'[s] = pc[s] /\ job'[s] = job[s]
  BY <1>1, EndShape
<1>3. id \in Ids /\ job[r].path \in Seq(Names)
  BY <1>2 DEF Found, Shape, Jobs
<1>4. /\ rows' \in [Ids -> Row \cup {NoRow}]
      /\ \A i \in Ids : rows'[i] = NoRow <=> rows[i] = NoRow
  <2>1. CASE rows[id] = NoRow
    BY <1>1, <2>1 DEF Shape
  <2>2. CASE rows[id] # NoRow
    <3>1. rows[id] \in Row
      BY <1>3, <2>2 DEF Shape
    <3>2. [rows[id] EXCEPT !.path = job[r].path] \in Row
      BY <1>3, <3>1 DEF Row
    <3>3. rows' = [rows EXCEPT ![id] = [rows[id] EXCEPT !.path = job[r].path]]
      BY <1>1, <2>2
    <3> QED
      BY <1>3, <2>2, <3>2, <3>3, Constants DEF Shape
  <2> QED
    BY <2>1, <2>2
<1>5. Shape'
  BY <1>1, <1>2, <1>4 DEF Shape, deletions
<1>6. ~Uploading(r)' /\ Found(r)' /\ Duties(r) = {}
  BY <1>2 DEF Uploading, Found, Duties
<1> QED
  BY <1>1, <1>2, <1>4, <1>5, <1>6, PathsStep

-----------------------------------------------------------------------------
(* Requests fail, or die.                                                  *)
LEMMA EndedStep ==
  ASSUME Inv, NEW dead \in SUBSET Requests, Ended(dead)
  PROVE  Inv'
<1> USE DEF Inv, store, deletions
<1>1. /\ pc' = [r \in Requests |-> IF r \in dead THEN "idle" ELSE pc[r]]
      /\ job' = [r \in Requests |-> IF r \in dead THEN Idle ELSE job[r]]
      /\ abandoned' = abandoned \cup UNION {Duties(r) : r \in dead}
      /\ UNCHANGED <<store, origin, deletions>>
  BY DEF Ended
<1>2. ASSUME NEW r \in Requests PROVE Duties(r) \subseteq Ids
  <2>1. job[r] \in Jobs
    BY DEF Shape
  <2> QED
    BY <2>1 DEF Duties, Uploads, Uploading, Found, Jobs
<1>3. Shape'
  BY <1>1, <1>2, IdleType DEF Shape, Labels
<1>4. \A id \in Ids : Sound(id)' /\ (Known(id)' <=> Known(id))
  BY <1>1 DEF Sound, Known
<1>5. ASSUME NEW r \in Requests PROVE Uploads(r)' /\ Found(r)'
  <2>1. CASE r \in dead
    <3>1. pc'[r] = "idle"
      BY <1>1, <2>1
    <3> QED
      BY <3>1 DEF Uploads, Uploading, Found
  <2>2. CASE r \notin dead
    <3>1. pc'[r] = pc[r] /\ job'[r] = job[r]
      BY <1>1, <2>2
    <3> QED
      BY <1>1, <3>1 DEF Uploads, Uploading, Found, Known
  <2> QED
    BY <2>1, <2>2
<1>6. OneUploadPerId'
  BY <1>1 DEF OneUploadPerId, Uploading
<1>7. Orphans'
  <2> SUFFICES ASSUME NEW id \in Ids, rows'[id] = NoRow, disk'[id] # "none"
               PROVE  (\E s \in Requests : id \in Duties(s)') \/ id \in abandoned' \/ id \in slipped'
    BY DEF Orphans
  <2>1. (\E s \in Requests : id \in Duties(s)) \/ id \in abandoned \/ id \in slipped
    BY <1>1 DEF Orphans
  <2>2. ASSUME NEW s \in Requests, id \in Duties(s) PROVE id \in Duties(s)' \/ id \in abandoned'
    <3>1. CASE s \in dead
      BY <1>1, <2>2, <3>1
    <3>2. CASE s \notin dead
      <4>1. pc'[s] = pc[s] /\ job'[s] = job[s]
        BY <1>1, <3>2
      <4> QED
        BY <2>2, <4>1 DEF Duties
    <3> QED
      BY <3>1, <3>2
  <2> QED
    BY <1>1, <2>1, <2>2
<1> QED
  BY <1>3, <1>4, <1>5, <1>6, <1>7

LEMMA InvStep == Inv /\ [Next]_vars => Inv'
<1> SUFFICES ASSUME Inv, [Next]_vars PROVE Inv'
  OBVIOUS
<1>1. CASE UNCHANGED vars
  BY <1>1 DEF vars, store, thread, deletions, answers, Inv, Shape, OneUploadPerId, Orphans, Sound,
     Known, Uploads, Uploading, Found, Duties
<1>2. CASE Crash
  <2>1. Requests \in SUBSET Requests
    OBVIOUS
  <2> QED
    BY <1>2, <2>1, EndedStep DEF Crash
<1>3. ASSUME NEW r \in Requests, Throw(r) PROVE Inv'
  <2>1. {r} \in SUBSET Requests
    OBVIOUS
  <2> QED
    BY <1>3, <2>1, EndedStep DEF Throw
<1>4. ASSUME NEW r \in Requests, Step(r) PROVE Inv'
  BY <1>4, CopyStep, InsertRowStep, DeleteRowStep, UnlinkStep, DeleteRowsStep, UnlinkOneStep,
     UpdatePathStep, NothingDoneStep DEF Step
<1>5. ASSUME NEW r \in Requests, NEW user \in Users, NEW path \in Destinations,
             StartUpload(r, user, path) \/ CreateMetadata(r, user, path)
      PROVE  Inv'
  BY <1>5, StartUploadStep, CreateMetadataStep
<1>6. ASSUME NEW r \in Requests, NEW id \in Present, FindLatest(r, rows[id].user, rows[id].path)
      PROVE  Inv'
  <2>1. rows[id] \in Row
    BY DEF Present, Inv, Shape
  <2>2. rows[id].user \in Users /\ rows[id].path \in Seq(Names)
    BY <2>1 DEF Row
  <2> QED
    BY <1>6, <2>2, FindLatestStep
<1>7. ASSUME NEW r \in Requests, NEW user \in Users, NEW folder \in Folders,
             ListFolder(r, user, folder)
      PROVE  Inv'
  BY <1>7, ListFolderStep
<1>8. ASSUME NEW r \in Requests, NEW from \in Folders, NEW to \in Folders, MoveFolder(r, from, to)
      PROVE  Inv'
  BY <1>8, MoveFolderStep
<1>9. ASSUME NEW r \in Requests, NEW id \in Ids, NEW path \in Destinations, FindForMove(r, id, path)
      PROVE  Inv'
  BY <1>9, FindForMoveStep
<1>10. ASSUME NEW r \in Requests, NEW id \in Ids, NEW next \in {"exists", "open"},
              FindInfo(r, id, next)
       PROVE  Inv'
  BY <1>10, FindInfoStep
<1> QED
  BY <1>1, <1>2, <1>3, <1>4, <1>5, <1>6, <1>7, <1>8, <1>9, <1>10 DEF Next

LEMMA InvAlways == Spec => []Inv
BY InvInit, InvStep, PTL DEF Spec

(* uploadFile stores the file before the row, and deleteFile removes the   *)
(* row before the file: a row has its file, after every failure and every  *)
(* restart.                                                                *)
THEOREM RowsHaveFiles == Spec => []RowHasFile
<1>1. Inv => RowHasFile
  BY DEF Inv, Sound, RowHasFile, Present
<1> QED
  BY <1>1, InvAlways, PTL

(* There are no orphans on the disk but those of a request under way,      *)
(* those that a failure left, and those that deleteFolder did not list.    *)
THEOREM FilesHaveRows == Spec => []FileHasRow
<1>1. Inv => FileHasRow
  <2> SUFFICES ASSUME Inv, NEW id \in Ids \ Present, disk[id] # "none"
               PROVE  id \in (UNION {Duties(r) : r \in Requests}) \cup abandoned \cup slipped
    BY DEF FileHasRow
  <2>1. (\E r \in Requests : id \in Duties(r)) \/ id \in abandoned \/ id \in slipped
    BY DEF Inv, Orphans, Present
  <2> QED
    BY <2>1
<1> QED
  BY <1>1, InvAlways, PTL

(* Since the row is inserted last, nobody who looked up a row downloads a  *)
(* part of a file, however long ago the look-up was.                       *)
THEOREM DownloadsAreWhole == Spec => []NoPartialDownload
<1>1. Inv => NoPartialDownload
  BY DEF Inv, Sound, Found, NoPartialDownload
<1> QED
  BY <1>1, InvAlways, PTL

(* What deleteFile or deleteFolder has deleted remains so: an UPDATE of a  *)
(* move that comes late brings no row back.                                *)
THEOREM DeletedForGood == Spec => []DeletedStaysDeleted
<1>1. Inv => DeletedStaysDeleted
  BY DEF Inv, Sound, DeletedStaysDeleted, Present
<1> QED
  BY <1>1, InvAlways, PTL
-----------------------------------------------------------------------------
(* The rows that a request has deleted, and of which nobody knows as yet.  *)
Owed == [r \in Requests |-> job[r].deleted]

(* Whoever deletes rows owes an answer that says so, until it gives it or  *)
(* fails.                                                                  *)
Told ==
  /\ announced \in Nat /\ unannounced \in Nat
  /\ \A r \in Requests : pc[r] \notin {"unlink", "unlinkAll"} => job[r].deleted = 0
  /\ announced + unannounced + SumOf(Owed, Requests) = Cardinality(removed)

LEMMA OwedType ==
  ASSUME Shape
  PROVE  \A r \in Requests : Owed[r] = job[r].deleted /\ Owed[r] \in Nat
<1> SUFFICES ASSUME NEW r \in Requests PROVE Owed[r] = job[r].deleted /\ Owed[r] \in Nat
  OBVIOUS
<1>1. job[r] \in Jobs
  BY DEF Shape
<1> QED
  BY <1>1 DEF Owed, Jobs

(* The sum of DeletesAnnouncedOnce, which names no function, is of Owed.   *)
LEMMA OwedIsASum ==
  ASSUME Shape, NEW D \in SUBSET Requests
  PROVE  MapThenSumSet(LAMBDA r : job[r].deleted, D) = SumOf(Owed, D)
<1> DEFINE Solves(h) ==
      h = [s \in SUBSET D |->
             IF s = {} THEN 0 ELSE job[Chosen(s)].deleted + h[s \ {Chosen(s)}]]
<1>1. IsFiniteSet(D) /\ \A r \in D : Owed[r] = job[r].deleted /\ Owed[r] \in Nat
  BY StoreAssumption, FS_Subset, OwedType
<1>2. PICK g \in [SUBSET D -> Nat] : SolvesSum(Owed, g, SUBSET D)
  BY <1>1, SumsExist
<1>3. \A s \in SUBSET D : s # {} => Chosen(s) \in D
  BY DEF Chosen
<1>4. \A h : Solves(h) => SolvesSum(Owed, h, SUBSET D)
  BY <1>1, <1>3 DEF SolvesSum
<1>5. Solves(g)
  BY <1>1, <1>2, <1>3 DEF SolvesSum
<1>6. \A h : Solves(h) => h = g
  BY <1>1, <1>2, <1>4, SumIsUnique
<1>7. MapThenSumSet(LAMBDA r : job[r].deleted, D) = g[D]
  BY <1>5, <1>6 DEF MapThenSumSet, MapThenFoldSet, Chosen
<1> QED
  BY <1>1, <1>2, <1>7, SumIsSolution

(* What one request deletes, answers, or still owes.                       *)
LEMMA ToldStep ==
  ASSUME Inv, Told, Shape', NEW r \in Requests,
         \A s \in Requests \ {r} : pc'[s] = pc[s] /\ job'[s] = job[s],
         pc'[r] \notin {"unlink", "unlinkAll"} => job'[r].deleted = 0,
         announced' \in Nat, unannounced' = unannounced,
         announced' + job'[r].deleted + Cardinality(removed)
           = announced + job[r].deleted + Cardinality(removed')
  PROVE  Told'
<1>1. /\ \A s \in Requests : Owed[s] = job[s].deleted /\ Owed[s] \in Nat
      /\ \A s \in Requests : Owed'[s] = job'[s].deleted /\ Owed'[s] \in Nat
  <2>1. \A s \in Requests : Owed[s] = job[s].deleted /\ Owed[s] \in Nat
    BY OwedType DEF Inv
  <2>2. \A s \in Requests : job'[s].deleted \in Nat
    <3> SUFFICES ASSUME NEW s \in Requests PROVE job'[s].deleted \in Nat
      OBVIOUS
    <3>1. job'[s] \in Jobs
      BY DEF Shape
    <3> QED
      BY <3>1 DEF Jobs
  <2> QED
    BY <2>1, <2>2 DEF Owed
<1>2. IsFiniteSet(Requests) /\ IsFiniteSet(Requests \ {r})
  BY StoreAssumption, FS_RemoveElement
<1>3. SumOf(Owed, Requests) = Owed[r] + SumOf(Owed, Requests \ {r})
  BY <1>1, <1>2, SumRemove
<1>4. SumOf(Owed', Requests) = Owed'[r] + SumOf(Owed', Requests \ {r})
  BY <1>1, <1>2, SumRemove
<1>5. SumOf(Owed', Requests \ {r}) = SumOf(Owed, Requests \ {r})
  <2>1. \A s \in Requests \ {r} : Owed[s] \in Nat /\ Owed'[s] = Owed[s]
    BY <1>1
  <2> QED
    BY <1>2, <2>1, SumSame
<1>6. SumOf(Owed, Requests \ {r}) \in Nat
  BY <1>1, <1>2, SumType
<1>7. Cardinality(removed) \in Nat /\ Cardinality(removed') \in Nat
  BY Constants, FS_Subset, FS_CardinalityType DEF Inv, Shape
<1>8. SumOf(Owed, Requests)' = SumOf(Owed', Requests)
  OBVIOUS
<1>9. announced' + unannounced' + SumOf(Owed', Requests) = Cardinality(removed')
  BY <1>1, <1>3, <1>4, <1>5, <1>6, <1>7 DEF Told
<1> QED
  BY <1>8, <1>9 DEF Told

(* Requests that delete nothing owe nothing.                               *)
LEMMA QuietTold ==
  ASSUME Inv, Told, Shape', NEW r \in Requests,
         \A s \in Requests \ {r} : pc'[s] = pc[s] /\ job'[s] = job[s],
         job'[r].deleted = job[r].deleted,
         pc[r] \notin {"unlink", "unlinkAll"} \/ pc'[r] = pc[r],
         UNCHANGED <<removed, answers>>
  PROVE  Told'
<1>1. job[r].deleted \in Nat /\ Cardinality(removed) \in Nat
  BY OwedType, Constants, FS_Subset, FS_CardinalityType DEF Inv, Shape
<1>2. pc'[r] \notin {"unlink", "unlinkAll"} => job'[r].deleted = 0
  BY DEF Told
<1> QED
  BY <1>1, <1>2, ToldStep DEF Told, answers

LEMMA QuietSteps ==
  ASSUME Inv, Told, Shape', NEW r \in Requests,
         CreateFile(r) \/ FinishCopy(r) \/ InsertRow(r) \/ UpdatePath(r) \/ CheckExists(r)
           \/ Open(r) \/ UnlinkOne(r)
  PROVE  Told'
<1>0. pc \in [Requests -> Labels] /\ job \in [Requests -> Jobs] /\ Idle.deleted = 0
  BY DEF Inv, Shape, Idle
<1>1. CASE CreateFile(r) \/ FinishCopy(r)
  <2>1. /\ pc'[r] \notin {"unlink", "unlinkAll"} /\ pc[r] \notin {"unlink", "unlinkAll"}
        /\ \A s \in Requests \ {r} : pc'[s] = pc[s] /\ job'[s] = job[s]
        /\ job'[r] = job[r] /\ UNCHANGED <<removed, answers>>
    BY <1>0, <1>1 DEF CreateFile, FinishCopy, Goto, deletions
  <2> QED
    BY <2>1, QuietTold
<1>2. CASE InsertRow(r) \/ UpdatePath(r) \/ Open(r)
  <2>1. /\ pc[r] \notin {"unlink", "unlinkAll"}
        /\ \A s \in Requests \ {r} : pc'[s] = pc[s] /\ job'[s] = job[s]
        /\ job'[r] = Idle /\ UNCHANGED <<removed, answers>>
    BY <1>0, <1>2 DEF InsertRow, UpdatePath, Open, End, Goto, deletions
  <2>2. job[r].deleted = 0
    BY <2>1 DEF Told
  <2> QED
    BY <1>0, <2>1, <2>2, QuietTold
<1>3. CASE CheckExists(r)
  <2>1. /\ pc[r] \notin {"unlink", "unlinkAll"}
        /\ \A s \in Requests \ {r} : pc'[s] = pc[s] /\ job'[s] = job[s]
        /\ job'[r] = Idle \/ job'[r] = job[r]
        /\ UNCHANGED <<removed, answers>>
    BY <1>0, <1>3 DEF CheckExists, End, Goto, deletions
  <2>2. job[r].deleted = 0
    BY <2>1 DEF Told
  <2> QED
    BY <1>0, <2>1, <2>2, QuietTold
<1>4. CASE UnlinkOne(r)
  <2>1. PICK id \in job[r].targets : job' = [job EXCEPT ![r].targets = job[r].targets \ {id}]
    BY <1>4 DEF UnlinkOne
  <2>2. job[r] \in Jobs
    BY <1>0
  <2>3. /\ pc'[r] = pc[r]
        /\ \A s \in Requests \ {r} : pc'[s] = pc[s] /\ job'[s] = job[s]
        /\ job'[r].deleted = job[r].deleted /\ UNCHANGED <<removed, answers>>
    BY <1>0, <1>4, <2>1, <2>2 DEF UnlinkOne, Goto, deletions, Jobs
  <2> QED
    BY <2>3, QuietTold
<1> QED
  BY <1>1, <1>2, <1>3, <1>4

(* A request begins with nothing deleted.                                  *)
LEMMA StartTold ==
  ASSUME Inv, Told, Shape', NEW r \in Requests, NEW to, NEW parameters,
         Start(r, to, parameters), parameters.deleted = 0,
         UNCHANGED <<removed, answers>>
  PROVE  Told'
<1>1. pc \in [Requests -> Labels] /\ job \in [Requests -> Jobs]
  BY DEF Inv, Shape
<1>2. /\ pc[r] = "idle"
      /\ \A s \in Requests \ {r} : pc'[s] = pc[s] /\ job'[s] = job[s]
      /\ job'[r] = parameters
  BY <1>1 DEF Start
<1>3. job[r].deleted = 0
  BY <1>2 DEF Told
<1> QED
  BY <1>2, <1>3, QuietTold

(* deleteFile owes an answer only if its statement deleted the row.        *)
LEMMA DeleteRowTold ==
  ASSUME Inv, Told, Shape', NEW r \in Requests, DeleteRow(r)
  PROVE  Told'
<1>0. pc \in [Requests -> Labels] /\ job \in [Requests -> Jobs] /\ Idle.deleted = 0
  BY DEF Inv, Shape, Idle
<1>1. pc[r] = "deleteRow" /\ job[r].deleted = 0
  BY DEF DeleteRow, Told
<1>2. CASE rows[job[r].id] # NoRow
  <2>1. job[r].id \in Ids /\ job[r].id \notin removed /\ job[r] \in Jobs
    BY <1>0, <1>1, <1>2 DEF Inv, Found, Sound
  <2>2. /\ pc'[r] = "unlink"
        /\ \A s \in Requests \ {r} : pc'[s] = pc[s] /\ job'[s] = job[s]
        /\ job'[r].deleted = 1 /\ removed' = removed \cup {job[r].id} /\ UNCHANGED answers
    BY <1>0, <1>2, <2>1 DEF DeleteRow, Goto, Jobs
  <2>3. /\ Cardinality(removed') = Cardinality(removed) + 1
        /\ Cardinality(removed) \in Nat
    BY <2>1, <2>2, Constants, FS_Subset, FS_CardinalityType, FS_AddElement DEF Inv, Shape
  <2>4. /\ announced' \in Nat /\ unannounced' = unannounced
        /\ announced' + job'[r].deleted + Cardinality(removed)
             = announced + job[r].deleted + Cardinality(removed')
    BY <1>1, <2>2, <2>3 DEF Told, answers
  <2> QED
    BY <2>2, <2>4, ToldStep
<1>3. CASE rows[job[r].id] = NoRow
  <2>1. /\ \A s \in Requests \ {r} : pc'[s] = pc[s] /\ job'[s] = job[s]
        /\ job'[r] = Idle /\ UNCHANGED <<removed, answers>>
    BY <1>0, <1>3 DEF DeleteRow, End, Goto, deletions
  <2> QED
    BY <1>0, <1>1, <2>1, QuietTold
<1> QED
  BY <1>2, <1>3

(* The DELETE of a folder finds rows, and none that was deleted before.    *)
LEMMA DeleteRowsTold ==
  ASSUME Inv, Told, Shape', NEW r \in Requests, DeleteRows(r)
  PROVE  Told'
<1> DEFINE doomed == RowsIn(job[r].user, job[r].path)
<1>0. pc \in [Requests -> Labels] /\ job \in [Requests -> Jobs]
  BY DEF Inv, Shape
<1>1. doomed \subseteq Ids /\ doomed \cap removed = {}
  BY DEF RowsIn, Present, Inv, Sound
<1>2. job[r] \in Jobs
  BY <1>0
<1>3. /\ pc[r] = "deleteRows" /\ pc'[r] = "unlinkAll"
      /\ \A s \in Requests \ {r} : pc'[s] = pc[s] /\ job'[s] = job[s]
      /\ job'[r].deleted = Cardinality(doomed) /\ removed' = removed \cup doomed
      /\ UNCHANGED answers
  BY <1>0, <1>2 DEF DeleteRows, Goto, Jobs
<1>4. job[r].deleted = 0
  BY <1>3 DEF Told
<1>5. IsFiniteSet(doomed) /\ IsFiniteSet(removed)
  BY <1>1, Constants, FS_Subset DEF Inv, Shape
<1>6. /\ Cardinality(removed') = Cardinality(removed) + Cardinality(doomed)
      /\ Cardinality(removed) \in Nat /\ Cardinality(doomed) \in Nat
  <2> HIDE DEF doomed
  <2>1. removed \cap doomed = {} /\ Cardinality({}) = 0
    BY <1>1, FS_EmptySet
  <2>2. Cardinality(removed \cup doomed)
          = Cardinality(removed) + Cardinality(doomed) - Cardinality(removed \cap doomed)
    BY <1>5, FS_Union
  <2>3. Cardinality(removed) \in Nat /\ Cardinality(doomed) \in Nat
    BY <1>5, FS_CardinalityType
  <2>4. Cardinality(removed') = Cardinality(removed \cup doomed)
    BY <1>3
  <2>5. Cardinality(removed \cap doomed) = 0
    BY <2>1
  <2> QED
    BY <2>2, <2>3, <2>4, <2>5
<1> HIDE DEF doomed
<1>7. /\ announced' \in Nat /\ unannounced' = unannounced
      /\ announced' + job'[r].deleted + Cardinality(removed)
           = announced + job[r].deleted + Cardinality(removed')
  BY <1>3, <1>4, <1>6 DEF Told, answers
<1> QED
  BY <1>3, <1>7, ToldStep

(* The answer says what was deleted.                                       *)
LEMMA AnswerTold ==
  ASSUME Inv, Told, Shape', NEW r \in Requests, Unlink(r) \/ FolderDeleted(r)
  PROVE  Told'
<1>0. pc \in [Requests -> Labels] /\ job \in [Requests -> Jobs] /\ Idle.deleted = 0
  BY DEF Inv, Shape, Idle
<1>1. /\ pc'[r] = "idle"
      /\ \A s \in Requests \ {r} : pc'[s] = pc[s] /\ job'[s] = job[s]
      /\ job'[r] = Idle /\ announced' = announced + job[r].deleted
      /\ UNCHANGED <<removed, unannounced>>
  BY <1>0 DEF Unlink, FolderDeleted, End, Goto, deletions
<1>2. job[r].deleted \in Nat /\ Cardinality(removed) \in Nat
  BY OwedType, Constants, FS_Subset, FS_CardinalityType DEF Inv, Shape
<1> QED
  BY <1>0, <1>1, <1>2, ToldStep DEF Told

(* What failed requests owed stays unsaid.                                 *)
LEMMA EndedTold ==
  ASSUME Inv, Told, Shape', NEW dead \in SUBSET Requests, Ended(dead)
  PROVE  Told'
<1>1. /\ pc' = [r \in Requests |-> IF r \in dead THEN "idle" ELSE pc[r]]
      /\ job' = [r \in Requests |-> IF r \in dead THEN Idle ELSE job[r]]
      /\ unannounced' = unannounced + SumOf(Owed, dead)
      /\ announced' = announced /\ removed' = removed
  BY OwedIsASum DEF Ended, Inv, deletions
<1>2. \A r \in Requests : Owed[r] = job[r].deleted /\ Owed[r] \in Nat
  BY OwedType DEF Inv
<1> DEFINE rest == [r \in Requests |-> IF r \in dead THEN 0 ELSE Owed[r]]
<1>3. Owed' = rest
  BY <1>1, <1>2 DEF Owed, Idle
<1>4. IsFiniteSet(Requests) /\ IsFiniteSet(dead)
  BY StoreAssumption, FS_Subset
<1>5. SumOf(Owed, Requests) = SumOf(Owed, dead) + SumOf(rest, Requests)
  BY <1>2, <1>4, SumSplit
<1>6. SumOf(Owed, dead) \in Nat
  BY <1>2, <1>4, SumType
<1>7. SumOf(rest, Requests) \in Nat
  <2>1. \A r \in Requests : rest[r] \in Nat
    BY <1>2
  <2> HIDE DEF rest
  <2> QED
    BY <1>4, <2>1, SumType
<1>8. SumOf(Owed, Requests)' = SumOf(rest, Requests)
  BY <1>3
<1>9. \A r \in Requests : pc'[r] \notin {"unlink", "unlinkAll"} => job'[r].deleted = 0
  BY <1>1 DEF Told, Idle
<1> HIDE DEF rest
<1>10. announced' + unannounced' + SumOf(rest, Requests) = Cardinality(removed')
  BY <1>1, <1>5, <1>6, <1>7 DEF Told
<1> QED
  BY <1>1, <1>6, <1>8, <1>9, <1>10 DEF Told

LEMMA ToldInit == Init => Told
<1> SUFFICES ASSUME Init PROVE Told
  OBVIOUS
<1>1. Shape
  BY InvInit DEF Inv
<1>2. Owed = [r \in Requests |-> 0]
  BY DEF Init, Idle, Owed
<1>3. SumOf(Owed, Requests) = 0
  <2> DEFINE rest == [r \in Requests |-> IF r \in Requests THEN 0 ELSE Owed[r]]
  <2>1. IsFiniteSet(Requests) /\ Requests \in SUBSET Requests
        /\ \A r \in Requests : Owed[r] \in Nat
    BY <1>2, StoreAssumption
  <2>2. SumOf(Owed, Requests) = SumOf(Owed, Requests) + SumOf(rest, Requests)
    BY <2>1, SumSplit
  <2>3. rest = Owed
    BY <1>2
  <2>4. SumOf(Owed, Requests) \in Nat
    BY <2>1, SumType
  <2> HIDE DEF rest
  <2>5. SumOf(Owed, Requests) = SumOf(Owed, Requests) + SumOf(Owed, Requests)
    BY <2>2, <2>3, Zenon
  <2>6. \A n \in Nat : n = n + n => n = 0
    OBVIOUS
  <2> QED
    BY <2>4, <2>5, <2>6
<1> QED
  BY <1>3, FS_EmptySet DEF Init, Told, Idle

LEMMA ToldNext == Inv /\ Told /\ [Next]_vars => Told'
<1> SUFFICES ASSUME Inv, Told, [Next]_vars PROVE Told'
  OBVIOUS
<1>0. Shape'
  BY InvStep DEF Inv
<1>1. CASE UNCHANGED vars
  <2>1. UNCHANGED <<pc, job, announced, unannounced, removed>>
    BY <1>1 DEF vars, thread, deletions, answers
  <2>2. Owed' = Owed
    BY <2>1 DEF Owed
  <2>3. SumOf(Owed, Requests)' = SumOf(Owed, Requests)
    BY <2>2
  <2> QED
    BY <2>1, <2>3 DEF Told
<1>2. CASE Crash
  <2>1. Requests \in SUBSET Requests
    OBVIOUS
  <2> QED
    BY <1>0, <1>2, <2>1, EndedTold DEF Crash
<1>3. ASSUME NEW r \in Requests, Throw(r) PROVE Told'
  <2>1. {r} \in SUBSET Requests
    OBVIOUS
  <2> QED
    BY <1>0, <1>3, <2>1, EndedTold DEF Throw
<1>4. ASSUME NEW r \in Requests, Step(r) PROVE Told'
  BY <1>0, <1>4, QuietSteps, DeleteRowTold, DeleteRowsTold, AnswerTold DEF Step
<1>5. ASSUME NEW r \in Requests, NEW user \in Users, NEW path \in Destinations,
             StartUpload(r, user, path)
      PROVE  Told'
  BY <1>0, <1>5, StartTold DEF StartUpload, Job, deletions
<1>6. ASSUME NEW r \in Requests, NEW id \in Ids, NEW user, NEW path,
             \/ FindLatest(r, user, path) \/ FindForMove(r, id, path)
             \/ FindInfo(r, id, "exists") \/ FindInfo(r, id, "open")
      PROVE  Told'
  BY <1>0, <1>6, StartTold DEF FindLatest, FindForMove, FindInfo, Job, deletions
<1>7. ASSUME NEW r \in Requests, NEW user \in Users, NEW folder \in Folders,
             ListFolder(r, user, folder)
      PROVE  Told'
  BY <1>0, <1>7, StartTold DEF ListFolder, Job, deletions
<1>8. ASSUME UNCHANGED <<pc, job, removed, announced, unannounced>> PROVE Told'
  <2>1. Owed' = Owed
    BY <1>8 DEF Owed
  <2>2. SumOf(Owed, Requests)' = SumOf(Owed, Requests)
    BY <2>1
  <2> QED
    BY <1>8, <2>2 DEF Told
<1>9. ASSUME NEW r \in Requests, NEW user, NEW path, CreateMetadata(r, user, path) PROVE Told'
  BY <1>8, <1>9 DEF CreateMetadata, thread, deletions, answers
<1>10. ASSUME NEW r \in Requests, NEW from, NEW to, MoveFolder(r, from, to) PROVE Told'
  BY <1>8, <1>10 DEF MoveFolder, thread, deletions, answers
<1> QED
  BY <1>1, <1>2, <1>3, <1>4, <1>5, <1>6, <1>7, <1>9, <1>10 DEF Next, Present

(* Deletes that race for a file announce it once, and what the answers     *)
(* say, with what failures left unsaid, is what was deleted: the answer    *)
(* counts what the DELETE found, not what was looked up before it.         *)
THEOREM DeletesAreAnnouncedOnce == Spec => []DeletesAnnouncedOnce
<1>1. Inv /\ Told => DeletesAnnouncedOnce
  <2> SUFFICES ASSUME Inv, Told PROVE DeletesAnnouncedOnce
    OBVIOUS
  <2>1. Requests \in SUBSET Requests
    OBVIOUS
  <2>2. MapThenSumSet(LAMBDA r : job[r].deleted, Requests) = SumOf(Owed, Requests)
    BY <2>1, OwedIsASum DEF Inv
  <2> QED
    BY <2>2 DEF Told, DeletesAnnouncedOnce
<1> QED
  BY <1>1, ToldInit, ToldNext, InvAlways, PTL DEF Spec
=============================================================================
