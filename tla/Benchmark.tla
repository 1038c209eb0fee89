------------------------------ MODULE Benchmark -----------------------------
(***************************************************************************)
(* loadtest/src/benchmark.go: the scenarios that main runs one after the   *)
(* other against the file server, and the goroutines of the concurrent     *)
(* ones, with their WaitGroup and their channel of results.                *)
(*                                                                         *)
(* The server answers as module FileStore and the two queues let it: a     *)
(* request takes effect and is answered, is refused without effect, or is  *)
(* answered by an error (a 503, the client's timeout) although it took     *)
(* effect, an upload perhaps much later.  Only a single file's DELETE is   *)
(* in two steps, because only such requests of the benchmark race for the  *)
(* same rows; a move or delete of a folder, which the server runs in the   *)
(* request's own thread, has taken effect when it is answered or fails.    *)
(* One user; multipart mode (raw bodies are always refused).               *)
(***************************************************************************)
EXTENDS FolderPaths, FiniteSetsExt, SequencesExt

CONSTANTS
  Files,              \* the local files of generateTestFiles
  Leftovers,          \* rows that an earlier, aborted run may have left
  PathOf,             \* virtual path of each of them
  UploadCases,        \* fileCases: a sequence of sets of files
  MoveCases,          \* cases of scenarioMoveFolder: from, to, files
  DeleteFileCases,    \* cases of scenarioDeleteFiles: folder, files
  DeleteFolderCases,  \* cases of scenarioDeleteFolder: folder, files
  MaxTroubles,        \* bound on requests that go wrong
  Nothing

Ids == Files \cup Leftovers

ASSUME BenchmarkAssumption ==
  /\ IsFiniteSet(Ids) /\ Files \cap Leftovers = {}
  /\ PathOf \in [Ids -> Seq(Names)]
  /\ UploadCases \in Seq(SUBSET Files)
  /\ MoveCases \in Seq([from : Seq(Names), to : Seq(Names), files : Nat])
  /\ DeleteFileCases \in Seq([folder : Seq(Names), files : Nat])
  /\ DeleteFolderCases \in Seq([folder : Seq(Names), files : Nat])
  /\ \A i \in DOMAIN DeleteFileCases :  \* these folders hold no folders
       ChildFolders(DeleteFileCases[i].folder, {PathOf[id] : id \in Ids}) = {}
  /\ MaxTroubles \in Nat
  /\ Nothing \notin Seq(Names) \cup Ids

(* What main goes through.                                                 *)
Scenario(kind, length) == [i \in 1 .. length |-> [kind |-> kind, case |-> i]]
Plan ==
  Scenario("upload", Len(UploadCases)) \o Scenario("download", Len(UploadCases))
    \o Scenario("list", 1) \o Scenario("move", Len(MoveCases))
    \o Scenario("deleteFiles", Len(DeleteFileCases))
    \o Scenario("deleteFolder", Len(DeleteFolderCases))

-----------------------------------------------------------------------------
(* The tables of cases (lines 80-91, 657-663, 740-744, 884-892).           *)

(* The rows that a move takes along, and where each file is in the end.    *)
Covers(folder, path) == Matches(folder, path) \/ path = folder
MovesOf(f) == {i \in DOMAIN MoveCases : Covers(MoveCases[i].from, PathOf[f])}
MovedBy(i, f) == Rebased(PathOf[f], MoveCases[i].from, MoveCases[i].to)
Home(f) == IF MovesOf(f) = {} THEN PathOf[f] ELSE MovedBy(CHOOSE i \in MovesOf(f) : TRUE, f)

LocalPaths == {PathOf[f] : f \in Files}
FilesIn(folder) == {f \in Files : LiesIn(folder, Home(f))}
FilesUnder(folder) == {f \in Files : Matches(folder, Home(f))}

(* They belong together.  Every file is uploaded, and lies in a folder     *)
(* that holds no folders.  No file is moved twice, or to where others are, *)
(* and the files of a case are what a listing shows, but for folders in    *)
(* the folder.  The files keep distinct paths.  Every delete finds a file  *)
(* that the ones before it left, and each file is deleted in the end.      *)
ASSUME TablesAssumption ==
  /\ \A f \in Files :
       /\ \E i \in DOMAIN UploadCases : f \in UploadCases[i]
       /\ PathOf[f] # <<>> /\ ChildFolders(Front(PathOf[f]), LocalPaths) = {}
  /\ \A f \in Files : \A i \in MovesOf(f) :
       /\ MovesOf(f) = {i} /\ Within(MoveCases[i].from, PathOf[f])
       /\ \A j \in DOMAIN MoveCases : ~Covers(MoveCases[j].from, MovedBy(i, f))
  /\ \A i \in DOMAIN MoveCases :
       LET case == MoveCases[i]
           folders == ChildFolders(case.from, LocalPaths)
           direct == {f \in Files : LiesIn(case.from, PathOf[f])} IN
       /\ folders = {} <=> Cardinality(direct) + Cardinality(folders) = case.files
       /\ \A f \in Files :
            i \notin MovesOf(f) => ~Within(case.to, PathOf[f]) /\ ~Within(case.to, Home(f))
  /\ \A f, g \in Files : Home(f) = Home(g) => f = g
  /\ \A i \in DOMAIN DeleteFileCases :
       ChildFolders(DeleteFileCases[i].folder, {Home(f) : f \in Files}) = {}
  /\ \A i \in DOMAIN DeleteFolderCases :
       \E f \in FilesUnder(DeleteFolderCases[i].folder) :
         /\ \A j \in DOMAIN DeleteFileCases : f \notin FilesIn(DeleteFileCases[j].folder)
         /\ \A j \in 1 .. i - 1 : f \notin FilesUnder(DeleteFolderCases[j].folder)
  /\ \A f \in Files :
       \/ \E i \in DOMAIN DeleteFileCases : f \in FilesIn(DeleteFileCases[i].folder)
       \/ \E i \in DOMAIN DeleteFolderCases : f \in FilesUnder(DeleteFolderCases[i].folder)

VARIABLES
  server,    \* path of each row of the server
  whole,     \* history: the files whose whole content was put into a body
  late,      \* uploads that failed but may still be stored
  step,      \* the element of Plan that main is at
  main,      \* where main is in it
  todo,      \* goroutines to start; folders to list
  passed,    \* whether the listings of a verification were as expected
  arrived,   \* history: rows stored late since the old folder was listed
  wg,        \* sync.WaitGroup
  worker,    \* where the goroutine for each id is
  pipe,      \* the body of each upload
  target,    \* the path a DELETE names, then the row it found
  outcome,   \* what each goroutine's request came to
  results,   \* resultsCh: the ids whose result is in the channel
  capacity,  \* its capacity
  uploaded,  \* allUploaded
  tally,     \* ok, fail and bad, which is hashFail or verifyFail
  reports,   \* all CaseResults
  began,     \* history: rows that were there before the benchmark
  troubles   \* history: requests that went wrong

store == <<server, whole, late>>
loop == <<step, main, todo, passed, arrived>>
threads == <<worker, pipe, target, outcome>>
channel == <<results, capacity>>
record == <<uploaded, tally, reports>>
history == <<began, troubles>>
vars == <<store, loop, wg, threads, channel, record, history>>

NoTally == [ok |-> 0, fail |-> 0, bad |-> 0]

Init ==
  /\ began \in SUBSET Leftovers
  /\ server = [id \in Ids |-> IF id \in began THEN PathOf[id] ELSE Nothing]
  /\ whole = {} /\ late = {}
  /\ step = 1 /\ main = "begin" /\ todo = {} /\ passed = FALSE /\ arrived = {}
  /\ wg = 0
  /\ worker = [id \in Ids |-> "none"]
  /\ pipe = [id \in Ids |-> "none"]
  /\ target = [id \in Ids |-> Nothing]
  /\ outcome = [id \in Ids |-> "none"]
  /\ results = {} /\ capacity = 0
  /\ uploaded = {} /\ tally = NoTally /\ reports = <<>>
  /\ troubles = 0

Kind == IF step \in DOMAIN Plan THEN Plan[step].kind ELSE "none"
Case == Plan[step].case
At(kind, place) == Kind = kind /\ main = place

(* A request fails although nothing is wrong with it.                      *)
Trouble == troubles < MaxTroubles /\ troubles' = troubles + 1 /\ UNCHANGED began

(* main goes on to the next element of its plan, with or without a report. *)
Proceed ==
  /\ step' = step + 1
  /\ main' = IF step = Len(Plan) THEN "done" ELSE "begin"
  /\ todo' = {} /\ passed' = FALSE /\ arrived' = {} /\ tally' = NoTally
Report(files, counts, verified) ==
  reports' = Append(reports,
    [kind |-> Kind, case |-> Case, files |-> files,
     ok |-> counts.ok, fail |-> counts.fail, bad |-> counts.bad, verified |-> verified])

Stored == {id \in Ids : server[id] # Nothing}

-----------------------------------------------------------------------------
(* Plausible errors in the code, which the properties must notice.         *)

(* The server lists files only.                                            *)
FileCount(folder) == Cardinality({id \in Stored : LiesIn(folder, server[id])})

(* The goroutines share one loop variable: all delete the same path.       *)
ListedPathsShared(jobs) ==
  LET last == CHOOSE id \in jobs : TRUE IN
  [id \in Ids |-> IF id \in jobs THEN server[last] ELSE Nothing]

(* The channel has no buffer: main receives only after wg.Wait().          *)
SendUnbuffered(w) ==
  /\ worker[w] = "reply" /\ wg = 0
  /\ worker' = [worker EXCEPT ![w] = "finish"]
  /\ results' = results \cup {w}
  /\ UNCHANGED <<store, loop, wg, pipe, target, outcome, capacity, record, history>>

(* wg.Wait() is missing.                                                   *)
AllLaunched == main = "launch" /\ todo = {}

(* The goroutine that cannot read its file returns without CloseWithError. *)
CopyFailsQuietly(w) ==
  /\ pipe[w] = "open" /\ Trouble
  /\ pipe' = [pipe EXCEPT ![w] = "ended"]
  /\ UNCHANGED <<store, loop, wg, worker, target, outcome, channel, record>>

-----------------------------------------------------------------------------
(* What the server finds under a folder, and how many entries it lists.    *)
RowsUnder(folder) == {id \in Stored : Matches(folder, server[id])}
EntryCount(folder) ==
  Cardinality({id \in Stored : LiesIn(folder, server[id])})
    + Cardinality(ChildFolders(folder, {server[id] : id \in Stored}))

-----------------------------------------------------------------------------
(* The loop that starts a goroutine for each file of a case.               *)

Start(jobs) ==
  /\ main' = "launch" /\ todo' = jobs /\ capacity' = Cardinality(jobs)
  /\ UNCHANGED <<step, passed, arrived, results>>

BeginUpload ==
  /\ At("upload", "begin")
  /\ Start(UploadCases[Case])
  /\ UNCHANGED <<store, wg, threads, record, history>>

(* Only what was uploaded; a case without any has no result.               *)
BeginDownload ==
  LET caseFiles == UploadCases[Case] \cap uploaded IN
  /\ At("download", "begin")
  /\ \/ caseFiles # {} /\ Start(caseFiles) /\ UNCHANGED record
     \/ caseFiles = {} /\ Proceed /\ UNCHANGED <<channel, uploaded, reports>>
  /\ UNCHANGED <<store, wg, threads, history>>

ListedPaths(jobs) == [id \in Ids |-> IF id \in jobs THEN server[id] ELSE Nothing]

(* The folder is listed first, and every path of the list is deleted.      *)
BeginDeleteFiles ==
  /\ At("deleteFiles", "begin")
  /\ LET case == DeleteFileCases[Case]
         jobs == {id \in Stored : LiesIn(case.folder, server[id])} IN
     \/ /\ Start(jobs)
        /\ target' = ListedPaths(jobs)
        /\ UNCHANGED <<record, history>>
     \/ /\ Trouble
        /\ Report(case.files, [NoTally EXCEPT !.fail = 1], FALSE)
        /\ Proceed
        /\ UNCHANGED <<target, channel, uploaded>>
  /\ UNCHANGED <<store, wg, worker, pipe, outcome>>

Launch(w) ==
  /\ main = "launch" /\ w \in todo
  /\ todo' = todo \ {w}
  /\ wg' = wg + 1
  /\ worker' = [worker EXCEPT ![w] = "request"]
  /\ pipe' = [pipe EXCEPT ![w] = IF Kind = "upload" THEN "open" ELSE "none"]
  /\ UNCHANGED <<store, step, main, passed, arrived, target, outcome, channel, record, history>>

-----------------------------------------------------------------------------
(* doUploadMultipart: a second goroutine copies the file into the body,    *)
(* and ends it (writer.Close, then pw.Close), or breaks it off.            *)

CopyFile(w) ==
  /\ pipe[w] = "open"
  /\ pipe' = [pipe EXCEPT ![w] = "copied"]
  /\ whole' = whole \cup {w}
  /\ UNCHANGED <<server, late, loop, wg, worker, target, outcome, channel, record, history>>

CopyFails(w) ==
  /\ pipe[w] = "open" /\ Trouble
  /\ pipe' = [pipe EXCEPT ![w] = "failed"]
  /\ UNCHANGED <<store, loop, wg, worker, target, outcome, channel, record>>

EndBody(w) ==
  /\ pipe[w] = "copied"
  /\ pipe' = [pipe EXCEPT ![w] = "ended"]
  /\ UNCHANGED <<store, loop, wg, worker, target, outcome, channel, record, history>>

-----------------------------------------------------------------------------
(* The request of a goroutine is answered.                                 *)
Answer(w, from, o) ==
  /\ worker[w] = from
  /\ worker' = [worker EXCEPT ![w] = "reply"]
  /\ outcome' = [outcome EXCEPT ![w] = o]

StoreUpload(w) ==
  /\ Kind = "upload" /\ pipe[w] = "ended"
  /\ Answer(w, "request", "ok")
  /\ server' = [server EXCEPT ![w] = PathOf[w]]
  /\ UNCHANGED <<whole, late, loop, wg, pipe, target, channel, record, history>>

(* The broken body ends the request with an error.                         *)
UploadBroken(w) ==
  /\ Kind = "upload" /\ pipe[w] = "failed"
  /\ Answer(w, "request", "fail")
  /\ UNCHANGED <<store, loop, wg, pipe, target, channel, record, history>>

(* Size and hash are those of the local file, or not.                      *)
ServeDownload(w) ==
  /\ Kind = "download"
  /\ Answer(w, "request",
       IF server[w] = Nothing THEN "fail" ELSE IF w \in whole THEN "ok" ELSE "bad")
  /\ UNCHANGED <<store, loop, wg, pipe, target, channel, record, history>>

(* The server looks the path's latest version up, and then deletes it.     *)
FindVersion(w) ==
  /\ Kind = "deleteFiles"
  /\ \/ \E id \in Stored :
          /\ server[id] = target[w]
          /\ worker[w] = "request"
          /\ worker' = [worker EXCEPT ![w] = "found"]
          /\ target' = [target EXCEPT ![w] = id]
          /\ UNCHANGED outcome
     \/ /\ \A id \in Stored : server[id] # target[w]
        /\ Answer(w, "request", "fail")
        /\ UNCHANGED target
  /\ UNCHANGED <<store, loop, wg, pipe, channel, record, history>>

DeleteVersion(w) ==
  /\ \/ Answer(w, "found", IF server[target[w]] = Nothing THEN "fail" ELSE "ok") /\ UNCHANGED history
     \/ Answer(w, "found", "fail") /\ Trouble
  /\ server' = [server EXCEPT ![target[w]] = Nothing]
  /\ UNCHANGED <<whole, late, loop, wg, pipe, target, channel, record>>

(* A refusal, a broken connection or the client's timeout.  The server may *)
(* have the whole body of an upload then, and store it later.              *)
RequestFails(w) ==
  /\ Answer(w, "request", "fail") /\ Trouble
  /\ pipe' = [pipe EXCEPT ![w] = IF @ \in {"open", "copied"} THEN "failed" ELSE @]
  /\ late' = IF pipe[w] = "ended" THEN late \cup {w} ELSE late
  /\ UNCHANGED <<server, whole, loop, wg, target, channel, record>>

StoreLate(id) ==
  /\ id \in late
  /\ late' = late \ {id}
  /\ server' = [server EXCEPT ![id] = PathOf[id]]
  /\ arrived' = IF main \in {"listNew", "report"} THEN arrived \cup {id} ELSE arrived
  /\ UNCHANGED <<whole, step, main, todo, passed, wg, threads, channel, record, history>>

-----------------------------------------------------------------------------
(* The goroutine sends its result, then the deferred wg.Done() runs.       *)

Send(w) ==
  /\ worker[w] = "reply" /\ Cardinality(results) < capacity
  /\ worker' = [worker EXCEPT ![w] = "finish"]
  /\ results' = results \cup {w}
  /\ UNCHANGED <<store, loop, wg, pipe, target, outcome, capacity, record, history>>

Done(w) ==
  /\ worker[w] = "finish"
  /\ worker' = [worker EXCEPT ![w] = "gone"]
  /\ wg' = wg - 1
  /\ UNCHANGED <<store, loop, pipe, target, outcome, channel, record, history>>

(* wg.Wait(), close(resultsCh), and the loop over what is in the channel.  *)
AllDone == main = "launch" /\ todo = {} /\ wg = 0
Counted(o) == Cardinality({w \in results : outcome[w] = o})
Counts == [ok |-> Counted("ok"), fail |-> Counted("fail"), bad |-> Counted("bad")]
Drained ==
  /\ results' = {} /\ UNCHANGED capacity
  /\ worker' = [id \in Ids |-> "none"] /\ pipe' = [id \in Ids |-> "none"]
  /\ target' = [id \in Ids |-> Nothing] /\ outcome' = [id \in Ids |-> "none"]

Collect ==
  /\ AllDone
  /\ Drained
  /\ uploaded' = uploaded \cup
       IF Kind = "upload" THEN {w \in results : outcome[w] = "ok"} ELSE {}
  /\ \/ /\ Kind \in {"upload", "download"}
        /\ Report(capacity, Counts, FALSE)
        /\ Proceed
     \/ /\ Kind = "deleteFiles"
        /\ tally' = Counts
        /\ main' = "verify"
        /\ UNCHANGED <<step, todo, passed, arrived, reports>>
  /\ UNCHANGED <<store, wg, history>>

-----------------------------------------------------------------------------
(* scenarioFolderList: the folders of the uploaded files, one by one.      *)
Dir(path) == Front(path)

BeginList ==
  /\ At("list", "begin")
  /\ main' = "list"
  /\ todo' = {Dir(PathOf[f]) : f \in uploaded}
  /\ UNCHANGED <<store, step, passed, arrived, wg, threads, channel, record, history>>

ListFolder ==
  /\ At("list", "list")
  /\ \E folder \in todo :
       LET expected == Cardinality({f \in uploaded : Dir(PathOf[f]) = folder}) IN
       /\ todo' = todo \ {folder}
       /\ \/ /\ tally' = IF EntryCount(folder) = expected
                         THEN [tally EXCEPT !.ok = @ + 1] ELSE [tally EXCEPT !.bad = @ + 1]
             /\ UNCHANGED history
          \/ Trouble /\ tally' = [tally EXCEPT !.fail = @ + 1]
  /\ UNCHANGED <<store, step, main, passed, arrived, wg, threads, channel, uploaded, reports>>

EndList ==
  /\ At("list", "list") /\ todo = {}
  /\ Report(tally.ok + tally.fail + tally.bad, tally, tally.fail = 0 /\ tally.bad = 0)
  /\ Proceed
  /\ UNCHANGED <<store, wg, threads, channel, uploaded, history>>

-----------------------------------------------------------------------------
(* One request that changes many rows: it is answered well, or it fails,   *)
(* with or without its effect.                                             *)
Request(rows, files) ==
  \/ /\ server' = rows
     /\ main' = "verify"
     /\ UNCHANGED <<step, todo, passed, arrived, record, history>>
  \/ /\ Trouble
     /\ server' \in {rows, server}
     /\ Report(files, [NoTally EXCEPT !.fail = 1], FALSE)
     /\ Proceed
     /\ UNCHANGED uploaded

MoveFolder ==
  LET case == MoveCases[Case]
      moved == {id \in Stored : Covers(case.from, server[id])} IN
  /\ At("move", "begin")
  /\ Request([id \in Ids |->
       IF id \in moved THEN Rebased(server[id], case.from, case.to) ELSE server[id]], case.files)
  /\ UNCHANGED <<whole, late, wg, threads, channel>>

DeleteFolder ==
  LET case == DeleteFolderCases[Case] IN
  /\ At("deleteFolder", "begin")
  /\ \/ /\ RowsUnder(case.folder) # {}
        /\ Request([id \in Ids |->
             IF id \in RowsUnder(case.folder) THEN Nothing ELSE server[id]], case.files)
     \/ /\ RowsUnder(case.folder) = {}  \* 404
        /\ Report(case.files, [NoTally EXCEPT !.fail = 1], FALSE)
        /\ Proceed
        /\ UNCHANGED <<server, uploaded, history>>
  /\ UNCHANGED <<whole, late, wg, threads, channel>>

-----------------------------------------------------------------------------
(* The verification after a move or a delete: the old folder is listed,    *)
(* which must be empty; after a move, whatever that showed, the new one,   *)
(* which must have as many entries as files were moved; then the report.   *)
OldFolder ==
  CASE Kind = "move" -> MoveCases[Case].from
    [] Kind = "deleteFiles" -> DeleteFileCases[Case].folder
    [] Kind = "deleteFolder" -> DeleteFolderCases[Case].folder

Listed(expected) ==
  \/ passed' = expected /\ UNCHANGED history
  \/ passed' = FALSE /\ Trouble

ListOld ==
  /\ main = "verify"
  /\ Listed(EntryCount(OldFolder) = 0)
  /\ main' = IF Kind = "move" THEN "listNew" ELSE "report"
  /\ UNCHANGED <<store, step, todo, arrived, wg, threads, channel, record>>

ListNew ==
  /\ main = "listNew"
  /\ Listed(passed /\ EntryCount(MoveCases[Case].to) = MoveCases[Case].files)
  /\ main' = "report"
  /\ UNCHANGED <<store, step, todo, arrived, wg, threads, channel, record>>

ReportVerdict(files, counts) ==
  /\ main = "report"
  /\ Report(files, counts, passed)
  /\ Proceed
  /\ UNCHANGED <<store, wg, threads, channel, uploaded, history>>

ReportMove == Kind = "move" /\ ReportVerdict(MoveCases[Case].files, [NoTally EXCEPT !.ok = 1])
ReportDeleteFiles == Kind = "deleteFiles" /\ ReportVerdict(capacity, tally)
ReportDeleteFolder ==
  Kind = "deleteFolder" /\ ReportVerdict(DeleteFolderCases[Case].files, [NoTally EXCEPT !.ok = 1])

-----------------------------------------------------------------------------
Goroutine(w) ==
  \/ CopyFile(w) \/ EndBody(w)
  \/ StoreUpload(w) \/ UploadBroken(w) \/ ServeDownload(w) \/ FindVersion(w) \/ DeleteVersion(w)
  \/ Send(w) \/ Done(w)

Main ==
  \/ BeginUpload \/ BeginDownload \/ BeginDeleteFiles
  \/ \E w \in Ids : Launch(w)
  \/ Collect
  \/ BeginList \/ ListFolder \/ EndList
  \/ MoveFolder \/ DeleteFolder
  \/ ListOld \/ ListNew \/ ReportMove \/ ReportDeleteFiles \/ ReportDeleteFolder

Next ==
  \/ Main
  \/ \E id \in Ids : Goroutine(id) \/ CopyFails(id) \/ RequestFails(id) \/ StoreLate(id)

Spec == Init /\ [][Next]_vars

(* Go's scheduler runs every goroutine, and every request ends: it is      *)
(* answered, or the client's timeout ends it.                              *)
FairSpec == Spec /\ WF_vars(Main) /\ \A id \in Ids : WF_vars(Goroutine(id))

-----------------------------------------------------------------------------
Clean == began = {} /\ troubles = 0
Concurrent == {"upload", "download", "deleteFiles"}
RowsBelow(folder) == {id \in Stored : Within(folder, server[id])}

(* No result of a goroutine is lost or counted twice: ok, failed and       *)
(* unmatched ones add up to the files of a case (lines 292-327, 466-494,   *)
(* 765-792).  A DELETE case whose listing failed reports one failure.      *)
EveryResultCounted ==
  \A i \in DOMAIN reports :
    LET r == reports[i] IN
    r.kind \in Concurrent =>
      \/ r.ok + r.fail + r.bad = r.files
      \/ r.kind = "deleteFiles" /\ r.ok = 0 /\ r.fail = 1 /\ troubles > 0

(* No download ever has the wrong size or hash, although uploads break off *)
(* in the middle: a body that was not read to its end is never stored as   *)
(* if it were whole (lines 362-378, 525-540).                              *)
DownloadsMatch ==
  \A i \in DOMAIN reports : reports[i].kind = "download" => reports[i].bad = 0

(* On a clean server, and unless a request goes wrong, every scenario      *)
(* succeeds and every listing and delete is verified, and so is the move   *)
(* of a folder that holds its files itself.  Nothing is left behind then:  *)
(* the cases of the scenarios cover each other (lines 80-91, 657-663,      *)
(* 740-744, 884-892).                                                      *)
CleanRunSucceeds ==
  Clean =>
    /\ \A i \in DOMAIN reports :
         LET r == reports[i] IN
         /\ r.fail = 0 /\ r.bad = 0
         /\ r.kind \in {"list", "deleteFiles", "deleteFolder"} => r.verified
         /\ r.kind = "move" /\ ChildFolders(MoveCases[r.case].from, {PathOf[f] : f \in Files}) = {}
              => r.verified
    /\ main = "done" => Stored = {}

(* What prd.md:130 says of each folder that is moved, the parent folder of *)
(* line 128 included: the new path's listing shows the moved files, so the *)
(* move is verified.  doFolderList counts the direct entries (line 640),   *)
(* which are the child folders there, and line 688 compares them with the  *)
(* number of files: the move of a parent folder is never verified.         *)
CleanMovesVerified ==
  Clean => \A i \in DOMAIN reports : reports[i].kind = "move" => reports[i].verified

(* When a move or a DELETE case is reported as verified, the only rows     *)
(* below the old folder, as deep as it may be, are uploads that the server *)
(* stored late, and after the folder was listed: the listing of the new    *)
(* folder and the report come later.  What was left over, failed, or was   *)
(* stored late before that listing is never overlooked (lines 678-693,     *)
(* 796-802, 908-915).                                                      *)
VerdictsHonest ==
  [][Len(reports') > Len(reports) /\ Last(reports').verified
       /\ Kind \in {"move", "deleteFiles", "deleteFolder"} =>
       RowsBelow(OldFolder) \subseteq arrived]_vars

(* The benchmark comes to its end: no goroutine waits for room in the      *)
(* channel while main waits for the goroutine.                             *)
BenchmarkEnds == <>(main = "done")
=============================================================================
