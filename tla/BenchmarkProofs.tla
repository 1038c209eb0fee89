--------------------------- MODULE BenchmarkProofs --------------------------
(***************************************************************************)
(* Proofs about the load generator, for any files, any leftovers, any      *)
(* tables of cases and any number of requests that go wrong.  Only the     *)
(* last one, about runs in which none does, asks that the tables belong    *)
(* together (TablesAssumption).                                            *)
(***************************************************************************)
EXTENDS Benchmark, SequenceTheorems, FiniteSetTheorems, TLAPS

Kinds == {"upload", "download", "list", "move", "deleteFiles", "deleteFolder"}
Tallies == [ok : Nat, fail : Nat, bad : Nat]
Reports == [kind : Kinds, case : Nat, files : Nat, ok : Nat, fail : Nat, bad : Nat,
            verified : BOOLEAN]

(* A scenario goes through its own table.                                  *)
Steps ==
  {s \in [kind : Kinds, case : Nat] :
    /\ s.kind \in {"upload", "download"} => s.case \in DOMAIN UploadCases
    /\ s.kind = "move" => s.case \in DOMAIN MoveCases
    /\ s.kind = "deleteFiles" => s.case \in DOMAIN DeleteFileCases
    /\ s.kind = "deleteFolder" => s.case \in DOMAIN DeleteFolderCases}

TypeOK ==
  /\ server \in [Ids -> Seq(Names) \cup {Nothing}]
  /\ whole \subseteq Ids /\ late \subseteq Ids
  /\ step \in Nat \ {0} /\ main \in {"begin", "launch", "list", "verify", "listNew", "report", "done"}
  /\ passed \in BOOLEAN /\ arrived \subseteq Ids
  /\ wg \in Nat
  /\ worker \in [Ids -> {"none", "request", "found", "reply", "finish", "gone"}]
  /\ pipe \in [Ids -> {"none", "open", "copied", "ended", "failed"}]
  /\ target \in [Ids -> Seq(Names) \cup Ids \cup {Nothing}]
  /\ outcome \in [Ids -> {"none", "ok", "fail", "bad"}]
  /\ results \subseteq Ids /\ capacity \in Nat
  /\ uploaded \subseteq Ids /\ tally \in Tallies /\ reports \in Seq(Reports)
  /\ began \subseteq Leftovers /\ troubles \in Nat

Launched == {w \in Ids : worker[w] # "none"}
Busy == {w \in Ids : worker[w] \notin {"none", "gone"}}
Sent == {w \in Ids : worker[w] \in {"finish", "gone"}}

(* The channel has room for one result of each goroutine of the round,     *)
(* whether it was started or not; between the rounds there are none.       *)
Round ==
  IF main = "launch"
  THEN /\ todo \subseteq Ids \ Launched
       /\ capacity = Cardinality(todo \cup Launched)
  ELSE Launched = {}

(* The WaitGroup counts those that have not returned, the channel holds    *)
(* one result of each that has sent it, and a result is there to send.     *)
Counting ==
  /\ wg = Cardinality(Busy)
  /\ results = Sent
  /\ \A w \in Ids : outcome[w] = "none" <=> worker[w] \in {"none", "request", "found"}

(* What was answered well was read to its end; only that is downloaded.    *)
Bodies ==
  /\ \A w \in Ids : pipe[w] \in {"copied", "ended"} => w \in whole
  /\ \A w \in Ids : worker[w] = "found" => Kind = "deleteFiles"
  /\ \A w \in Ids : Kind = "upload" /\ outcome[w] = "ok" => w \in whole
  /\ uploaded \subseteq whole
  /\ Kind = "download" /\ main = "launch" => todo \cup Launched \subseteq uploaded
  /\ \A w \in Ids : outcome[w] # "bad"

Total(counts) == counts.ok + counts.fail + counts.bad

(* Between the answer of a case and its report.                            *)
Verifying == main \in {"verify", "listNew", "report"}

(* The tally waits for its report while the folder is listed again.        *)
Ledger ==
  /\ EveryResultCounted /\ DownloadsMatch
  /\ Verifying /\ Kind = "deleteFiles" => Total(tally) = capacity

Inv == TypeOK /\ Round /\ Counting /\ Bodies /\ Ledger

-----------------------------------------------------------------------------
(* The plan of main, and the paths that it is about.                       *)

LEMMA ConstantsTyped ==
  /\ PathOf \in [Ids -> Seq(Names)]
  /\ IsFiniteSet(Ids) /\ Files \subseteq Ids /\ Leftovers \subseteq Ids
  /\ Nothing \notin Seq(Names)
  /\ UploadCases \in Seq(SUBSET Files)
  /\ MoveCases \in Seq([from : Seq(Names), to : Seq(Names), files : Nat])
  /\ DeleteFileCases \in Seq([folder : Seq(Names), files : Nat])
  /\ DeleteFolderCases \in Seq([folder : Seq(Names), files : Nat])
BY BenchmarkAssumption DEF Ids

LEMMA ScenarioIsSteps ==
  ASSUME NEW kind \in Kinds, NEW n \in Nat,
         \A i \in 1 .. n : [kind |-> kind, case |-> i] \in Steps
  PROVE  Scenario(kind, n) \in Seq(Steps)
<1>1. Scenario(kind, n) \in [1 .. n -> Steps]
  BY DEF Scenario
<1> QED
  BY <1>1, SeqDef

LEMMA ScenariosAreSteps ==
  /\ Scenario("upload", Len(UploadCases)) \in Seq(Steps)
  /\ Scenario("download", Len(UploadCases)) \in Seq(Steps)
  /\ Scenario("list", 1) \in Seq(Steps)
  /\ Scenario("move", Len(MoveCases)) \in Seq(Steps)
  /\ Scenario("deleteFiles", Len(DeleteFileCases)) \in Seq(Steps)
  /\ Scenario("deleteFolder", Len(DeleteFolderCases)) \in Seq(Steps)
<1> DEFINE n1 == Len(UploadCases)
           n2 == Len(MoveCases)
           n3 == Len(DeleteFileCases)
           n4 == Len(DeleteFolderCases)
<1>1. /\ n1 \in Nat /\ DOMAIN UploadCases = 1 .. n1
      /\ n2 \in Nat /\ DOMAIN MoveCases = 1 .. n2
      /\ n3 \in Nat /\ DOMAIN DeleteFileCases = 1 .. n3
      /\ n4 \in Nat /\ DOMAIN DeleteFolderCases = 1 .. n4
  BY ConstantsTyped, LenProperties
<1> HIDE DEF n1, n2, n3, n4
<1>2. \A i \in 1 .. n1 :
        [kind |-> "upload", case |-> i] \in Steps /\ [kind |-> "download", case |-> i] \in Steps
  BY <1>1 DEF Steps, Kinds
<1>3. \A i \in 1 .. 1 : [kind |-> "list", case |-> i] \in Steps
  BY DEF Steps, Kinds
<1>4. \A i \in 1 .. n2 : [kind |-> "move", case |-> i] \in Steps
  BY <1>1 DEF Steps, Kinds
<1>5. \A i \in 1 .. n3 : [kind |-> "deleteFiles", case |-> i] \in Steps
  BY <1>1 DEF Steps, Kinds
<1>6. \A i \in 1 .. n4 : [kind |-> "deleteFolder", case |-> i] \in Steps
  BY <1>1 DEF Steps, Kinds
<1>7. /\ Scenario("upload", n1) \in Seq(Steps) /\ Scenario("download", n1) \in Seq(Steps)
      /\ Scenario("list", 1) \in Seq(Steps) /\ Scenario("move", n2) \in Seq(Steps)
      /\ Scenario("deleteFiles", n3) \in Seq(Steps)
      /\ Scenario("deleteFolder", n4) \in Seq(Steps)
  BY <1>1, <1>2, <1>3, <1>4, <1>5, <1>6, ScenarioIsSteps DEF Kinds
<1> QED
  BY <1>7 DEF n1, n2, n3, n4

LEMMA PlanIsSteps == Plan \in Seq(Steps)
BY ScenariosAreSteps, ConcatProperties DEF Plan

LEMMA ElementIsTyped ==
  ASSUME NEW S, NEW s \in Seq(S), NEW i \in DOMAIN s
  PROVE  s[i] \in S
OBVIOUS

(* The case that main is at is one of the table of its scenario.           *)
LEMMA CaseIsCase ==
  /\ Kind \in Kinds \cup {"none"}
  /\ Kind # "none" => Case \in Nat
  /\ Kind \in {"upload", "download"} => UploadCases[Case] \subseteq Files
  /\ Kind = "move" =>
       /\ MoveCases[Case].from \in Seq(Names) /\ MoveCases[Case].to \in Seq(Names)
       /\ MoveCases[Case].files \in Nat
  /\ Kind = "deleteFiles" =>
       DeleteFileCases[Case].folder \in Seq(Names) /\ DeleteFileCases[Case].files \in Nat
  /\ Kind = "deleteFolder" =>
       DeleteFolderCases[Case].folder \in Seq(Names) /\ DeleteFolderCases[Case].files \in Nat
<1>1. CASE step \in DOMAIN Plan
  <2>1. Plan[step] \in Steps
    BY <1>1, PlanIsSteps
  <2>2. Kind = Plan[step].kind /\ Case = Plan[step].case
    BY <1>1 DEF Kind, Case
  <2> DEFINE s == Plan[step]
  <2>3. s \in Steps /\ Kind = s.kind /\ Case = s.case
    BY <2>1, <2>2
  <2> HIDE DEF s
  <2>4. /\ Kind \in Kinds /\ Case \in Nat
        /\ Kind \in {"upload", "download"} => Case \in DOMAIN UploadCases
        /\ Kind = "move" => Case \in DOMAIN MoveCases
        /\ Kind = "deleteFiles" => Case \in DOMAIN DeleteFileCases
        /\ Kind = "deleteFolder" => Case \in DOMAIN DeleteFolderCases
    BY <2>3 DEF Steps
  <2>5. Kind \in {"upload", "download"} => UploadCases[Case] \subseteq Files
    BY <2>4, ConstantsTyped, ElementIsTyped
  <2>6. Kind = "move" => MoveCases[Case] \in [from : Seq(Names), to : Seq(Names), files : Nat]
    BY <2>4, ConstantsTyped, ElementIsTyped
  <2>7. Kind = "deleteFiles" => DeleteFileCases[Case] \in [folder : Seq(Names), files : Nat]
    BY <2>4, ConstantsTyped, ElementIsTyped
  <2>8. Kind = "deleteFolder" => DeleteFolderCases[Case] \in [folder : Seq(Names), files : Nat]
    BY <2>4, ConstantsTyped, ElementIsTyped
  <2>9. Kind \in Kinds \cup {"none"} /\ (Kind # "none" => Case \in Nat)
    BY <2>4
  <2> QED
    BY <2>5, <2>6, <2>7, <2>8, <2>9
<1>2. CASE step \notin DOMAIN Plan
  BY <1>2 DEF Kind
<1> QED
  BY <1>1, <1>2

LEMMA KindKept == ASSUME UNCHANGED step PROVE Kind' = Kind /\ Case' = Case
BY DEF Kind, Case, Plan, Scenario

(* What the server makes of a path below a folder that moves is a path.    *)
LEMMA RebasedIsPath ==
  ASSUME NEW path \in Seq(Names), NEW from \in Seq(Names), NEW to \in Seq(Names),
         Len(from) <= Len(path)
  PROVE  Rebased(path, from, to) \in Seq(Names)
<1>1. SubSeq(path, Len(from) + 1, Len(path)) \in Seq(Names)
  BY SubSeqProperties
<1> QED
  BY <1>1, ConcatProperties DEF Rebased

-----------------------------------------------------------------------------
(* Counting: what is in the channel, and what it has room for.             *)

LEMMA SubsetsFinite ==
  ASSUME NEW S, S \subseteq Ids
  PROVE  IsFiniteSet(S) /\ Cardinality(S) \in Nat
BY ConstantsTyped, FS_Subset, FS_CardinalityType

(* The results that main counts add up to all that are in the channel.     *)
LEMMA CountsAddUp ==
  ASSUME results \subseteq Ids, \A w \in results : outcome[w] \in {"ok", "fail", "bad"}
  PROVE  Counts \in Tallies /\ Total(Counts) = Cardinality(results)
<1> DEFINE With(o) == {w \in results : outcome[w] = o}
<1>1. \A o : IsFiniteSet(With(o)) /\ Cardinality(With(o)) \in Nat
  BY SubsetsFinite
<1>2. ASSUME NEW S \in SUBSET Ids, NEW T \in SUBSET Ids, S \cap T = {}
      PROVE  Cardinality(S \cup T) = Cardinality(S) + Cardinality(T)
  <2>1. IsFiniteSet(S) /\ IsFiniteSet(T) /\ Cardinality(S) \in Nat /\ Cardinality(T) \in Nat
    BY SubsetsFinite
  <2>2. Cardinality(S \cap T) = 0
    BY <1>2, FS_EmptySet
  <2>3. Cardinality(S \cup T) = Cardinality(S) + Cardinality(T) - Cardinality(S \cap T)
    BY <2>1, FS_Union
  <2> QED
    BY <2>1, <2>2, <2>3
<1>3. Cardinality((With("ok") \cup With("fail")) \cup With("bad"))
        = Cardinality(With("ok")) + Cardinality(With("fail")) + Cardinality(With("bad"))
  <2>1. Cardinality((With("ok") \cup With("fail")) \cup With("bad"))
          = Cardinality(With("ok") \cup With("fail")) + Cardinality(With("bad"))
    BY <1>2
  <2>2. Cardinality(With("ok") \cup With("fail")) = Cardinality(With("ok")) + Cardinality(With("fail"))
    BY <1>2
  <2> QED
    BY <2>1, <2>2
<1>4. (With("ok") \cup With("fail")) \cup With("bad") = results
  OBVIOUS
<1>5. Counts = [ok |-> Cardinality(With("ok")), fail |-> Cardinality(With("fail")),
                bad |-> Cardinality(With("bad"))]
  BY DEF Counts, Counted
<1> QED
  BY <1>1, <1>3, <1>4, <1>5 DEF Tallies, Total

(* A goroutine exists only while main starts goroutines and waits.         *)
LEMMA AliveInLaunch ==
  ASSUME Inv, NEW w \in Ids, worker[w] # "none"
  PROVE  main = "launch" /\ w \in Launched /\ w \notin todo
BY DEF Inv, Round, Launched

(* The channel is not full for a goroutine that has a result to send.      *)
LEMMA RoomToSend ==
  ASSUME Inv, NEW w \in Ids, worker[w] = "reply"
  PROVE  Cardinality(results) < capacity
<1>1. w \in Launched /\ capacity = Cardinality(todo \cup Launched) /\ todo \subseteq Ids
  BY AliveInLaunch DEF Inv, Round
<1>2. w \notin results /\ results \subseteq Launched /\ Launched \subseteq Ids
  BY DEF Inv, Counting, Sent, Launched
<1>3. results \subseteq todo \cup Launched /\ results # todo \cup Launched
  BY <1>1, <1>2
<1>4. IsFiniteSet(todo \cup Launched) /\ Cardinality(todo \cup Launched) \in Nat
  BY <1>1, <1>2, SubsetsFinite
<1>5. Cardinality(results) \in Nat
  BY <1>2, SubsetsFinite
<1>6. Cardinality(results) <= Cardinality(todo \cup Launched)
      /\ Cardinality(results) # Cardinality(todo \cup Launched)
  BY <1>3, <1>4, FS_Subset
<1> QED
  BY <1>1, <1>4, <1>5, <1>6

-----------------------------------------------------------------------------
(* Steps that report nothing, and steps that report one case more.         *)

LEMMA NothingReported ==
  ASSUME Inv, UNCHANGED reports, troubles' \in Nat, troubles' >= troubles
  PROVE  EveryResultCounted' /\ DownloadsMatch' /\ reports' \in Seq(Reports)
<1>1. troubles \in Nat
  BY DEF Inv, TypeOK
<1>2. EveryResultCounted'
  BY <1>1 DEF Inv, Ledger, EveryResultCounted, Concurrent
<1> QED
  BY <1>2 DEF Inv, TypeOK, Ledger, DownloadsMatch

LEMMA AppendElements ==
  ASSUME NEW S, NEW s \in Seq(S), NEW e \in S
  PROVE  /\ Append(s, e) \in Seq(S)
         /\ \A i \in DOMAIN Append(s, e) :
              Append(s, e)[i] = e \/ (i \in DOMAIN s /\ Append(s, e)[i] = s[i])
<1>1. DOMAIN s = 1 .. Len(s) /\ Len(s) \in Nat
  BY LenProperties
<1>2. DOMAIN Append(s, e) = 1 .. Len(s) + 1
  BY AppendProperties, LenProperties
<1>3. \A i \in 1 .. Len(s) : Append(s, e)[i] = s[i]
  BY AppendProperties
<1>4. Append(s, e)[Len(s) + 1] = e /\ Append(s, e) \in Seq(S)
  BY AppendProperties
<1>5. ASSUME NEW i \in DOMAIN Append(s, e)
      PROVE  Append(s, e)[i] = e \/ (i \in DOMAIN s /\ Append(s, e)[i] = s[i])
  <2>1. i \in 1 .. Len(s) \/ i = Len(s) + 1
    BY <1>1, <1>2
  <2>2. CASE i \in 1 .. Len(s)
    BY <1>1, <1>3, <2>2
  <2>3. CASE i = Len(s) + 1
    BY <1>4, <2>3, Zenon
  <2> QED
    BY <2>1, <2>2, <2>3
<1> QED
  BY <1>4, <1>5

LEMMA CaseReported ==
  ASSUME Inv, NEW files \in Nat, NEW counts \in Tallies, NEW verified \in BOOLEAN,
         Report(files, counts, verified), Kind # "none",
         troubles' \in Nat, troubles' >= troubles,
         Kind \in Concurrent =>
           \/ Total(counts) = files
           \/ Kind = "deleteFiles" /\ counts.ok = 0 /\ counts.fail = 1 /\ troubles' > 0,
         Kind = "download" => counts.bad = 0
  PROVE  EveryResultCounted' /\ DownloadsMatch' /\ reports' \in Seq(Reports)
<1> DEFINE r == [kind |-> Kind, case |-> Case, files |-> files,
                 ok |-> counts.ok, fail |-> counts.fail, bad |-> counts.bad, verified |-> verified]
<1>1. r \in Reports
  BY CaseIsCase DEF Reports, Tallies
<1>2. /\ r.kind = Kind /\ r.files = files
      /\ r.ok = counts.ok /\ r.fail = counts.fail /\ r.bad = counts.bad
  OBVIOUS
<1>3. reports' = Append(reports, r) /\ reports \in Seq(Reports)
  BY DEF Report, Inv, TypeOK
<1> HIDE DEF r
<1>4. /\ reports' \in Seq(Reports)
      /\ \A i \in DOMAIN reports' : reports'[i] = r \/ (i \in DOMAIN reports /\ reports'[i] = reports[i])
  BY <1>1, <1>3, AppendElements
<1>5. troubles \in Nat
  BY DEF Inv, TypeOK
<1>6. EveryResultCounted'
  <2> SUFFICES ASSUME NEW i \in DOMAIN reports', reports'[i].kind \in Concurrent
               PROVE  \/ reports'[i].ok + reports'[i].fail + reports'[i].bad = reports'[i].files
                      \/ /\ reports'[i].kind = "deleteFiles"
                         /\ reports'[i].ok = 0 /\ reports'[i].fail = 1 /\ troubles' > 0
    BY DEF EveryResultCounted, Concurrent
  <2>1. CASE reports'[i] = r
    BY <1>2, <2>1 DEF Total
  <2>2. CASE i \in DOMAIN reports /\ reports'[i] = reports[i]
    BY <1>5, <2>2 DEF Inv, Ledger, EveryResultCounted
  <2> QED
    BY <1>4, <2>1, <2>2
<1>7. DownloadsMatch'
  BY <1>2, <1>4 DEF Inv, Ledger, DownloadsMatch
<1> QED
  BY <1>4, <1>6, <1>7

-----------------------------------------------------------------------------
(* Where the goroutines are.                                               *)

(* A goroutine that goes on, and has sent nothing yet.                     *)
LEMMA GoesOn ==
  ASSUME Inv, NEW w \in Ids, NEW from \in {"request", "found"}, NEW to \in {"found", "reply"},
         worker[w] = from, worker' = [worker EXCEPT ![w] = to],
         UNCHANGED <<loop, wg, channel>>
  PROVE  /\ main = "launch" /\ Launched' = Launched
         /\ Round' /\ (wg = Cardinality(Busy))' /\ (results = Sent)'
<1> USE DEF loop, channel
<1>1. worker \in [Ids -> {"none", "request", "found", "reply", "finish", "gone"}]
  BY DEF Inv, TypeOK
<1>2. Launched' = Launched /\ Busy' = Busy /\ Sent' = Sent
  BY <1>1 DEF Launched, Busy, Sent
<1>3. main = "launch"
  BY AliveInLaunch
<1> QED
  BY <1>2, <1>3 DEF Inv, Round, Counting

(* main goes on while no goroutine exists.                                 *)
LEMMA QuietStep ==
  ASSUME Inv, main # "launch", main' # "launch",
         UNCHANGED <<wg, worker, pipe, outcome, results, uploaded, whole>>
  PROVE  Round' /\ Counting' /\ Bodies'
<1>1. \A w \in Ids : worker[w] = "none" /\ outcome[w] = "none"
  BY DEF Inv, Round, Launched, Counting
<1>2. Launched' = Launched /\ Busy' = Busy /\ Sent' = Sent
  BY DEF Launched, Busy, Sent
<1> QED
  BY <1>1, <1>2 DEF Inv, Round, Counting, Bodies

(* main starts a round.                                                    *)
LEMMA RoundStarts ==
  ASSUME Inv, main # "launch", NEW jobs \in SUBSET Ids, Start(jobs),
         Kind = "download" => jobs \subseteq uploaded,
         UNCHANGED <<wg, worker, pipe, outcome, uploaded, whole>>
  PROVE  Round' /\ Counting' /\ Bodies' /\ capacity' \in Nat
<1> USE DEF Start
<1>1. \A w \in Ids : worker[w] = "none" /\ outcome[w] = "none"
  BY DEF Inv, Round, Launched, Counting
<1>2. Launched' = Launched /\ Busy' = Busy /\ Sent' = Sent
  BY DEF Launched, Busy, Sent
<1>3. Launched = {}
  BY <1>1 DEF Launched
<1>4. Kind' = Kind
  BY KindKept
<1>5. capacity' \in Nat
  BY SubsetsFinite
<1>6. Round'
  BY <1>2, <1>3 DEF Round
<1>7. Counting'
  BY <1>2 DEF Inv, Counting
<1>8. Bodies'
  BY <1>1, <1>2, <1>3, <1>4 DEF Inv, Bodies
<1> QED
  BY <1>5, <1>6, <1>7, <1>8

-----------------------------------------------------------------------------
(* Every action preserves the invariant.                                   *)

LEMMA InvInit == Init => Inv
<1> SUFFICES ASSUME Init PROVE Inv
  OBVIOUS
<1> USE DEF Init
<1>1. TypeOK
  <2>1. server \in [Ids -> Seq(Names) \cup {Nothing}]
    BY ConstantsTyped
  <2>2. tally \in Tallies /\ reports \in Seq(Reports)
    BY DEF NoTally, Tallies
  <2>3. passed \in BOOLEAN
    OBVIOUS
  <2> QED
    BY <2>1, <2>2, <2>3, BenchmarkAssumption DEF TypeOK
<1>2. Round
  BY DEF Round, Launched
<1>3. Counting
  <2>1. Busy = {} /\ Sent = {}
    BY DEF Busy, Sent
  <2> QED
    BY <2>1, FS_EmptySet DEF Counting
<1>4. Bodies
  BY DEF Bodies
<1>5. Ledger
  BY DEF Ledger, Verifying, EveryResultCounted, DownloadsMatch
<1> QED
  BY <1>1, <1>2, <1>3, <1>4, <1>5 DEF Inv

LEMMA BeginUploadStep == ASSUME Inv, BeginUpload PROVE Inv'
<1> USE DEF BeginUpload, At, Start, store, threads, record, history
<1>1. UploadCases[Case] \in SUBSET Ids /\ main # "launch" /\ Kind # "download"
  BY CaseIsCase, ConstantsTyped
<1>2. Round' /\ Counting' /\ Bodies' /\ capacity' \in Nat
  BY <1>1, RoundStarts
<1>3. TypeOK'
  BY <1>2 DEF Inv, TypeOK
<1>4. Ledger'
  BY NothingReported DEF Ledger, Verifying, Inv, TypeOK
<1> QED
  BY <1>2, <1>3, <1>4 DEF Inv

LEMMA BeginDownloadStep == ASSUME Inv, BeginDownload PROVE Inv'
<1> USE DEF BeginDownload, At, store, threads, record, history, channel
<1> DEFINE caseFiles == UploadCases[Case] \cap uploaded
<1>1. CASE Start(caseFiles) /\ UNCHANGED record
  <2> USE <1>1
  <2>1. caseFiles \in SUBSET Ids /\ main # "launch" /\ caseFiles \subseteq uploaded
    BY DEF Inv, TypeOK
  <2>2. Round' /\ Counting' /\ Bodies' /\ capacity' \in Nat
    BY <2>1, RoundStarts
  <2>3. TypeOK'
    BY <2>2 DEF Inv, TypeOK, Start
  <2>4. Ledger'
    BY NothingReported DEF Ledger, Verifying, Inv, TypeOK, Start
  <2> QED
    BY <2>2, <2>3, <2>4 DEF Inv
<1>2. CASE Proceed /\ UNCHANGED <<channel, uploaded, reports>>
  <2> USE <1>2 DEF Proceed
  <2>1. Round' /\ Counting' /\ Bodies'
    BY QuietStep
  <2>2. passed' \in BOOLEAN
    OBVIOUS
  <2>3. TypeOK'
    BY <2>2 DEF Inv, TypeOK, NoTally, Tallies
  <2>4. Ledger'
    BY NothingReported DEF Ledger, Verifying, Inv, TypeOK
  <2> QED
    BY <2>1, <2>3, <2>4 DEF Inv
<1> QED
  BY <1>1, <1>2

LEMMA TroubleGrows ==
  ASSUME Inv, Trouble
  PROVE  began' = began /\ troubles' \in Nat /\ troubles' > troubles /\ troubles' > 0
BY DEF Trouble, Inv, TypeOK

LEMMA BeginDeleteFilesStep == ASSUME Inv, BeginDeleteFiles PROVE Inv'
<1> USE DEF BeginDeleteFiles, At, store, record, history, channel
<1> DEFINE case == DeleteFileCases[Case]
           jobs == {id \in Stored : LiesIn(case.folder, server[id])}
<1>1. CASE Start(jobs) /\ target' = ListedPaths(jobs) /\ UNCHANGED <<record, history>>
  <2> USE <1>1
  <2>1. jobs \in SUBSET Ids /\ main # "launch" /\ Kind # "download"
    BY DEF Stored
  <2>2. Round' /\ Counting' /\ Bodies' /\ capacity' \in Nat
    BY <2>1, RoundStarts
  <2>3. target' \in [Ids -> Seq(Names) \cup Ids \cup {Nothing}]
    <3> HIDE DEF jobs
    <3> QED
      BY DEF ListedPaths, Inv, TypeOK
  <2>4. TypeOK'
    BY <2>2, <2>3 DEF Inv, TypeOK, Start
  <2>5. Ledger'
    BY NothingReported DEF Ledger, Verifying, Inv, TypeOK, Start
  <2> QED
    BY <2>2, <2>4, <2>5 DEF Inv
<1>2. CASE /\ Trouble /\ Report(case.files, [NoTally EXCEPT !.fail = 1], FALSE)
           /\ Proceed /\ UNCHANGED <<target, channel, uploaded>>
  <2> USE <1>2 DEF Proceed
  <2>1. Round' /\ Counting' /\ Bodies'
    BY QuietStep
  <2>2. troubles' \in Nat /\ troubles' >= troubles /\ troubles' > 0
    BY TroubleGrows DEF Inv, TypeOK
  <2>3. /\ [NoTally EXCEPT !.fail = 1] = [ok |-> 0, fail |-> 1, bad |-> 0]
        /\ [ok |-> 0, fail |-> 1, bad |-> 0] \in Tallies
    BY DEF NoTally, Tallies
  <2>4. EveryResultCounted' /\ DownloadsMatch' /\ reports' \in Seq(Reports)
    BY <2>2, <2>3, CaseReported, CaseIsCase
  <2>5. passed' \in BOOLEAN
    OBVIOUS
  <2>6. TypeOK'
    BY <2>2, <2>4, <2>5 DEF Inv, TypeOK, NoTally, Tallies, Trouble
  <2> QED
    BY <2>1, <2>4, <2>6 DEF Inv, Ledger, Verifying
<1> QED
  BY <1>1, <1>2

LEMMA LaunchStep == ASSUME Inv, NEW w \in Ids, Launch(w) PROVE Inv'
<1> USE DEF Launch, store, channel, record, history
<1>1. /\ main = "launch" /\ w \in todo /\ worker[w] = "none"
      /\ worker \in [Ids -> {"none", "request", "found", "reply", "finish", "gone"}]
  BY DEF Inv, TypeOK, Round, Launched
<1>2. /\ Launched' = Launched \cup {w} /\ Busy' = Busy \cup {w} /\ w \notin Busy
      /\ Sent' = Sent
  BY <1>1 DEF Launched, Busy, Sent
<1>3. wg' = Cardinality(Busy') /\ wg' \in Nat
  <2>1. Busy \subseteq Ids
    BY DEF Busy
  <2>2. IsFiniteSet(Busy) /\ Cardinality(Busy) \in Nat
    BY <2>1, SubsetsFinite
  <2>3. Cardinality(Busy \cup {w}) = Cardinality(Busy) + 1
    BY <1>2, <2>2, FS_AddElement
  <2> QED
    BY <1>2, <2>2, <2>3 DEF Inv, Counting
<1>4. Kind' = Kind
  BY KindKept
<1>5. todo' \cup Launched' = todo \cup Launched
  BY <1>1, <1>2
<1>6. TypeOK'
  BY <1>3 DEF Inv, TypeOK
<1>7. Round'
  BY <1>1, <1>2, <1>5 DEF Inv, Round
<1>8. Counting'
  BY <1>1, <1>2, <1>3 DEF Inv, Counting
<1>9. Bodies'
  <2>1. \A v \in Ids : pipe'[v] \in {"copied", "ended"} => pipe[v] \in {"copied", "ended"}
    BY DEF Inv, TypeOK
  <2>2. \A v \in Ids : worker'[v] = "found" => worker[v] = "found"
    BY <1>1
  <2> QED
    BY <1>1, <1>4, <1>5, <2>1, <2>2 DEF Inv, Bodies
<1>10. Ledger'
  BY <1>1, NothingReported DEF Ledger, Verifying, Inv, TypeOK
<1> QED
  BY <1>6, <1>7, <1>8, <1>9, <1>10 DEF Inv

-----------------------------------------------------------------------------
(* The copying goroutine.                                                  *)

(* It changes the body, and what was read of the file.                     *)
LEMMA BodyStep ==
  ASSUME Inv, NEW w \in Ids, NEW state \in {"copied", "ended", "failed"},
         pipe' = [pipe EXCEPT ![w] = state],
         state \in {"copied", "ended"} => w \in whole',
         whole \subseteq whole', whole' \subseteq Ids,
         began' = began, troubles' \in Nat, troubles' >= troubles,
         UNCHANGED <<server, late, loop, wg, worker, target, outcome, channel, record>>
  PROVE  Inv'
<1> USE DEF loop, channel, record
<1>1. Launched' = Launched /\ Busy' = Busy /\ Sent' = Sent /\ Kind' = Kind
  BY KindKept DEF Launched, Busy, Sent
<1>2. TypeOK'
  BY DEF Inv, TypeOK
<1>3. Round' /\ Counting'
  BY <1>1 DEF Inv, Round, Counting
<1>4. Bodies'
  <2>1. \A v \in Ids : pipe'[v] \in {"copied", "ended"} => v \in whole'
    BY DEF Inv, TypeOK, Bodies
  <2> QED
    BY <1>1, <2>1 DEF Inv, Bodies
<1>5. Ledger'
  BY <1>1, NothingReported DEF Ledger, Verifying, Inv
<1> QED
  BY <1>2, <1>3, <1>4, <1>5 DEF Inv

LEMMA CopyFileStep == ASSUME Inv, NEW w \in Ids, CopyFile(w) PROVE Inv'
<1>1. whole' \subseteq Ids /\ troubles' \in Nat /\ troubles' >= troubles
  BY DEF CopyFile, Inv, TypeOK, history
<1> QED
  BY <1>1, BodyStep DEF CopyFile, history

LEMMA CopyFailsStep == ASSUME Inv, NEW w \in Ids, CopyFails(w) PROVE Inv'
<1>1. whole' \subseteq Ids /\ troubles' \in Nat /\ troubles' >= troubles
  BY TroubleGrows DEF CopyFails, Inv, TypeOK, store
<1> QED
  BY <1>1, BodyStep DEF CopyFails, Trouble, store

LEMMA EndBodyStep == ASSUME Inv, NEW w \in Ids, EndBody(w) PROVE Inv'
<1>1. /\ whole' \subseteq Ids /\ troubles' \in Nat /\ troubles' >= troubles
      /\ pipe[w] = "copied" /\ w \in whole'
  BY DEF EndBody, Inv, TypeOK, Bodies, store, history
<1> QED
  BY <1>1, BodyStep DEF EndBody, store, history

-----------------------------------------------------------------------------
(* The answers.                                                            *)

(* A request of the round is answered: o is what becomes of it.            *)
LEMMA AnswerStep ==
  ASSUME Inv, NEW w \in Ids, NEW from \in {"request", "found"}, NEW o \in {"ok", "fail"},
         Answer(w, from, o), Kind = "upload" /\ o = "ok" => w \in whole,
         server' \in [Ids -> Seq(Names) \cup {Nothing}],
         late' \subseteq Ids,
         pipe' \in [Ids -> {"none", "open", "copied", "ended", "failed"}],
         \A v \in Ids : pipe'[v] \in {"copied", "ended"} => pipe[v] \in {"copied", "ended"},
         began' = began, troubles' \in Nat, troubles' >= troubles,
         UNCHANGED <<whole, loop, wg, target, channel, record>>
  PROVE  Inv'
<1> USE DEF Answer
<1>1. /\ main = "launch" /\ Launched' = Launched
      /\ Round' /\ (wg = Cardinality(Busy))' /\ (results = Sent)'
  BY GoesOn
<1>2. Kind' = Kind /\ main' = main
  BY KindKept DEF loop
<1>3. TypeOK'
  BY DEF Inv, TypeOK, loop, channel, record
<1>4. Counting'
  <2>1. \A v \in Ids : outcome'[v] = "none" <=> worker'[v] \in {"none", "request", "found"}
    BY DEF Inv, TypeOK, Counting
  <2> QED
    BY <1>1, <2>1 DEF Counting
<1>5. Bodies'
  <2>1. \A v \in Ids : worker'[v] = "found" => worker[v] = "found"
    BY DEF Inv, TypeOK
  <2>2. \A v \in Ids : outcome'[v] # "bad" /\ (outcome'[v] = "ok" => outcome[v] = "ok" \/ (v = w /\ o = "ok"))
    <3>1. /\ \A v \in Ids : outcome[v] # "bad"
          /\ outcome \in [Ids -> {"none", "ok", "fail", "bad"}]
      BY DEF Inv, TypeOK, Bodies
    <3>2. \A v \in Ids : outcome'[v] = IF v = w THEN o ELSE outcome[v]
      BY <3>1
    <3> SUFFICES ASSUME NEW v \in Ids
                 PROVE  /\ outcome'[v] # "bad"
                        /\ outcome'[v] = "ok" => outcome[v] = "ok" \/ (v = w /\ o = "ok")
      OBVIOUS
    <3>3. CASE v = w
      BY <3>2, <3>3
    <3>4. CASE v # w
      BY <3>1, <3>2, <3>4
    <3> QED
      BY <3>3, <3>4
  <2> QED
    BY <1>1, <1>2, <2>1, <2>2 DEF Inv, Bodies, loop, record
<1>6. Ledger'
  BY <1>1, <1>2, NothingReported DEF Ledger, Verifying, Inv, record
<1> QED
  BY <1>1, <1>3, <1>4, <1>5, <1>6 DEF Inv

LEMMA StoreUploadStep == ASSUME Inv, NEW w \in Ids, StoreUpload(w) PROVE Inv'
<1> USE DEF StoreUpload, history
<1>1. w \in whole
  BY DEF Inv, Bodies
<1>2. server' \in [Ids -> Seq(Names) \cup {Nothing}] /\ late' \subseteq Ids
  BY ConstantsTyped DEF Inv, TypeOK
<1>3. pipe' \in [Ids -> {"none", "open", "copied", "ended", "failed"}]
      /\ troubles' \in Nat /\ troubles' >= troubles
  BY DEF Inv, TypeOK
<1> QED
  BY <1>1, <1>2, <1>3, AnswerStep

LEMMA UploadBrokenStep == ASSUME Inv, NEW w \in Ids, UploadBroken(w) PROVE Inv'
<1> USE DEF UploadBroken, store, history
<1>1. /\ server' \in [Ids -> Seq(Names) \cup {Nothing}] /\ late' \subseteq Ids
      /\ pipe' \in [Ids -> {"none", "open", "copied", "ended", "failed"}]
      /\ troubles' \in Nat /\ troubles' >= troubles
  BY DEF Inv, TypeOK
<1> QED
  BY <1>1, AnswerStep

(* Only what was uploaded is downloaded, and that was read to its end.     *)
LEMMA ServeDownloadStep == ASSUME Inv, NEW w \in Ids, ServeDownload(w) PROVE Inv'
<1> USE DEF ServeDownload, store, history
<1>1. /\ server' \in [Ids -> Seq(Names) \cup {Nothing}] /\ late' \subseteq Ids
      /\ pipe' \in [Ids -> {"none", "open", "copied", "ended", "failed"}]
      /\ troubles' \in Nat /\ troubles' >= troubles
  BY DEF Inv, TypeOK
<1>2. worker[w] = "request"
  BY DEF Answer
<1>3. w \in whole
  BY <1>2, AliveInLaunch DEF Inv, Bodies
<1>4. Answer(w, "request", IF server[w] = Nothing THEN "fail" ELSE "ok")
  BY <1>3
<1> QED
  BY <1>1, <1>4, AnswerStep

LEMMA FindVersionStep == ASSUME Inv, NEW w \in Ids, FindVersion(w) PROVE Inv'
<1> USE DEF FindVersion, store, channel, record, history
<1>1. ASSUME NEW id \in Stored, worker[w] = "request",
             worker' = [worker EXCEPT ![w] = "found"], target' = [target EXCEPT ![w] = id],
             UNCHANGED outcome
      PROVE  Inv'
  <2> USE <1>1
  <2>1. /\ main = "launch" /\ Launched' = Launched
        /\ Round' /\ (wg = Cardinality(Busy))' /\ (results = Sent)'
    BY GoesOn
  <2>2. Kind' = Kind /\ main' = main
    BY KindKept DEF loop
  <2>3. TypeOK'
    BY DEF Inv, TypeOK, loop, Stored
  <2>4. Counting'
    <3>1. \A v \in Ids : outcome'[v] = "none" <=> worker'[v] \in {"none", "request", "found"}
      BY DEF Inv, TypeOK, Counting
    <3> QED
      BY <2>1, <3>1 DEF Counting
  <2>5. Bodies'
    BY <2>1, <2>2 DEF Inv, Bodies, loop
  <2>6. Ledger'
    BY <2>1, <2>2, NothingReported DEF Ledger, Verifying, Inv, TypeOK
  <2> QED
    BY <2>1, <2>3, <2>4, <2>5, <2>6 DEF Inv
<1>2. CASE Answer(w, "request", "fail") /\ UNCHANGED target
  <2>1. /\ server' \in [Ids -> Seq(Names) \cup {Nothing}] /\ late' \subseteq Ids
        /\ pipe' \in [Ids -> {"none", "open", "copied", "ended", "failed"}]
        /\ troubles' \in Nat /\ troubles' >= troubles
    BY DEF Inv, TypeOK
  <2> QED
    BY <1>2, <2>1, AnswerStep
<1> QED
  BY <1>1, <1>2

LEMMA DeleteVersionStep == ASSUME Inv, NEW w \in Ids, DeleteVersion(w) PROVE Inv'
<1> USE DEF DeleteVersion
<1>1. /\ server' \in [Ids -> Seq(Names) \cup {Nothing}] /\ late' \subseteq Ids
      /\ pipe' \in [Ids -> {"none", "open", "copied", "ended", "failed"}]
  BY DEF Inv, TypeOK
<1>2. began' = began /\ troubles' \in Nat /\ troubles' >= troubles
  <2>1. CASE Trouble
    BY <2>1, TroubleGrows DEF Inv, TypeOK
  <2>2. CASE UNCHANGED history
    BY <2>2 DEF Inv, TypeOK, history
  <2> QED
    BY <2>1, <2>2
<1>3. worker[w] = "found"
  BY DEF Answer
<1>4. Kind # "upload"
  BY <1>3 DEF Inv, Bodies
<1>5. PICK o \in {"ok", "fail"} : Answer(w, "found", o)
  OBVIOUS
<1> QED
  BY <1>1, <1>2, <1>4, <1>5, AnswerStep

LEMMA RequestFailsStep == ASSUME Inv, NEW w \in Ids, RequestFails(w) PROVE Inv'
<1> USE DEF RequestFails
<1>1. /\ server' \in [Ids -> Seq(Names) \cup {Nothing}] /\ late' \subseteq Ids
      /\ pipe' \in [Ids -> {"none", "open", "copied", "ended", "failed"}]
  BY DEF Inv, TypeOK
<1>2. \A v \in Ids : pipe'[v] \in {"copied", "ended"} => pipe[v] \in {"copied", "ended"}
  BY DEF Inv, TypeOK
<1>3. began' = began /\ troubles' \in Nat /\ troubles' >= troubles
  BY TroubleGrows DEF Inv, TypeOK
<1>4. Answer(w, "request", "fail")
  OBVIOUS
<1> QED
  BY <1>1, <1>2, <1>3, <1>4, AnswerStep

LEMMA StoreLateStep == ASSUME Inv, NEW w \in Ids, StoreLate(w) PROVE Inv'
<1> USE DEF StoreLate, loop, threads, channel, record, history
<1>1. Launched' = Launched /\ Busy' = Busy /\ Sent' = Sent /\ Kind' = Kind
  BY KindKept DEF Launched, Busy, Sent
<1>2. TypeOK'
  BY ConstantsTyped DEF Inv, TypeOK
<1>3. Round' /\ Counting' /\ Bodies'
  BY <1>1 DEF Inv, Round, Counting, Bodies
<1>4. Ledger'
  BY <1>1, NothingReported DEF Ledger, Verifying, Inv, TypeOK
<1> QED
  BY <1>2, <1>3, <1>4 DEF Inv

-----------------------------------------------------------------------------
(* The channel and the WaitGroup.                                          *)

LEMMA SendStep == ASSUME Inv, NEW w \in Ids, Send(w) PROVE Inv'
<1> USE DEF Send, store, loop, record, history
<1>1. /\ main = "launch" /\ worker \in [Ids -> {"none", "request", "found", "reply", "finish", "gone"}]
      /\ worker[w] = "reply"
  BY AliveInLaunch DEF Inv, TypeOK
<1>2. Launched' = Launched /\ Busy' = Busy /\ Sent' = Sent \cup {w} /\ Kind' = Kind
  BY <1>1, KindKept DEF Launched, Busy, Sent
<1>3. TypeOK'
  BY DEF Inv, TypeOK
<1>4. Round'
  BY <1>1, <1>2 DEF Inv, Round
<1>5. Counting'
  <2>1. \A v \in Ids : outcome'[v] = "none" <=> worker'[v] \in {"none", "request", "found"}
    BY <1>1 DEF Inv, Counting
  <2> QED
    BY <1>2, <2>1 DEF Inv, Counting
<1>6. Bodies'
  BY <1>1, <1>2 DEF Inv, Bodies
<1>7. Ledger'
  BY <1>2, NothingReported DEF Ledger, Verifying, Inv, TypeOK
<1> QED
  BY <1>3, <1>4, <1>5, <1>6, <1>7 DEF Inv

LEMMA DoneStep == ASSUME Inv, NEW w \in Ids, Done(w) PROVE Inv'
<1> USE DEF Done, store, loop, channel, record, history
<1>1. /\ main = "launch" /\ worker \in [Ids -> {"none", "request", "found", "reply", "finish", "gone"}]
      /\ worker[w] = "finish"
  BY AliveInLaunch DEF Inv, TypeOK
<1>2. /\ Launched' = Launched /\ Busy' = Busy \ {w} /\ w \in Busy /\ Busy \subseteq Ids
      /\ Sent' = Sent /\ Kind' = Kind
  BY <1>1, KindKept DEF Launched, Busy, Sent
<1>3. wg' = Cardinality(Busy') /\ wg' \in Nat
  <2>1. IsFiniteSet(Busy) /\ Cardinality(Busy) \in Nat
    BY <1>2, SubsetsFinite
  <2>2. Cardinality(Busy \ {w}) = Cardinality(Busy) - 1
    BY <1>2, <2>1, FS_RemoveElement
  <2>3. Cardinality(Busy \ {w}) \in Nat
    BY <1>2, SubsetsFinite
  <2> QED
    BY <1>2, <2>1, <2>2, <2>3 DEF Inv, Counting
<1>4. TypeOK'
  BY <1>3 DEF Inv, TypeOK
<1>5. Round'
  BY <1>1, <1>2 DEF Inv, Round
<1>6. Counting'
  <2>1. \A v \in Ids : outcome'[v] = "none" <=> worker'[v] \in {"none", "request", "found"}
    BY <1>1 DEF Inv, Counting
  <2> QED
    BY <1>2, <1>3, <2>1 DEF Inv, Counting
<1>7. Bodies'
  BY <1>1, <1>2 DEF Inv, Bodies
<1>8. Ledger'
  BY <1>2, NothingReported DEF Ledger, Verifying, Inv, TypeOK
<1> QED
  BY <1>4, <1>5, <1>6, <1>7, <1>8 DEF Inv

(* When wg.Wait() returns, each goroutine of the round is done, and its    *)
(* result is in the channel.                                               *)
LEMMA AllResultsAreIn ==
  ASSUME Inv, AllDone
  PROVE  /\ results = Launched /\ capacity = Cardinality(results)
         /\ Counts \in Tallies /\ Total(Counts) = capacity /\ Counts.bad = 0
<1>1. /\ main = "launch" /\ todo = {} /\ wg = 0
      /\ capacity = Cardinality(todo \cup Launched) /\ wg = Cardinality(Busy) /\ results = Sent
      /\ worker \in [Ids -> {"none", "request", "found", "reply", "finish", "gone"}]
      /\ outcome \in [Ids -> {"none", "ok", "fail", "bad"}]
  BY DEF AllDone, Inv, TypeOK, Round, Counting
<1>2. IsFiniteSet(Busy)
  BY SubsetsFinite DEF Busy
<1>3. Busy = {}
  BY <1>1, <1>2, FS_EmptySet
<1>4. results = Launched
  BY <1>1, <1>3 DEF Busy, Sent, Launched
<1>5. todo \cup Launched = results
  BY <1>1, <1>4
<1>6. results \subseteq Ids /\ \A w \in results : outcome[w] \in {"ok", "fail", "bad"}
  BY <1>1 DEF Inv, Counting, Sent
<1>7. Counts \in Tallies /\ Total(Counts) = Cardinality(results)
  BY <1>6, CountsAddUp
<1>8. Counts.bad = 0
  <2>1. {w \in results : outcome[w] = "bad"} = {}
    BY <1>6 DEF Inv, Bodies
  <2>2. Counted("bad") = 0
    BY <2>1, FS_EmptySet DEF Counted
  <2> QED
    BY <2>2 DEF Counts
<1> QED
  BY <1>1, <1>4, <1>5, <1>7, <1>8

LEMMA CollectStep == ASSUME Inv, Collect PROVE Inv'
<1> DEFINE good == {w \in results : outcome[w] = "ok"}
<1>1. /\ AllDone /\ Drained /\ UNCHANGED <<store, wg, history>>
      /\ uploaded' = uploaded \cup IF Kind = "upload" THEN good ELSE {}
      /\ \/ Kind \in {"upload", "download"} /\ Report(capacity, Counts, FALSE) /\ Proceed
         \/ /\ Kind = "deleteFiles" /\ tally' = Counts /\ main' = "verify"
            /\ UNCHANGED <<step, todo, passed, arrived, reports>>
  BY DEF Collect
<1> USE <1>1 DEF Drained, store, history
<1>2. /\ Counts \in Tallies /\ Total(Counts) = capacity /\ Counts.bad = 0
      /\ wg = 0 /\ capacity \in Nat /\ troubles' \in Nat /\ troubles' >= troubles
  BY AllResultsAreIn DEF AllDone, Inv, TypeOK
<1>3. uploaded' \subseteq whole' /\ uploaded' \subseteq Ids
  BY DEF Inv, TypeOK, Bodies
<1>4. main' \in {"begin", "verify", "done"} /\ step' \in Nat \ {0} /\ tally' \in Tallies
  <2>1. CASE Proceed
    BY <2>1 DEF Proceed, NoTally, Tallies, Inv, TypeOK
  <2>2. CASE tally' = Counts /\ main' = "verify" /\ UNCHANGED <<step, todo, passed, arrived, reports>>
    BY <1>2, <2>2 DEF Inv, TypeOK
  <2> QED
    BY <2>1, <2>2
<1>5. Launched' = {} /\ Busy' = {} /\ Sent' = {}
  BY DEF Launched, Busy, Sent
<1>6. EveryResultCounted' /\ DownloadsMatch' /\ reports' \in Seq(Reports)
  <2>1. CASE Kind \in {"upload", "download"} /\ Report(capacity, Counts, FALSE) /\ Proceed
    BY <1>2, <2>1, CaseReported
  <2>2. CASE UNCHANGED reports
    BY <1>2, <2>2, NothingReported
  <2> QED
    BY <2>1, <2>2
<1>7. TypeOK'
  <2>1. passed' \in BOOLEAN
    <3>1. CASE Proceed
      BY <3>1 DEF Proceed
    <3>2. CASE UNCHANGED <<step, todo, passed, arrived, reports>>
      BY <3>2 DEF Inv, TypeOK
    <3> QED
      BY <3>1, <3>2
  <2>2. arrived' \subseteq Ids /\ step' \in Nat \ {0}
    BY <1>4 DEF Inv, TypeOK, Proceed
  <2> QED
    BY <1>2, <1>3, <1>4, <1>6, <2>1, <2>2 DEF Inv, TypeOK
<1>8. Round'
  BY <1>4, <1>5 DEF Round
<1>9. Counting'
  BY <1>2, <1>5, FS_EmptySet DEF Counting
<1>10. Bodies'
  BY <1>3, <1>4 DEF Bodies
<1>11. Ledger'
  <2>1. CASE Proceed
    BY <1>6, <2>1 DEF Proceed, Ledger, Verifying
  <2>2. CASE tally' = Counts /\ main' = "verify" /\ UNCHANGED <<step, todo, passed, arrived, reports>>
    BY <1>2, <1>6, <2>2 DEF Ledger, Verifying
  <2> QED
    BY <2>1, <2>2
<1> QED
  BY <1>7, <1>8, <1>9, <1>10, <1>11 DEF Inv

-----------------------------------------------------------------------------
(* What main does by itself.                                               *)

(* It reports a case that no goroutine takes part in any more.             *)
LEMMA ReportedStep ==
  ASSUME Inv, main # "launch", Kind # "none",
         NEW files \in Nat, NEW counts \in Tallies, NEW verified \in BOOLEAN,
         Report(files, counts, verified), Proceed,
         server' \in [Ids -> Seq(Names) \cup {Nothing}],
         began' = began, troubles' \in Nat, troubles' >= troubles,
         Kind \in Concurrent => Total(counts) = files, Kind # "download",
         UNCHANGED <<whole, late, wg, threads, channel, uploaded>>
  PROVE  Inv'
<1> USE DEF threads, channel, Proceed
<1>1. Round' /\ Counting' /\ Bodies'
  BY QuietStep
<1>2. EveryResultCounted' /\ DownloadsMatch' /\ reports' \in Seq(Reports)
  BY CaseReported
<1>3. passed' \in BOOLEAN
  OBVIOUS
<1>4. TypeOK'
  BY <1>2, <1>3 DEF Inv, TypeOK, NoTally, Tallies
<1> QED
  BY <1>1, <1>2, <1>4 DEF Inv, Ledger, Verifying

LEMMA BeginListStep == ASSUME Inv, BeginList PROVE Inv'
<1> USE DEF BeginList, At, store, threads, channel, record, history
<1>1. Round' /\ Counting' /\ Bodies'
  BY QuietStep
<1>2. TypeOK'
  BY DEF Inv, TypeOK
<1>3. Ledger'
  BY NothingReported DEF Ledger, Verifying, Inv, TypeOK
<1> QED
  BY <1>1, <1>2, <1>3 DEF Inv

LEMMA ListFolderStep == ASSUME Inv, ListFolder PROVE Inv'
<1> USE DEF ListFolder, At, store, threads, channel
<1>1. began' = began /\ troubles' \in Nat /\ troubles' >= troubles
  <2>1. CASE Trouble
    BY <2>1, TroubleGrows DEF Inv, TypeOK
  <2>2. CASE UNCHANGED history
    BY <2>2 DEF Inv, TypeOK, history
  <2> QED
    BY <2>1, <2>2
<1>2. tally' \in Tallies
  BY DEF Inv, TypeOK, Tallies
<1>3. Round' /\ Counting' /\ Bodies'
  BY QuietStep
<1>4. TypeOK'
  BY <1>1, <1>2 DEF Inv, TypeOK
<1>5. Ledger'
  BY <1>1, NothingReported DEF Ledger, Verifying, Inv
<1> QED
  BY <1>3, <1>4, <1>5 DEF Inv

LEMMA EndListStep == ASSUME Inv, EndList PROVE Inv'
<1> USE DEF EndList, At, store, history
<1>1. /\ server' \in [Ids -> Seq(Names) \cup {Nothing}] /\ tally \in Tallies
      /\ troubles' \in Nat /\ troubles' >= troubles
  BY DEF Inv, TypeOK
<1>2. tally.ok + tally.fail + tally.bad \in Nat
  BY <1>1 DEF Tallies
<1> QED
  BY <1>1, <1>2, ReportedStep DEF Concurrent

-----------------------------------------------------------------------------
(* A request for a whole folder, and its verification.                     *)

LEMMA RequestStep ==
  ASSUME Inv, main = "begin", Kind \in {"move", "deleteFolder"},
         NEW rows \in [Ids -> Seq(Names) \cup {Nothing}], NEW files \in Nat,
         Request(rows, files), UNCHANGED <<whole, late, wg, threads, channel>>
  PROVE  Inv'
<1>1. CASE /\ server' = rows /\ main' = "verify"
           /\ UNCHANGED <<step, todo, passed, arrived, record, history>>
  <2> USE <1>1 DEF threads, channel, record, history
  <2>1. Round' /\ Counting' /\ Bodies'
    BY QuietStep
  <2>2. TypeOK'
    BY DEF Inv, TypeOK
  <2>3. Kind' = Kind
    BY KindKept
  <2>4. Ledger'
    BY <2>3, NothingReported DEF Ledger, Verifying, Inv, TypeOK
  <2> QED
    BY <2>1, <2>2, <2>4 DEF Inv
<1>2. CASE /\ Trouble /\ server' \in {rows, server}
           /\ Report(files, [NoTally EXCEPT !.fail = 1], FALSE) /\ Proceed /\ UNCHANGED uploaded
  <2> USE <1>2
  <2>1. began' = began /\ troubles' \in Nat /\ troubles' >= troubles
    BY TroubleGrows DEF Inv, TypeOK
  <2>2. [NoTally EXCEPT !.fail = 1] \in Tallies
    BY DEF NoTally, Tallies
  <2>3. server' \in [Ids -> Seq(Names) \cup {Nothing}]
    BY DEF Inv, TypeOK
  <2> QED
    BY <2>1, <2>2, <2>3, ReportedStep DEF Concurrent
<1> QED
  BY <1>1, <1>2 DEF Request

(* A path that LIKE finds in a folder is longer than the folder's.         *)
LEMMA MatchesIsLonger ==
  ASSUME NEW folder \in Seq(Names), NEW path \in Seq(Names), Covers(folder, path)
  PROVE  Len(folder) <= Len(path)
BY DEF Covers, Matches

LEMMA MoveFolderStep == ASSUME Inv, MoveFolder PROVE Inv'
<1> DEFINE case == MoveCases[Case]
           moved == {id \in Stored : Covers(case.from, server[id])}
           rows == [id \in Ids |->
                      IF id \in moved THEN Rebased(server[id], case.from, case.to) ELSE server[id]]
<1>1. /\ Kind = "move" /\ main = "begin" /\ Request(rows, case.files)
      /\ UNCHANGED <<whole, late, wg, threads, channel>>
  BY DEF MoveFolder, At
<1>2. case.from \in Seq(Names) /\ case.to \in Seq(Names) /\ case.files \in Nat
  BY <1>1, CaseIsCase
<1>3. ASSUME NEW id \in Ids PROVE rows[id] \in Seq(Names) \cup {Nothing}
  <2>1. CASE id \in moved
    <3>1. server[id] \in Seq(Names) /\ Covers(case.from, server[id])
      BY <2>1 DEF Stored, Inv, TypeOK
    <3>2. Rebased(server[id], case.from, case.to) \in Seq(Names)
      BY <1>2, <3>1, MatchesIsLonger, RebasedIsPath
    <3> QED
      BY <2>1, <3>2
  <2>2. CASE id \notin moved
    BY <2>2 DEF Inv, TypeOK
  <2> QED
    BY <2>1, <2>2
<1> HIDE DEF moved
<1>4. rows \in [Ids -> Seq(Names) \cup {Nothing}]
  BY <1>3
<1> HIDE DEF rows
<1> QED
  BY <1>1, <1>2, <1>4, RequestStep

LEMMA DeleteFolderStep == ASSUME Inv, DeleteFolder PROVE Inv'
<1> DEFINE case == DeleteFolderCases[Case]
           rows == [id \in Ids |-> IF id \in RowsUnder(case.folder) THEN Nothing ELSE server[id]]
<1>1. /\ Kind = "deleteFolder" /\ main = "begin"
      /\ UNCHANGED <<whole, late, wg, threads, channel>>
      /\ \/ Request(rows, case.files)
         \/ /\ Report(case.files, [NoTally EXCEPT !.fail = 1], FALSE) /\ Proceed
            /\ UNCHANGED <<server, uploaded, history>>
  BY DEF DeleteFolder, At
<1>2. case.files \in Nat
  BY <1>1, CaseIsCase
<1>3. CASE Request(rows, case.files)
  <2>1. rows \in [Ids -> Seq(Names) \cup {Nothing}]
    BY DEF Inv, TypeOK
  <2> HIDE DEF rows
  <2> QED
    BY <1>1, <1>2, <1>3, <2>1, RequestStep
<1>4. CASE /\ Report(case.files, [NoTally EXCEPT !.fail = 1], FALSE) /\ Proceed
           /\ UNCHANGED <<server, uploaded, history>>
  <2>1. [NoTally EXCEPT !.fail = 1] \in Tallies
    BY DEF NoTally, Tallies
  <2>2. /\ server' \in [Ids -> Seq(Names) \cup {Nothing}]
        /\ began' = began /\ troubles' \in Nat /\ troubles' >= troubles
    BY <1>4 DEF Inv, TypeOK, history
  <2> QED
    BY <1>1, <1>2, <1>4, <2>1, <2>2, ReportedStep DEF Concurrent
<1> QED
  BY <1>1, <1>3, <1>4

(* A listing of the verification.                                          *)
LEMMA ListedStep ==
  ASSUME Inv, Verifying, main' \in {"listNew", "report"}, NEW expected \in BOOLEAN,
         Listed(expected), UNCHANGED <<store, step, todo, arrived, wg, threads, channel, record>>
  PROVE  Inv'
<1> USE DEF store, threads, channel, record, Verifying
<1>0. passed' \in BOOLEAN
  BY DEF Listed
<1>1. /\ passed' \in BOOLEAN /\ began' = began /\ troubles' \in Nat /\ troubles' >= troubles
  BY <1>0, TroubleGrows DEF Listed, Inv, TypeOK, history
<1>2. Round' /\ Counting' /\ Bodies'
  BY QuietStep
<1>3. TypeOK'
  BY <1>1 DEF Inv, TypeOK
<1>4. Ledger'
  BY <1>1, KindKept, NothingReported DEF Ledger, Verifying, Inv
<1> QED
  BY <1>2, <1>3, <1>4 DEF Inv

LEMMA ListOldStep == ASSUME Inv, ListOld PROVE Inv'
<1> DEFINE expected == EntryCount(OldFolder) = 0
<1>1. expected \in BOOLEAN /\ Listed(expected)
  BY DEF ListOld
<1> HIDE DEF expected
<1> QED
  BY <1>1, ListedStep DEF ListOld, Verifying

LEMMA ListNewStep == ASSUME Inv, ListNew PROVE Inv'
<1> DEFINE expected == passed /\ EntryCount(MoveCases[Case].to) = MoveCases[Case].files
<1>1. expected \in BOOLEAN /\ Listed(expected)
  BY DEF ListNew, Inv, TypeOK
<1> HIDE DEF expected
<1> QED
  BY <1>1, ListedStep DEF ListNew, Verifying

(* The report of a verified case.                                          *)
LEMMA VerdictReported ==
  ASSUME Inv, NEW files \in Nat, NEW counts \in Tallies, ReportVerdict(files, counts),
         \/ Kind \in {"move", "deleteFolder"}
         \/ Kind = "deleteFiles" /\ Total(counts) = files
  PROVE  Inv'
<1>1. passed \in BOOLEAN /\ server' \in [Ids -> Seq(Names) \cup {Nothing}]
      /\ troubles' \in Nat /\ troubles' >= troubles /\ began' = began
  BY DEF ReportVerdict, Inv, TypeOK, store, history
<1> QED
  BY <1>1, ReportedStep DEF ReportVerdict, Concurrent, store

LEMMA ReportMoveStep == ASSUME Inv, ReportMove PROVE Inv'
<1>1. [NoTally EXCEPT !.ok = 1] \in Tallies /\ MoveCases[Case].files \in Nat
  BY CaseIsCase DEF NoTally, Tallies, ReportMove
<1> QED
  BY <1>1, VerdictReported DEF ReportMove

LEMMA ReportDeleteFilesStep == ASSUME Inv, ReportDeleteFiles PROVE Inv'
<1>1. capacity \in Nat /\ tally \in Tallies /\ Total(tally) = capacity
  BY DEF Inv, TypeOK, Ledger, ReportDeleteFiles, ReportVerdict, Verifying
<1> QED
  BY <1>1, VerdictReported DEF ReportDeleteFiles

LEMMA ReportDeleteFolderStep == ASSUME Inv, ReportDeleteFolder PROVE Inv'
<1>1. [NoTally EXCEPT !.ok = 1] \in Tallies /\ DeleteFolderCases[Case].files \in Nat
  BY CaseIsCase DEF NoTally, Tallies, ReportDeleteFolder
<1> QED
  BY <1>1, VerdictReported DEF ReportDeleteFolder

-----------------------------------------------------------------------------
LEMMA InvStep == Inv /\ [Next]_vars => Inv'
<1> SUFFICES ASSUME Inv, [Next]_vars PROVE Inv'
  OBVIOUS
<1>1. CASE Main
  <2>1. ASSUME NEW w \in Ids, Launch(w) PROVE Inv'
    BY <2>1, LaunchStep
  <2> QED
    BY <1>1, <2>1, BeginUploadStep, BeginDownloadStep, BeginDeleteFilesStep, CollectStep,
       BeginListStep, ListFolderStep, EndListStep, MoveFolderStep, DeleteFolderStep,
       ListOldStep, ListNewStep, ReportMoveStep, ReportDeleteFilesStep, ReportDeleteFolderStep
       DEF Main
<1>2. ASSUME NEW w \in Ids, Goroutine(w) PROVE Inv'
  BY <1>2, CopyFileStep, EndBodyStep, StoreUploadStep, UploadBrokenStep, ServeDownloadStep,
     FindVersionStep, DeleteVersionStep, SendStep, DoneStep DEF Goroutine
<1>3. ASSUME NEW w \in Ids, CopyFails(w) \/ RequestFails(w) \/ StoreLate(w) PROVE Inv'
  BY <1>3, CopyFailsStep, RequestFailsStep, StoreLateStep
<1>4. CASE UNCHANGED vars
  <2> USE <1>4 DEF vars, store, loop, threads, channel, record, history
  <2>1. Launched' = Launched /\ Busy' = Busy /\ Sent' = Sent /\ Kind' = Kind
    BY KindKept DEF Launched, Busy, Sent
  <2>2. TypeOK' /\ Round' /\ Counting' /\ Bodies'
    BY <2>1 DEF Inv, TypeOK, Round, Counting, Bodies
  <2>3. Ledger'
    BY <2>1, NothingReported DEF Ledger, Verifying, Inv, TypeOK
  <2> QED
    BY <2>2, <2>3 DEF Inv
<1> QED
  BY <1>1, <1>2, <1>3, <1>4 DEF Next

LEMMA InvAlways == Spec => []Inv
BY InvInit, InvStep, PTL DEF Spec

-----------------------------------------------------------------------------
(* Verdicts.                                                               *)

LEMMA LastReport ==
  ASSUME Inv, NEW files, NEW counts, NEW verified, Report(files, counts, verified)
  PROVE  Last(reports').verified = verified
<1> DEFINE r == [kind |-> Kind, case |-> Case, files |-> files,
                 ok |-> counts.ok, fail |-> counts.fail, bad |-> counts.bad,
                 verified |-> verified]
<1>1. reports' = Append(reports, r) /\ reports \in Seq(Reports) /\ r.verified = verified
  BY DEF Report, Inv, TypeOK
<1> HIDE DEF r
<1>2. reports \in Seq(Reports \cup {r}) /\ r \in Reports \cup {r}
  BY <1>1
<1>3. Append(reports, r)[Len(Append(reports, r))] = r
  BY <1>2, AppendProperties
<1> QED
  BY <1>1, <1>3 DEF Last

LEMMA ImageFinite ==
  ASSUME NEW S, IsFiniteSet(S), NEW f
  PROVE  IsFiniteSet({f[x] : x \in S})
<1> DEFINE T == {f[x] : x \in S}
           g == [x \in S |-> f[x]]
<1>1. g \in Surjection(S, T)
  BY DEF Surjection
<1> QED
  BY <1>1, FS_Surjection

(* A folder is listed as empty only if nothing is below it, be it as deep  *)
(* as it may: what does not lie in the folder lies in a folder of it.      *)
LEMMA EmptyListing ==
  ASSUME Inv, NEW folder \in Seq(Names), EntryCount(folder) = 0
  PROVE  RowsBelow(folder) = {}
<1> DEFINE direct == {id \in Stored : LiesIn(folder, server[id])}
           paths == {server[id] : id \in Stored}
           deep == {p \in paths : Within(folder, p) /\ Len(p) > Len(folder) + 1}
           name == [p \in deep |-> p[Len(folder) + 1]]
<1>1. IsFiniteSet(direct) /\ Cardinality(direct) \in Nat
  BY SubsetsFinite DEF Stored
<1>2. IsFiniteSet(deep)
  <2>1. IsFiniteSet(Stored)
    BY SubsetsFinite DEF Stored
  <2>2. IsFiniteSet(paths)
    BY <2>1, ImageFinite
  <2> QED
    BY <2>2, FS_Subset
<1>3. IsFiniteSet({name[p] : p \in deep})
  <2> HIDE DEF name, deep
  <2> QED
    BY <1>2, ImageFinite
<1>4. ChildFolders(folder, paths) = {name[p] : p \in deep}
  BY DEF ChildFolders
<1>5. Cardinality(ChildFolders(folder, paths)) \in Nat
  BY <1>3, <1>4, FS_CardinalityType
<1>6. Cardinality(direct) + Cardinality(ChildFolders(folder, paths)) = 0
  BY DEF EntryCount
<1>7. Cardinality(direct) = 0 /\ Cardinality(ChildFolders(folder, paths)) = 0
  BY <1>1, <1>5, <1>6
<1>8. direct = {} /\ {name[p] : p \in deep} = {}
  BY <1>1, <1>3, <1>4, <1>7, FS_EmptySet
<1>9. deep = {}
  BY <1>8
<1> SUFFICES ASSUME NEW id \in Stored, Within(folder, server[id]) PROVE FALSE
  BY DEF RowsBelow
<1>10. server[id] \in Seq(Names)
  BY DEF Stored, Inv, TypeOK
<1>11. Len(server[id]) \in Nat /\ Len(folder) \in Nat /\ Len(folder) < Len(server[id])
  BY <1>10, LenProperties DEF Within
<1>12. CASE Len(server[id]) = Len(folder) + 1
  BY <1>8, <1>12 DEF LiesIn
<1>13. CASE Len(server[id]) > Len(folder) + 1
  BY <1>9, <1>13
<1> QED
  BY <1>11, <1>12, <1>13

(* What is left below the old folder after it was listed as empty came     *)
(* after that: an upload that the server stores late is the only step that *)
(* puts a row there while the verification goes on.                        *)
Verdict ==
  Verifying =>
    /\ Kind \in {"move", "deleteFiles", "deleteFolder"}
    /\ main = "listNew" => Kind = "move"
    /\ main # "verify" /\ passed => RowsBelow(OldFolder) \subseteq arrived

LEMMA OldFolderKept == ASSUME UNCHANGED step PROVE OldFolder' = OldFolder
BY KindKept DEF OldFolder

LEMMA OldFolderIsPath ==
  ASSUME Kind \in {"move", "deleteFiles", "deleteFolder"}
  PROVE  OldFolder \in Seq(Names)
<1>1. CASE Kind = "move"
  BY <1>1, CaseIsCase DEF OldFolder
<1>2. CASE Kind = "deleteFiles"
  BY <1>2, CaseIsCase DEF OldFolder
<1>3. CASE Kind = "deleteFolder"
  BY <1>3, CaseIsCase DEF OldFolder
<1> QED
  BY <1>1, <1>2, <1>3

LEMMA VerdictKept ==
  ASSUME Verdict, UNCHANGED <<server, loop>>
  PROVE  Verdict'
<1> USE DEF loop
<1>1. Kind' = Kind /\ OldFolder' = OldFolder
  BY KindKept, OldFolderKept
<1>2. \A folder : RowsBelow(folder)' = RowsBelow(folder)
  BY DEF RowsBelow, Stored
<1> QED
  BY <1>1, <1>2 DEF Verdict, Verifying

LEMMA ListOldVerdict == ASSUME Inv, Verdict, ListOld PROVE Verdict'
<1> USE DEF ListOld, store, Verifying
<1>1. Kind' = Kind /\ OldFolder' = OldFolder
  BY KindKept, OldFolderKept
<1>2. Kind \in {"move", "deleteFiles", "deleteFolder"} /\ OldFolder \in Seq(Names)
  BY OldFolderIsPath DEF Verdict
<1>3. passed' => RowsBelow(OldFolder) = {}
  BY <1>2, EmptyListing DEF Listed
<1>4. RowsBelow(OldFolder)' = RowsBelow(OldFolder)
  BY <1>1 DEF RowsBelow, Stored
<1> QED
  BY <1>1, <1>2, <1>3, <1>4 DEF Verdict

LEMMA ListNewVerdict == ASSUME Inv, Verdict, ListNew PROVE Verdict'
<1> USE DEF ListNew, store, Verifying
<1>1. Kind' = Kind /\ OldFolder' = OldFolder
  BY KindKept, OldFolderKept
<1>2. RowsBelow(OldFolder)' = RowsBelow(OldFolder)
  BY <1>1 DEF RowsBelow, Stored
<1>3. passed' => passed
  BY DEF Listed
<1> QED
  BY <1>1, <1>2, <1>3 DEF Verdict

LEMMA StoreLateVerdict ==
  ASSUME Inv, Verdict, NEW id \in Ids, StoreLate(id)
  PROVE  Verdict'
<1> USE DEF StoreLate, Verifying
<1>1. Kind' = Kind /\ OldFolder' = OldFolder
  BY KindKept, OldFolderKept
<1>2. \A v \in Ids : v # id => server'[v] = server[v]
  BY DEF Inv, TypeOK
<1>3. RowsBelow(OldFolder)' \subseteq RowsBelow(OldFolder) \cup {id}
  BY <1>1, <1>2 DEF RowsBelow, Stored
<1> QED
  BY <1>1, <1>3 DEF Verdict

(* A verification begins only with the answer of a move or a delete, and   *)
(* no goroutine exists then.                                               *)
LEMMA VerdictStep == Inv /\ Verdict /\ [Next]_vars => Verdict'
<1> SUFFICES ASSUME Inv, Verdict, [Next]_vars PROVE Verdict'
  OBVIOUS
<1>1. CASE Proceed
  BY <1>1 DEF Proceed, Verdict, Verifying
<1>2. ASSUME main' \in {"launch", "list"} PROVE Verdict'
  BY <1>2 DEF Verdict, Verifying
<1>3. ASSUME main' = "verify", UNCHANGED step, Kind \in {"move", "deleteFiles", "deleteFolder"}
      PROVE  Verdict'
  BY <1>3, KindKept DEF Verdict, Verifying
<1>4. ASSUME NEW w \in Ids, worker[w] # "none", UNCHANGED main PROVE Verdict'
  BY <1>2, <1>4, AliveInLaunch
<1>5. CASE Main
  <2>1. CASE BeginUpload \/ BeginDownload \/ BeginDeleteFiles \/ BeginList \/ ListFolder \/ EndList
    BY <1>1, <1>2, <2>1 DEF BeginUpload, BeginDownload, BeginDeleteFiles, BeginList, ListFolder,
       EndList, Start, At
  <2>2. ASSUME NEW w \in Ids, Launch(w) PROVE Verdict'
    BY <1>2, <2>2 DEF Launch
  <2>3. CASE Collect
    BY <1>1, <1>3, <2>3 DEF Collect
  <2>4. CASE MoveFolder \/ DeleteFolder
    BY <1>1, <1>3, <2>4 DEF MoveFolder, DeleteFolder, Request, At
  <2>5. CASE ReportMove \/ ReportDeleteFiles \/ ReportDeleteFolder
    BY <1>1, <2>5 DEF ReportMove, ReportDeleteFiles, ReportDeleteFolder, ReportVerdict
  <2> QED
    BY <1>5, <2>1, <2>2, <2>3, <2>4, <2>5, ListOldVerdict, ListNewVerdict DEF Main
<1>6. ASSUME NEW w \in Ids, Goroutine(w) \/ CopyFails(w) \/ RequestFails(w) PROVE Verdict'
  <2>1. CASE StoreUpload(w) \/ DeleteVersion(w)
    BY <1>4, <2>1 DEF StoreUpload, DeleteVersion, Answer, loop
  <2>2. CASE UNCHANGED <<server, loop>>
    BY <2>2, VerdictKept
  <2> QED
    BY <1>6, <2>1, <2>2 DEF Goroutine, CopyFile, EndBody, UploadBroken, ServeDownload, FindVersion,
       Send, Done, CopyFails, RequestFails, store
<1>7. CASE UNCHANGED vars
  BY <1>7, VerdictKept DEF vars, store
<1> QED
  BY <1>5, <1>6, <1>7, StoreLateVerdict DEF Next

LEMMA VerdictAlways == Spec => []Verdict
<1>1. Init => Verdict
  BY DEF Init, Verdict, Verifying
<1> QED
  BY <1>1, VerdictStep, InvAlways, PTL DEF Spec

-----------------------------------------------------------------------------
(* A clean run, in which no request goes wrong.                            *)

(* The elements of Plan: where its scenarios end.                          *)
Downloads == Len(UploadCases)
Listing == 2 * Len(UploadCases) + 1
LastMove == Listing + Len(MoveCases)
LastFiles == LastMove + Len(DeleteFileCases)
LastFolder == LastFiles + Len(DeleteFolderCases)

(* What the cases before have done to a file.                              *)
Past(s) == s < step \/ (s = step /\ Verifying)
UploadedBefore(f) == \E i \in DOMAIN UploadCases : i < step /\ f \in UploadCases[i]
MovedBefore(f) == \E i \in MovesOf(f) : Past(Listing + i)
DeletedBefore(f) ==
  \/ \E i \in DOMAIN DeleteFileCases :
       Past(LastMove + i) /\ f \in FilesIn(DeleteFileCases[i].folder)
  \/ \E i \in DOMAIN DeleteFolderCases :
       Past(LastFiles + i) /\ f \in FilesUnder(DeleteFolderCases[i].folder)

(* And what those goroutines of the case have that were answered.          *)
Arrived(f) == UploadedBefore(f) \/ (Kind = "upload" /\ outcome[f] = "ok")
Removed(f) == DeletedBefore(f) \/ (Kind = "deleteFiles" /\ outcome[f] = "ok")
Whereabouts(f) == IF MovedBefore(f) THEN Home(f) ELSE PathOf[f]

Quiet ==
  /\ late = {} /\ tally.fail = 0 /\ tally.bad = 0
  /\ \A w \in Ids : pipe[w] # "failed" /\ outcome[w] \in {"none", "ok"}

Places ==
  \A id \in Ids :
    server[id] = IF id \in Files /\ Arrived(id) /\ ~Removed(id) THEN Whereabouts(id) ELSE Nothing

Jobs ==
  /\ uploaded = {f \in Files : UploadedBefore(f)}
  /\ main = "list" => todo \subseteq {Dir(PathOf[f]) : f \in Files}
  /\ main = "launch" /\ Kind = "upload" => todo \cup Launched = UploadCases[Case]
  /\ main = "launch" /\ Kind = "deleteFiles" =>
       todo \cup Launched = {f \in FilesIn(DeleteFileCases[Case].folder) : ~DeletedBefore(f)}

(* A DELETE is for the path of its own file, and finds that file's row.    *)
Targets ==
  main = "launch" /\ Kind = "deleteFiles" =>
    /\ \A w \in Ids : w \in todo \/ worker[w] = "request" => target[w] = Home(w)
    /\ \A w \in Ids : worker[w] = "found" => target[w] = w

Stages ==
  /\ main = "launch" => Kind \in Concurrent
  /\ main = "list" => Kind = "list"
  /\ Verifying => Kind \in {"move", "deleteFiles", "deleteFolder"}
  /\ main = "listNew" => Kind = "move"
  /\ main = "done" => Kind = "none"

(* What the listings show, unless the folder moved holds folders.          *)
Seen ==
  /\ main = "listNew" => passed
  /\ main = "report"
       /\ (Kind = "move" => ChildFolders(MoveCases[Case].from, LocalPaths) = {}) => passed

Succeeded(r) ==
  /\ r.fail = 0 /\ r.bad = 0
  /\ r.kind \in {"list", "deleteFiles", "deleteFolder"} => r.verified
  /\ r.kind = "move" /\ ChildFolders(MoveCases[r.case].from, LocalPaths) = {} => r.verified

Orderly ==
  /\ Quiet /\ Places /\ Jobs /\ Targets /\ Stages /\ Seen
  /\ \A i \in DOMAIN reports : Succeeded(reports[i])

Tidy == Clean => Orderly

-----------------------------------------------------------------------------
(* Where in the plan a scenario is, and so which cases are before it.      *)

KindOf(s) == IF s \in DOMAIN Plan THEN Plan[s].kind ELSE "none"

LEMMA Lengths ==
  /\ Len(UploadCases) \in Nat /\ DOMAIN UploadCases = 1 .. Len(UploadCases)
  /\ Len(MoveCases) \in Nat /\ DOMAIN MoveCases = 1 .. Len(MoveCases)
  /\ Len(DeleteFileCases) \in Nat /\ DOMAIN DeleteFileCases = 1 .. Len(DeleteFileCases)
  /\ Len(DeleteFolderCases) \in Nat /\ DOMAIN DeleteFolderCases = 1 .. Len(DeleteFolderCases)
  /\ Downloads \in Nat /\ Listing \in Nat /\ LastMove \in Nat /\ LastFiles \in Nat
  /\ LastFolder \in Nat /\ Listing = 2 * Downloads + 1
BY ConstantsTyped, LenProperties DEF Downloads, Listing, LastMove, LastFiles, LastFolder

LEMMA ScenarioElements ==
  ASSUME NEW kind, NEW n \in Nat, Scenario(kind, n) \in Seq(Steps)
  PROVE  /\ Len(Scenario(kind, n)) = n
         /\ \A i \in 1 .. n :
              Scenario(kind, n)[i].kind = kind /\ Scenario(kind, n)[i].case = i
<1> DEFINE u == Scenario(kind, n)
<1>1. u = [i \in 1 .. n |-> [kind |-> kind, case |-> i]]
  BY DEF Scenario
<1>2. Len(u) \in Nat /\ DOMAIN u = 1 .. Len(u) /\ DOMAIN u = 1 .. n
  BY <1>1, LenProperties
<1> QED
  BY <1>1, <1>2

(* A scenario appended to the elements before it.                          *)
IsScenario(u, kind, n) ==
  /\ u \in Seq(Steps) /\ Len(u) = n
  /\ \A i \in 1 .. n : u[i].kind = kind /\ u[i].case = i
Continues(p, t, kind, n) ==
  /\ p \in Seq(Steps) /\ Len(p) = Len(t) + n
  /\ \A s \in 1 .. Len(t) : p[s] = t[s]
  /\ \A s \in Len(t) + 1 .. Len(t) + n : p[s].kind = kind /\ p[s].case = s - Len(t)

LEMMA ScenarioAppended ==
  ASSUME NEW t \in Seq(Steps), NEW kind, NEW n \in Nat, NEW u, IsScenario(u, kind, n)
  PROVE  Continues(t \o u, t, kind, n)
<1>1. /\ u \in Seq(Steps) /\ Len(u) = n /\ Len(t) \in Nat
      /\ \A i \in 1 .. n : u[i].kind = kind /\ u[i].case = i
  BY DEF IsScenario
<1>2. /\ t \o u \in Seq(Steps) /\ Len(t \o u) = Len(t) + n
      /\ \A s \in 1 .. Len(t) + n : (t \o u)[s] = IF s <= Len(t) THEN t[s] ELSE u[s - Len(t)]
  BY <1>1, ConcatProperties
<1>3. ASSUME NEW s \in Len(t) + 1 .. Len(t) + n
      PROVE  (t \o u)[s].kind = kind /\ (t \o u)[s].case = s - Len(t)
  <2>1. s - Len(t) \in 1 .. n /\ ~(s <= Len(t)) /\ s \in 1 .. Len(t) + n
    BY <1>1
  <2>2. (t \o u)[s] = u[s - Len(t)]
    BY <1>2, <2>1
  <2> QED
    BY <1>1, <2>1, <2>2
<1>4. ASSUME NEW s \in 1 .. Len(t) PROVE (t \o u)[s] = t[s]
  BY <1>1, <1>2
<1> QED
  BY <1>2, <1>3, <1>4 DEF Continues

LEMMA PlanLaidOut ==
  /\ DOMAIN Plan = 1 .. LastFolder
  /\ \A s \in 1 .. Downloads : Plan[s].kind = "upload" /\ Plan[s].case = s
  /\ \A s \in Downloads + 1 .. 2 * Downloads : Plan[s].kind = "download"
  /\ Plan[Listing].kind = "list"
  /\ \A s \in Listing + 1 .. LastMove : Plan[s].kind = "move" /\ Plan[s].case = s - Listing
  /\ \A s \in LastMove + 1 .. LastFiles :
       Plan[s].kind = "deleteFiles" /\ Plan[s].case = s - LastMove
  /\ \A s \in LastFiles + 1 .. LastFolder :
       Plan[s].kind = "deleteFolder" /\ Plan[s].case = s - LastFiles
<1> DEFINE n1 == Len(UploadCases)
           n2 == Len(MoveCases)
           n3 == Len(DeleteFileCases)
           n4 == Len(DeleteFolderCases)
           p1 == Scenario("upload", n1)
           p2 == p1 \o Scenario("download", n1)
           p3 == p2 \o Scenario("list", 1)
           p4 == p3 \o Scenario("move", n2)
           p5 == p4 \o Scenario("deleteFiles", n3)
           p6 == p5 \o Scenario("deleteFolder", n4)
<1>1. Plan = p6
  BY DEF Plan
<1>2. n1 \in Nat /\ n2 \in Nat /\ n3 \in Nat /\ n4 \in Nat
  BY Lengths
<1>3. /\ IsScenario(Scenario("upload", n1), "upload", n1)
      /\ IsScenario(Scenario("download", n1), "download", n1)
      /\ IsScenario(Scenario("list", 1), "list", 1)
      /\ IsScenario(Scenario("move", n2), "move", n2)
      /\ IsScenario(Scenario("deleteFiles", n3), "deleteFiles", n3)
      /\ IsScenario(Scenario("deleteFolder", n4), "deleteFolder", n4)
  BY <1>2, ScenariosAreSteps, ScenarioElements DEF IsScenario
<1>4. /\ Downloads = n1 /\ Listing = 2 * n1 + 1 /\ LastMove = Listing + n2
      /\ LastFiles = LastMove + n3 /\ LastFolder = LastFiles + n4
  BY DEF Downloads, Listing, LastMove, LastFiles, LastFolder
<1> HIDE DEF n1, n2, n3, n4
<1>5. /\ p1 \in Seq(Steps) /\ Len(p1) = n1
      /\ \A s \in 1 .. n1 : p1[s].kind = "upload" /\ p1[s].case = s
  BY <1>3 DEF IsScenario
<1> HIDE DEF p1
<1>6. /\ p2 \in Seq(Steps) /\ Len(p2) = 2 * n1
      /\ \A s \in 1 .. n1 : p2[s] = p1[s]
      /\ \A s \in n1 + 1 .. 2 * n1 : p2[s].kind = "download" /\ p2[s].case = s - n1
  <2>1. Continues(p2, p1, "download", n1)
    BY <1>2, <1>3, <1>5, ScenarioAppended
  <2>2. Len(p1) = n1 /\ 2 * n1 = Len(p1) + n1
    BY <1>2, <1>4, <1>5
  <2> QED
    BY <2>1, <2>2 DEF Continues
<1> HIDE DEF p2
<1>7. /\ p3 \in Seq(Steps) /\ Len(p3) = Listing
      /\ \A s \in 1 .. 2 * n1 : p3[s] = p2[s]
      /\ \A s \in 2 * n1 + 1 .. Listing : p3[s].kind = "list" /\ p3[s].case = s - 2 * n1
  <2>1. Continues(p3, p2, "list", 1)
    BY <1>2, <1>3, <1>6, ScenarioAppended
  <2>2. Len(p2) = 2 * n1 /\ Listing = Len(p2) + 1
    BY <1>2, <1>4, <1>6
  <2> QED
    BY <2>1, <2>2 DEF Continues
<1> HIDE DEF p3
<1>8. /\ p4 \in Seq(Steps) /\ Len(p4) = LastMove
      /\ \A s \in 1 .. Listing : p4[s] = p3[s]
      /\ \A s \in Listing + 1 .. LastMove : p4[s].kind = "move" /\ p4[s].case = s - Listing
  <2>1. Continues(p4, p3, "move", n2)
    BY <1>2, <1>3, <1>7, ScenarioAppended
  <2>2. Len(p3) = Listing /\ LastMove = Len(p3) + n2
    BY <1>2, <1>4, <1>7
  <2> QED
    BY <2>1, <2>2 DEF Continues
<1> HIDE DEF p4
<1>9. /\ p5 \in Seq(Steps) /\ Len(p5) = LastFiles
      /\ \A s \in 1 .. LastMove : p5[s] = p4[s]
      /\ \A s \in LastMove + 1 .. LastFiles : p5[s].kind = "deleteFiles" /\ p5[s].case = s - LastMove
  <2>1. Continues(p5, p4, "deleteFiles", n3)
    BY <1>2, <1>3, <1>8, ScenarioAppended
  <2>2. Len(p4) = LastMove /\ LastFiles = Len(p4) + n3
    BY <1>2, <1>4, <1>8
  <2> QED
    BY <2>1, <2>2 DEF Continues
<1> HIDE DEF p5
<1>10. /\ p6 \in Seq(Steps) /\ Len(p6) = LastFolder
       /\ \A s \in 1 .. LastFiles : p6[s] = p5[s]
       /\ \A s \in LastFiles + 1 .. LastFolder : p6[s].kind = "deleteFolder" /\ p6[s].case = s - LastFiles
  <2>1. Continues(p6, p5, "deleteFolder", n4)
    BY <1>2, <1>3, <1>9, ScenarioAppended
  <2>2. Len(p5) = LastFiles /\ LastFolder = Len(p5) + n4
    BY <1>2, <1>4, <1>9
  <2> QED
    BY <2>1, <2>2 DEF Continues
<1> HIDE DEF p6
<1>11. DOMAIN Plan = 1 .. LastFolder
  BY <1>1, <1>10, LenProperties
<1>12. /\ 0 <= n1 /\ n1 <= 2 * n1 /\ 2 * n1 < Listing /\ Listing <= LastMove
       /\ LastMove <= LastFiles /\ LastFiles <= LastFolder
       /\ n1 \in Nat /\ Listing \in Nat /\ LastMove \in Nat /\ LastFiles \in Nat /\ LastFolder \in Nat
  BY <1>2, <1>4
<1>13. /\ \A s \in 1 .. LastMove : p6[s] = p4[s]
       /\ \A s \in 1 .. Listing : p6[s] = p3[s]
       /\ \A s \in 1 .. 2 * n1 : p6[s] = p2[s]
       /\ \A s \in 1 .. n1 : p6[s] = p1[s]
  <2>1. \A s \in 1 .. LastMove : p6[s] = p4[s]
    BY <1>9, <1>10, <1>12
  <2>2. \A s \in 1 .. Listing : p6[s] = p3[s]
    BY <1>8, <1>12, <2>1
  <2>3. \A s \in 1 .. 2 * n1 : p6[s] = p2[s]
    BY <1>7, <1>12, <2>2
  <2>4. \A s \in 1 .. n1 : p6[s] = p1[s]
    BY <1>6, <1>12, <2>3
  <2> QED
    BY <2>1, <2>2, <2>3, <2>4
<1>14. \A s \in 1 .. n1 : Plan[s].kind = "upload" /\ Plan[s].case = s
  BY <1>1, <1>5, <1>13
<1>15. \A s \in n1 + 1 .. 2 * n1 : Plan[s].kind = "download"
  BY <1>1, <1>6, <1>12, <1>13
<1>16. Plan[Listing].kind = "list"
  BY <1>1, <1>7, <1>12, <1>13
<1>17. \A s \in Listing + 1 .. LastMove : Plan[s].kind = "move" /\ Plan[s].case = s - Listing
  BY <1>1, <1>8, <1>12, <1>13
<1>18. \A s \in LastMove + 1 .. LastFiles :
         Plan[s].kind = "deleteFiles" /\ Plan[s].case = s - LastMove
  BY <1>1, <1>9, <1>10, <1>12
<1>19. \A s \in LastFiles + 1 .. LastFolder :
         Plan[s].kind = "deleteFolder" /\ Plan[s].case = s - LastFiles
  BY <1>1, <1>10, <1>12
<1>20. /\ \A s \in 1 .. Downloads : Plan[s].kind = "upload" /\ Plan[s].case = s
       /\ \A s \in Downloads + 1 .. 2 * Downloads : Plan[s].kind = "download"
  BY <1>4, <1>14, <1>15
<1> QED
  BY <1>11, <1>16, <1>17, <1>18, <1>19, <1>20

(* The elements of each scenario are between those of the others.          *)
LEMMA KindAt ==
  ASSUME NEW s \in Nat \ {0}
  PROVE  /\ KindOf(s) = "upload" => s <= Downloads /\ s = Plan[s].case
         /\ KindOf(s) = "download" => Downloads < s /\ s < Listing
         /\ KindOf(s) = "list" => s = Listing
         /\ KindOf(s) = "move" =>
              Listing < s /\ s <= LastMove /\ s = Listing + Plan[s].case
         /\ KindOf(s) = "deleteFiles" =>
              LastMove < s /\ s <= LastFiles /\ s = LastMove + Plan[s].case
         /\ KindOf(s) = "deleteFolder" =>
              LastFiles < s /\ s <= LastFolder /\ s = LastFiles + Plan[s].case
         /\ KindOf(s) = "none" => LastFolder < s
         /\ s <= Downloads => KindOf(s) = "upload"
         /\ KindOf(s) \in Kinds \cup {"none"}
<1>1. /\ Downloads \in Nat /\ Listing = 2 * Downloads + 1 /\ Listing <= LastMove
      /\ LastMove <= LastFiles /\ LastFiles <= LastFolder
      /\ LastMove \in Nat /\ LastFiles \in Nat /\ LastFolder \in Nat
  BY Lengths DEF LastMove, LastFiles, LastFolder
<1>2. CASE s \in 1 .. Downloads
  <2>1. KindOf(s) = "upload" /\ s = Plan[s].case
    BY <1>1, <1>2, PlanLaidOut DEF KindOf
  <2> QED
    BY <1>1, <1>2, <2>1 DEF Kinds
<1>3. CASE s \in Downloads + 1 .. 2 * Downloads
  <2>1. KindOf(s) = "download"
    BY <1>1, <1>3, PlanLaidOut DEF KindOf
  <2> QED
    BY <1>1, <1>3, <2>1 DEF Kinds
<1>4. CASE s = Listing
  <2>1. KindOf(s) = "list"
    BY <1>1, <1>4, PlanLaidOut DEF KindOf
  <2> QED
    BY <1>1, <1>4, <2>1 DEF Kinds
<1>5. CASE s \in Listing + 1 .. LastMove
  <2>1. KindOf(s) = "move" /\ Plan[s].case = s - Listing
    BY <1>1, <1>5, PlanLaidOut DEF KindOf
  <2> QED
    BY <1>1, <1>5, <2>1 DEF Kinds
<1>6. CASE s \in LastMove + 1 .. LastFiles
  <2>1. KindOf(s) = "deleteFiles" /\ Plan[s].case = s - LastMove
    BY <1>1, <1>6, PlanLaidOut DEF KindOf
  <2> QED
    BY <1>1, <1>6, <2>1 DEF Kinds
<1>7. CASE s \in LastFiles + 1 .. LastFolder
  <2>1. KindOf(s) = "deleteFolder" /\ Plan[s].case = s - LastFiles
    BY <1>1, <1>7, PlanLaidOut DEF KindOf
  <2> QED
    BY <1>1, <1>7, <2>1 DEF Kinds
<1>8. CASE s > LastFolder
  <2>1. KindOf(s) = "none"
    BY <1>1, <1>8, PlanLaidOut DEF KindOf
  <2> QED
    BY <1>1, <1>8, <2>1
<1> QED
  BY <1>1, <1>2, <1>3, <1>4, <1>5, <1>6, <1>7, <1>8

LEMMA CaseInTable ==
  ASSUME Inv
  PROVE  /\ step \in Nat \ {0} /\ Kind = KindOf(step)
         /\ Kind = "upload" => Case \in DOMAIN UploadCases /\ step = Case /\ step <= Downloads
         /\ Kind = "move" => Case \in DOMAIN MoveCases /\ step = Listing + Case
         /\ Kind = "deleteFiles" => Case \in DOMAIN DeleteFileCases /\ step = LastMove + Case
         /\ Kind = "deleteFolder" => Case \in DOMAIN DeleteFolderCases /\ step = LastFiles + Case
<1>1. step \in Nat \ {0} /\ Kind = KindOf(step) /\ Case = Plan[step].case
  BY DEF Inv, TypeOK, Kind, KindOf, Case
<1>2. CASE step \in DOMAIN Plan
  <2>1. Plan[step] \in Steps
    BY <1>2, PlanIsSteps
  <2> DEFINE e == Plan[step]
  <2>2. e \in Steps /\ Kind = e.kind /\ Case = e.case
    BY <1>1, <1>2, <2>1 DEF KindOf
  <2> HIDE DEF e
  <2>3. /\ Kind = "upload" => Case \in DOMAIN UploadCases
        /\ Kind = "move" => Case \in DOMAIN MoveCases
        /\ Kind = "deleteFiles" => Case \in DOMAIN DeleteFileCases
        /\ Kind = "deleteFolder" => Case \in DOMAIN DeleteFolderCases
    BY <2>2 DEF Steps
  <2> QED
    BY <1>1, <2>3, KindAt
<1>3. CASE step \notin DOMAIN Plan
  BY <1>1, <1>3 DEF KindOf
<1> QED
  BY <1>2, <1>3

(* What has happened when main is at a scenario.                           *)
LEMMA Phases ==
  ASSUME Inv
  PROVE  /\ Kind \in {"upload", "download", "list"} => \A f : ~MovedBefore(f) /\ ~DeletedBefore(f)
         /\ Kind = "move" => \A f : ~DeletedBefore(f)
         /\ Kind # "upload" => \A f \in Files : UploadedBefore(f)
         /\ Kind \in {"deleteFiles", "deleteFolder", "none"} =>
              \A f : MovedBefore(f) <=> MovesOf(f) # {}
         /\ Kind = "none" => \A f \in Files : DeletedBefore(f)
<1> USE Lengths
<1>1. /\ step \in Nat \ {0} /\ Listing <= LastMove /\ LastMove <= LastFiles
      /\ Downloads < Listing /\ LastMove = Listing + Len(MoveCases)
      /\ LastFiles = LastMove + Len(DeleteFileCases)
      /\ LastFolder = LastFiles + Len(DeleteFolderCases) /\ Downloads = Len(UploadCases)
  BY DEF Inv, TypeOK, Downloads, LastMove, LastFiles, LastFolder
<1>2. /\ Kind = "upload" => step <= Downloads
      /\ Kind = "download" => step < Listing
      /\ Kind = "list" => step = Listing
      /\ Kind = "move" => step <= LastMove
      /\ Kind \in {"deleteFiles", "deleteFolder", "none"} => LastMove < step
      /\ Kind = "none" => LastFolder < step
      /\ Kind # "upload" => Downloads < step
  <2>1. Kind = KindOf(step)
    BY CaseInTable
  <2> QED
    BY <1>1, <2>1, KindAt DEF Kinds
<1>3. /\ \A i \in DOMAIN MoveCases : i \in Nat \ {0} /\ Listing + i <= LastMove
      /\ \A i \in DOMAIN DeleteFileCases : i \in Nat \ {0} /\ LastMove + i <= LastFiles
      /\ \A i \in DOMAIN DeleteFolderCases : i \in Nat \ {0} /\ LastFiles + i <= LastFolder
      /\ \A i \in DOMAIN UploadCases : i \in Nat \ {0} /\ i <= Downloads
      /\ \A f : \A i \in MovesOf(f) : i \in DOMAIN MoveCases
  BY <1>1 DEF MovesOf
<1>4. /\ \A s \in Nat : step < s => ~Past(s)
      /\ \A s \in Nat : s < step => Past(s)
  BY <1>1 DEF Past
<1>5. ASSUME Kind \in {"upload", "download", "list"}, NEW f PROVE ~MovedBefore(f) /\ ~DeletedBefore(f)
  BY <1>1, <1>2, <1>3, <1>4, <1>5 DEF MovedBefore, DeletedBefore
<1>6. ASSUME Kind = "move", NEW f PROVE ~DeletedBefore(f)
  BY <1>1, <1>2, <1>3, <1>4, <1>6 DEF DeletedBefore
<1>7. ASSUME Kind # "upload", NEW f \in Files PROVE UploadedBefore(f)
  <2>1. PICK i \in DOMAIN UploadCases : f \in UploadCases[i]
    BY TablesAssumption
  <2> QED
    BY <1>1, <1>2, <1>3, <1>7, <2>1 DEF UploadedBefore
<1>8. ASSUME Kind \in {"deleteFiles", "deleteFolder", "none"}, NEW f
      PROVE  MovedBefore(f) <=> MovesOf(f) # {}
  BY <1>1, <1>2, <1>3, <1>4, <1>8 DEF MovedBefore
<1>9. ASSUME Kind = "none", NEW f \in Files PROVE DeletedBefore(f)
  <2>1. CASE \E i \in DOMAIN DeleteFileCases : f \in FilesIn(DeleteFileCases[i].folder)
    BY <1>1, <1>2, <1>3, <1>4, <1>9, <2>1 DEF DeletedBefore
  <2>2. CASE \E i \in DOMAIN DeleteFolderCases : f \in FilesUnder(DeleteFolderCases[i].folder)
    BY <1>1, <1>2, <1>3, <1>4, <1>9, <2>2 DEF DeletedBefore
  <2> QED
    BY <2>1, <2>2, TablesAssumption
<1> QED
  BY <1>5, <1>6, <1>7, <1>8, <1>9

(* Nothing more is past while main stays where it is.                      *)
LEMMA StillPast ==
  ASSUME UNCHANGED step, Verifying' <=> Verifying
  PROVE  \A f : /\ UploadedBefore(f)' <=> UploadedBefore(f)
                /\ MovedBefore(f)' <=> MovedBefore(f)
                /\ DeletedBefore(f)' <=> DeletedBefore(f)
<1>1. \A s : Past(s)' <=> Past(s)
  BY DEF Past, Verifying
<1> QED
  BY <1>1 DEF UploadedBefore, MovedBefore, DeletedBefore, MovesOf, FilesIn, FilesUnder

(* The effect of a case is past once it is verified.                       *)
LEMMA VerifyPast ==
  ASSUME Inv, UNCHANGED step, ~Verifying, Verifying'
  PROVE  \A f : /\ UploadedBefore(f)' <=> UploadedBefore(f)
                /\ MovedBefore(f)' <=> MovedBefore(f) \/ (Kind = "move" /\ Case \in MovesOf(f))
                /\ DeletedBefore(f)' <=>
                     \/ DeletedBefore(f)
                     \/ Kind = "deleteFiles" /\ f \in FilesIn(DeleteFileCases[Case].folder)
                     \/ Kind = "deleteFolder" /\ f \in FilesUnder(DeleteFolderCases[Case].folder)
<1> USE Lengths
<1>1. \A s : Past(s)' <=> Past(s) \/ s = step
  BY DEF Past, Inv, TypeOK
<1>2. \A i \in DOMAIN MoveCases : Listing + i = step <=> Kind = "move" /\ i = Case
  <2>1. \A i \in DOMAIN MoveCases : Listing + i = step => Kind = "move"
    <3> SUFFICES ASSUME NEW i \in DOMAIN MoveCases, Listing + i = step PROVE Kind = "move"
      OBVIOUS
    <3>1. step \in Listing + 1 .. LastMove /\ step \in 1 .. LastFolder
      BY DEF LastMove, LastFiles, LastFolder
    <3> QED
      BY <3>1, PlanLaidOut DEF Kind
  <2> QED
    BY <2>1, CaseInTable
<1>3. \A i \in DOMAIN DeleteFileCases : LastMove + i = step <=> Kind = "deleteFiles" /\ i = Case
  <2>1. \A i \in DOMAIN DeleteFileCases : LastMove + i = step => Kind = "deleteFiles"
    <3> SUFFICES ASSUME NEW i \in DOMAIN DeleteFileCases, LastMove + i = step
                 PROVE  Kind = "deleteFiles"
      OBVIOUS
    <3>1. step \in LastMove + 1 .. LastFiles /\ step \in 1 .. LastFolder
      BY DEF LastFiles, LastFolder
    <3> QED
      BY <3>1, PlanLaidOut DEF Kind
  <2> QED
    BY <2>1, CaseInTable
<1>4. \A i \in DOMAIN DeleteFolderCases : LastFiles + i = step <=> Kind = "deleteFolder" /\ i = Case
  <2>1. \A i \in DOMAIN DeleteFolderCases : LastFiles + i = step => Kind = "deleteFolder"
    <3> SUFFICES ASSUME NEW i \in DOMAIN DeleteFolderCases, LastFiles + i = step
                 PROVE  Kind = "deleteFolder"
      OBVIOUS
    <3>1. step \in LastFiles + 1 .. LastFolder /\ step \in 1 .. LastFolder
      BY DEF LastFolder
    <3> QED
      BY <3>1, PlanLaidOut DEF Kind
  <2> QED
    BY <2>1, CaseInTable
<1>5. /\ Kind = "move" => Case \in DOMAIN MoveCases
      /\ Kind = "deleteFiles" => Case \in DOMAIN DeleteFileCases
      /\ Kind = "deleteFolder" => Case \in DOMAIN DeleteFolderCases
  BY CaseInTable
<1>6. ASSUME NEW f PROVE UploadedBefore(f)' <=> UploadedBefore(f)
  BY DEF UploadedBefore
<1>7. ASSUME NEW f
      PROVE  MovedBefore(f)' <=> MovedBefore(f) \/ (Kind = "move" /\ Case \in MovesOf(f))
  <2>1. \A i \in MovesOf(f) : i \in DOMAIN MoveCases
    BY DEF MovesOf
  <2>2. \A i \in MovesOf(f) : Past(Listing + i)' <=> Past(Listing + i) \/ (Kind = "move" /\ i = Case)
    BY <1>1, <1>2, <2>1
  <2> QED
    BY <2>2 DEF MovedBefore, MovesOf
<1>8. ASSUME NEW f
      PROVE  DeletedBefore(f)' <=>
               \/ DeletedBefore(f)
               \/ Kind = "deleteFiles" /\ f \in FilesIn(DeleteFileCases[Case].folder)
               \/ Kind = "deleteFolder" /\ f \in FilesUnder(DeleteFolderCases[Case].folder)
  <2>1. \A i \in DOMAIN DeleteFileCases :
          Past(LastMove + i)' <=> Past(LastMove + i) \/ (Kind = "deleteFiles" /\ i = Case)
    BY <1>1, <1>3
  <2>2. \A i \in DOMAIN DeleteFolderCases :
          Past(LastFiles + i)' <=> Past(LastFiles + i) \/ (Kind = "deleteFolder" /\ i = Case)
    BY <1>1, <1>4
  <2> QED
    BY <1>5, <2>1, <2>2 DEF DeletedBefore, FilesIn, FilesUnder
<1> QED
  BY <1>6, <1>7, <1>8

(* Nothing more is past when main goes on, but for the upload of a case.   *)
LEMMA ProceedPast ==
  ASSUME Inv, Proceed, Verifying \/ Kind \in {"upload", "download", "list"}
  PROVE  \A f : /\ UploadedBefore(f)' <=>
                     UploadedBefore(f) \/ (Kind = "upload" /\ f \in UploadCases[Case])
                /\ MovedBefore(f)' <=> MovedBefore(f)
                /\ DeletedBefore(f)' <=> DeletedBefore(f)
<1> USE Lengths
<1>1. step \in Nat \ {0} /\ step' = step + 1 /\ ~Verifying'
  BY CaseInTable DEF Proceed, Verifying
<1>2. \A s \in Nat : Past(s)' <=> s <= step
  BY <1>1 DEF Past, Verifying
<1>3. \A s \in Nat : s > Listing => (Past(s)' <=> Past(s))
  <2>1. CASE Verifying
    BY <1>1, <1>2, <2>1 DEF Past, Verifying
  <2>2. CASE Kind \in {"upload", "download", "list"}
    <3>1. step <= Listing
      BY <1>1, <2>2, CaseInTable, KindAt
    <3> QED
      BY <1>1, <1>2, <3>1 DEF Past, Verifying
  <2> QED
    BY <2>1, <2>2
<1>4. /\ \A i \in DOMAIN MoveCases : Listing + i \in Nat /\ Listing + i > Listing
      /\ \A i \in DOMAIN DeleteFileCases : LastMove + i \in Nat /\ LastMove + i > Listing
      /\ \A i \in DOMAIN DeleteFolderCases : LastFiles + i \in Nat /\ LastFiles + i > Listing
  BY DEF LastMove, LastFiles
<1>5. ASSUME NEW f PROVE MovedBefore(f)' <=> MovedBefore(f)
  <2>1. \A i \in MovesOf(f) : i \in DOMAIN MoveCases
    BY DEF MovesOf
  <2> QED
    BY <1>3, <1>4, <2>1 DEF MovedBefore, MovesOf
<1>6. ASSUME NEW f PROVE DeletedBefore(f)' <=> DeletedBefore(f)
  BY <1>3, <1>4 DEF DeletedBefore, FilesIn, FilesUnder
<1>7. ASSUME NEW f
      PROVE  UploadedBefore(f)' <=> UploadedBefore(f) \/ (Kind = "upload" /\ f \in UploadCases[Case])
  <2>1. \A i \in DOMAIN UploadCases : i < step + 1 <=> i < step \/ (Kind = "upload" /\ i = Case)
    <3>1. \A i \in DOMAIN UploadCases : i = step => Kind = "upload"
      <4>1. \A i \in DOMAIN UploadCases : i <= Downloads
        BY DEF Downloads
      <4> QED
        BY <1>1, <4>1, CaseInTable, KindAt
    <3> QED
      BY <1>1, <3>1, CaseInTable
  <2>2. Kind = "upload" => Case \in DOMAIN UploadCases
    BY CaseInTable
  <2> QED
    BY <1>1, <2>1, <2>2 DEF UploadedBefore
<1> QED
  BY <1>5, <1>6, <1>7

-----------------------------------------------------------------------------
(* Where the files are in a clean run.                                     *)

LEMMA HomeIsPath ==
  ASSUME NEW f \in Files
  PROVE  /\ PathOf[f] \in Seq(Names) /\ Home(f) \in Seq(Names)
         /\ Home(f) # Nothing /\ PathOf[f] # Nothing
         /\ MovesOf(f) = {} => Home(f) = PathOf[f]
         /\ \A i \in MovesOf(f) :
              /\ i \in DOMAIN MoveCases
              /\ MoveCases[i].from \in Seq(Names) /\ MoveCases[i].to \in Seq(Names)
              /\ Home(f) = MovedBy(i, f)
<1>1. PathOf[f] \in Seq(Names) /\ Nothing \notin Seq(Names)
  BY ConstantsTyped
<1>2. ASSUME NEW i \in MovesOf(f)
      PROVE  /\ i \in DOMAIN MoveCases
             /\ MoveCases[i].from \in Seq(Names) /\ MoveCases[i].to \in Seq(Names)
             /\ Home(f) = MovedBy(i, f) /\ MovedBy(i, f) \in Seq(Names)
  <2>1. i \in DOMAIN MoveCases /\ Covers(MoveCases[i].from, PathOf[f])
    BY DEF MovesOf
  <2>2. MoveCases[i] \in [from : Seq(Names), to : Seq(Names), files : Nat]
    BY <2>1, ConstantsTyped, ElementIsTyped
  <2>3. MoveCases[i].from \in Seq(Names) /\ MoveCases[i].to \in Seq(Names)
    BY <2>2
  <2>4. MovedBy(i, f) \in Seq(Names)
    BY <1>1, <2>1, <2>3, MatchesIsLonger, RebasedIsPath DEF MovedBy
  <2>5. MovesOf(f) = {i}
    BY TablesAssumption
  <2>6. (CHOOSE j \in MovesOf(f) : TRUE) = i
    BY <2>5
  <2>7. Home(f) = MovedBy(i, f)
    BY <2>5, <2>6 DEF Home
  <2> QED
    BY <2>1, <2>3, <2>4, <2>7
<1>3. MovesOf(f) = {} => Home(f) = PathOf[f]
  BY DEF Home
<1>4. Home(f) \in Seq(Names)
  BY <1>1, <1>2, <1>3
<1> QED
  BY <1>1, <1>2, <1>3, <1>4

(* Between the rounds no request of a goroutine has been answered.         *)
LEMMA NoneAnswered ==
  ASSUME Inv, main # "launch"
  PROVE  /\ Launched = {}
         /\ \A w \in Ids : worker[w] = "none" /\ outcome[w] = "none"
BY DEF Inv, Round, Launched, Counting

(* Every file that was uploaded is where it was uploaded to before the     *)
(* moves, and where it belongs after them.                                 *)
LEMMA Whereabout ==
  ASSUME Inv, Orderly
  PROVE  /\ Kind \in {"download", "list"} =>
              \A id \in Ids : server[id] = IF id \in Files THEN PathOf[id] ELSE Nothing
         /\ Kind = "move" =>
              \A id \in Ids :
                server[id] = IF id \notin Files THEN Nothing
                             ELSE IF MovedBefore(id) THEN Home(id) ELSE PathOf[id]
         /\ Kind \in {"deleteFiles", "deleteFolder", "none"} =>
              \A id \in Ids :
                server[id] = IF id \in Files /\ ~Removed(id) THEN Home(id) ELSE Nothing
<1>1. Places
  BY DEF Orderly
<1>2. ASSUME Kind \in {"download", "list"}
      PROVE  \A id \in Ids : server[id] = IF id \in Files THEN PathOf[id] ELSE Nothing
  BY <1>1, <1>2, Phases DEF Places, Arrived, Removed, Whereabouts
<1>3. ASSUME Kind = "move"
      PROVE  \A id \in Ids :
               server[id] = IF id \notin Files THEN Nothing
                            ELSE IF MovedBefore(id) THEN Home(id) ELSE PathOf[id]
  BY <1>1, <1>3, Phases DEF Places, Arrived, Removed, Whereabouts
<1>4. ASSUME Kind \in {"deleteFiles", "deleteFolder", "none"}
      PROVE  \A id \in Ids :
               server[id] = IF id \in Files /\ ~Removed(id) THEN Home(id) ELSE Nothing
  <2>1. /\ Kind # "upload" /\ \A f \in Files : UploadedBefore(f)
        /\ \A f : MovedBefore(f) <=> MovesOf(f) # {}
    BY <1>4, Phases
  <2>2. \A f \in Files : Arrived(f) /\ Whereabouts(f) = Home(f)
    BY <2>1, HomeIsPath DEF Arrived, Whereabouts
  <2> QED
    BY <1>1, <2>2 DEF Places
<1> QED
  BY <1>2, <1>3, <1>4

(* When every case is past, nothing is left.                               *)
LEMMA NothingLeft == ASSUME Inv, Orderly, Kind = "none" PROVE Stored = {}
<1>1. \A f \in Files : Removed(f)
  BY Phases DEF Removed
<1> QED
  BY <1>1, Whereabout DEF Stored

(* A folder is listed as empty if nothing is below it.                     *)
LEMMA ListedEmpty ==
  ASSUME NEW folder, RowsBelow(folder) = {}
  PROVE  EntryCount(folder) = 0
<1>1. {id \in Stored : LiesIn(folder, server[id])} = {}
  BY DEF RowsBelow, LiesIn
<1>2. ChildFolders(folder, {server[id] : id \in Stored}) = {}
  BY DEF RowsBelow, ChildFolders
<1> QED
  BY <1>1, <1>2, FS_EmptySet DEF EntryCount

-----------------------------------------------------------------------------
(* Steps of a clean run.                                                   *)

LEMMA NoTrouble == ASSUME Inv, UNCHANGED history PROVE ~Trouble
BY DEF Trouble, Inv, TypeOK, history

LEMMA SuccessReported ==
  ASSUME Inv, Orderly, NEW files \in Nat, NEW counts \in Tallies, NEW verified \in BOOLEAN,
         Report(files, counts, verified), Kind # "none",
         counts.fail = 0, counts.bad = 0,
         Kind \in {"list", "deleteFiles", "deleteFolder"} => verified,
         Kind = "move" /\ ChildFolders(MoveCases[Case].from, LocalPaths) = {} => verified
  PROVE  \A i \in DOMAIN reports' : Succeeded(reports'[i])
<1> DEFINE r == [kind |-> Kind, case |-> Case, files |-> files,
                 ok |-> counts.ok, fail |-> counts.fail, bad |-> counts.bad, verified |-> verified]
<1>1. r \in Reports
  BY CaseIsCase DEF Reports, Tallies
<1>2. Succeeded(r)
  BY DEF Succeeded
<1>3. reports' = Append(reports, r) /\ reports \in Seq(Reports)
  BY DEF Report, Inv, TypeOK
<1> HIDE DEF r
<1>4. \A i \in DOMAIN reports' : reports'[i] = r \/ (i \in DOMAIN reports /\ reports'[i] = reports[i])
  BY <1>1, <1>3, AppendElements
<1> QED
  BY <1>2, <1>4 DEF Orderly

(* The files stay where they are.                                          *)
LEMMA PlacesKept ==
  ASSUME Inv, Orderly, UNCHANGED <<step, server>>, Verifying' <=> Verifying,
         \A w \in Ids : outcome'[w] = outcome[w] \/ Kind \in {"download", "list", "move"}
  PROVE  /\ Places' /\ Kind' = Kind /\ Case' = Case
         /\ \A f : /\ UploadedBefore(f)' <=> UploadedBefore(f)
                   /\ MovedBefore(f)' <=> MovedBefore(f)
                   /\ DeletedBefore(f)' <=> DeletedBefore(f)
<1>1. Kind' = Kind /\ Case' = Case
  BY KindKept
<1>2. \A f : /\ UploadedBefore(f)' <=> UploadedBefore(f)
             /\ MovedBefore(f)' <=> MovedBefore(f)
             /\ DeletedBefore(f)' <=> DeletedBefore(f)
  BY StillPast DEF Verifying
<1>3. ASSUME NEW f \in Ids
      PROVE  /\ Arrived(f)' <=> Arrived(f)
             /\ Removed(f)' <=> Removed(f)
             /\ Whereabouts(f)' = Whereabouts(f)
  <2>1. Whereabouts(f)' = Whereabouts(f)
    BY <1>2 DEF Whereabouts, Home, MovesOf, MovedBy
  <2> QED
    BY <1>1, <1>2, <2>1 DEF Arrived, Removed
<1>4. Places'
  BY <1>3 DEF Orderly, Places
<1> QED
  BY <1>1, <1>2, <1>4

(* A step of a goroutine that changes no row and ends no DELETE.           *)
LEMMA RoundOrderly ==
  ASSUME Inv, Orderly, main = "launch",
         UNCHANGED <<step, main, server, late, tally, reports, uploaded>>,
         \A w \in Ids : outcome'[w] = outcome[w] \/ (Kind = "download" /\ outcome'[w] = "ok"),
         \A w \in Ids : pipe'[w] # "failed",
         todo' \cup Launched' = todo \cup Launched, Targets'
  PROVE  Orderly'
<1>1. /\ Places' /\ Kind' = Kind /\ Case' = Case
      /\ \A f : /\ UploadedBefore(f)' <=> UploadedBefore(f)
                /\ DeletedBefore(f)' <=> DeletedBefore(f)
  BY PlacesKept DEF Verifying
<1>2. Quiet'
  BY DEF Orderly, Quiet
<1>3. Jobs'
  BY <1>1 DEF Orderly, Jobs, FilesIn
<1>4. Stages' /\ Seen'
  BY <1>1 DEF Orderly, Stages, Seen, Verifying
<1>5. \A i \in DOMAIN reports' : Succeeded(reports'[i])
  BY DEF Orderly
<1> QED
  BY <1>1, <1>2, <1>3, <1>4, <1>5 DEF Orderly

LEMMA LaunchOrderly == ASSUME Inv, Orderly, NEW w \in Ids, Launch(w) PROVE Orderly'
<1> USE DEF Launch, store, channel, record, history
<1>1. /\ main = "launch" /\ w \in todo /\ worker[w] = "none"
      /\ worker \in [Ids -> {"none", "request", "found", "reply", "finish", "gone"}]
      /\ pipe \in [Ids -> {"none", "open", "copied", "ended", "failed"}]
  BY DEF Inv, TypeOK, Round, Launched
<1>2. todo' \cup Launched' = todo \cup Launched
  BY <1>1 DEF Launched
<1>3. \A v \in Ids : pipe'[v] # "failed"
  BY <1>1 DEF Orderly, Quiet
<1>4. Targets'
  <2>1. Kind' = Kind
    BY KindKept
  <2>2. \A v \in Ids : v \in todo' \/ worker'[v] = "request" => v \in todo \/ worker[v] = "request"
    BY <1>1
  <2>3. \A v \in Ids : worker'[v] = "found" => worker[v] = "found"
    BY <1>1
  <2> QED
    BY <1>1, <2>1, <2>2, <2>3 DEF Orderly, Targets, Home, MovesOf, MovedBy
<1> QED
  BY <1>1, <1>2, <1>3, <1>4, RoundOrderly

(* A goroutine that goes on to a place where it names no path any more.    *)
LEMMA WorkerOrderly ==
  ASSUME Inv, Orderly, NEW w \in Ids, worker[w] # "none",
         NEW place \in {"reply", "finish", "gone"}, worker' = [worker EXCEPT ![w] = place],
         UNCHANGED <<loop, server, late, tally, reports, uploaded, pipe, target>>,
         \A v \in Ids : outcome'[v] = outcome[v] \/ (Kind = "download" /\ outcome'[v] = "ok")
  PROVE  Orderly'
<1> USE DEF loop
<1>1. /\ main = "launch"
      /\ worker \in [Ids -> {"none", "request", "found", "reply", "finish", "gone"}]
  BY AliveInLaunch DEF Inv, TypeOK
<1>2. Launched' = Launched
  BY <1>1 DEF Launched
<1>3. Targets'
  <2>1. Kind' = Kind
    BY KindKept
  <2>2. \A v \in Ids : worker'[v] \in {"request", "found"} => worker'[v] = worker[v]
    BY <1>1
  <2> QED
    BY <1>1, <2>1, <2>2 DEF Orderly, Targets, Home, MovesOf, MovedBy
<1>4. \A v \in Ids : pipe'[v] # "failed"
  BY DEF Orderly, Quiet
<1> QED
  BY <1>1, <1>2, <1>3, <1>4, RoundOrderly

LEMMA SendOrderly == ASSUME Inv, Orderly, NEW w \in Ids, Send(w) PROVE Orderly'
BY WorkerOrderly DEF Send, store, record

LEMMA DoneOrderly == ASSUME Inv, Orderly, NEW w \in Ids, Done(w) PROVE Orderly'
BY WorkerOrderly DEF Done, store, record

(* What was uploaded is there.                                             *)
LEMMA ServeDownloadOrderly ==
  ASSUME Inv, Orderly, NEW w \in Ids, ServeDownload(w)
  PROVE  Orderly'
<1> USE DEF ServeDownload, Answer, store, record
<1>1. main = "launch" /\ w \in uploaded /\ w \in whole
  BY AliveInLaunch DEF Inv, Bodies
<1>2. w \in Files
  BY <1>1 DEF Orderly, Jobs
<1>3. server[w] # Nothing
  BY <1>2, Whereabout, HomeIsPath
<1>4. outcome' = [outcome EXCEPT ![w] = "ok"]
  BY <1>1, <1>3
<1>5. \A v \in Ids : outcome'[v] = outcome[v] \/ (Kind = "download" /\ outcome'[v] = "ok")
  BY <1>4 DEF Inv, TypeOK
<1> QED
  BY <1>5, WorkerOrderly

LEMMA BodyOrderly ==
  ASSUME Inv, Orderly, NEW w \in Ids, NEW state \in {"copied", "ended"},
         pipe' = [pipe EXCEPT ![w] = state],
         UNCHANGED <<loop, server, late, worker, target, outcome, tally, reports, uploaded>>
  PROVE  Orderly'
<1> USE DEF loop
<1>1. /\ Launched' = Launched /\ Places' /\ Kind' = Kind /\ Case' = Case
      /\ \A f : /\ UploadedBefore(f)' <=> UploadedBefore(f)
                /\ DeletedBefore(f)' <=> DeletedBefore(f)
  BY PlacesKept DEF Launched, Verifying
<1>2. Targets'
  BY <1>1 DEF Orderly, Targets, Home, MovesOf, MovedBy
<1>3. Quiet'
  BY DEF Inv, TypeOK, Orderly, Quiet
<1>4. Jobs' /\ Stages' /\ Seen'
  BY <1>1 DEF Orderly, Jobs, Stages, Seen, Verifying, FilesIn, Dir
<1> QED
  BY <1>1, <1>2, <1>3, <1>4 DEF Orderly

LEMMA CopyFileOrderly == ASSUME Inv, Orderly, NEW w \in Ids, CopyFile(w) PROVE Orderly'
BY BodyOrderly DEF CopyFile, record

LEMMA EndBodyOrderly == ASSUME Inv, Orderly, NEW w \in Ids, EndBody(w) PROVE Orderly'
BY BodyOrderly DEF EndBody, store, record

(* An upload is stored under the path of its file.                         *)
LEMMA StoreUploadOrderly ==
  ASSUME Inv, Orderly, NEW w \in Ids, StoreUpload(w)
  PROVE  Orderly'
<1> USE DEF StoreUpload, Answer, loop, channel, record
<1>1. /\ main = "launch" /\ w \in Launched /\ Kind = "upload"
      /\ worker \in [Ids -> {"none", "request", "found", "reply", "finish", "gone"}]
      /\ outcome \in [Ids -> {"none", "ok", "fail", "bad"}]
      /\ server \in [Ids -> Seq(Names) \cup {Nothing}]
  BY AliveInLaunch DEF Inv, TypeOK
<1>2. w \in Files
  BY <1>1, CaseIsCase DEF Orderly, Jobs
<1>3. /\ Kind' = Kind /\ Case' = Case
      /\ \A f : /\ UploadedBefore(f)' <=> UploadedBefore(f)
                /\ MovedBefore(f)' <=> MovedBefore(f)
                /\ DeletedBefore(f)' <=> DeletedBefore(f)
  BY KindKept, StillPast DEF Verifying
<1>4. \A f : ~MovedBefore(f) /\ ~DeletedBefore(f)
  BY <1>1, Phases
<1>5. Places'
  <2> SUFFICES ASSUME NEW f \in Ids
               PROVE  server'[f] = IF f \in Files /\ Arrived(f)' /\ ~Removed(f)'
                                   THEN Whereabouts(f)' ELSE Nothing
    BY DEF Places
  <2>1. ~Removed(f)' /\ Whereabouts(f)' = PathOf[f] /\ ~Removed(f) /\ Whereabouts(f) = PathOf[f]
    BY <1>1, <1>3, <1>4 DEF Removed, Whereabouts
  <2>2. CASE f = w
    BY <1>1, <1>2, <1>3, <2>1, <2>2 DEF Arrived
  <2>3. CASE f # w
    <3>1. server'[f] = server[f] /\ outcome'[f] = outcome[f]
      BY <1>1, <2>3
    <3> QED
      BY <1>3, <2>1, <3>1 DEF Arrived, Orderly, Places
  <2> QED
    BY <2>2, <2>3
<1>6. Quiet'
  BY <1>1 DEF Orderly, Quiet
<1>7. Launched' = Launched
  BY <1>1 DEF Launched
<1>8. Jobs' /\ Targets' /\ Stages' /\ Seen'
  BY <1>1, <1>3, <1>7 DEF Orderly, Jobs, Targets, Stages, Seen, Verifying
<1> QED
  BY <1>5, <1>6, <1>8 DEF Orderly

-----------------------------------------------------------------------------
(* The DELETEs of single files.                                            *)

(* What a folder lists that has no folders: the files that belong in it    *)
(* and are not removed.                                                    *)
LEMMA ListedFiles ==
  ASSUME Inv, Orderly, Kind = "deleteFiles"
  PROVE  /\ \A id \in Ids : id \in Stored <=> id \in Files /\ ~Removed(id)
         /\ \A id \in Stored : id \in Files /\ server[id] = Home(id)
BY Whereabout, HomeIsPath DEF Stored

(* Each finds its own file: no other has its path.                         *)
LEMMA FindVersionOrderly ==
  ASSUME Inv, Orderly, NEW w \in Ids, FindVersion(w)
  PROVE  Orderly'
<1> USE DEF FindVersion, store, loop, channel, record
<1>1. worker[w] = "request" /\ Kind = "deleteFiles"
  BY DEF Answer
<1>2. /\ main = "launch" /\ w \in Launched
      /\ worker \in [Ids -> {"none", "request", "found", "reply", "finish", "gone"}]
      /\ target \in [Ids -> Seq(Names) \cup Ids \cup {Nothing}]
  BY <1>1, AliveInLaunch DEF Inv, TypeOK
<1>3. w \in Files /\ ~Removed(w) /\ target[w] = Home(w)
  <2>1. w \in FilesIn(DeleteFileCases[Case].folder) /\ ~DeletedBefore(w)
    BY <1>1, <1>2 DEF Orderly, Jobs
  <2>2. outcome[w] = "none"
    BY <1>1 DEF Inv, Counting
  <2> QED
    BY <1>1, <1>2, <2>1, <2>2 DEF FilesIn, Removed, Orderly, Targets
<1>4. w \in Stored /\ server[w] = Home(w)
  BY <1>1, <1>3, ListedFiles
<1>5. /\ worker' = [worker EXCEPT ![w] = "found"] /\ target' = [target EXCEPT ![w] = w]
      /\ UNCHANGED outcome
  <2>1. PICK id \in Stored :
          /\ server[id] = target[w] /\ worker' = [worker EXCEPT ![w] = "found"]
          /\ target' = [target EXCEPT ![w] = id] /\ UNCHANGED outcome
    BY <1>3, <1>4
  <2>2. id \in Files /\ Home(id) = Home(w)
    BY <1>1, <1>3, <2>1, ListedFiles
  <2>3. id = w
    BY <1>3, <2>2, TablesAssumption
  <2> QED
    BY <2>1, <2>3
<1>6. Launched' = Launched
  BY <1>1, <1>2, <1>5 DEF Launched
<1>7. Targets'
  <2>1. \A v \in Ids : v # w => worker'[v] = worker[v] /\ target'[v] = target[v]
    BY <1>2, <1>5
  <2>2. worker'[w] = "found" /\ target'[w] = w /\ w \notin todo
    BY <1>1, <1>2, <1>5 DEF Inv, Round
  <2>3. Kind' = Kind
    BY KindKept
  <2> QED
    BY <1>2, <2>1, <2>2, <2>3 DEF Orderly, Targets, Home, MovesOf, MovedBy
<1>8. \A v \in Ids : pipe'[v] # "failed"
  BY DEF Orderly, Quiet
<1> QED
  BY <1>2, <1>5, <1>6, <1>7, <1>8, RoundOrderly

(* And removes it, as nobody else does.                                    *)
LEMMA DeleteVersionOrderly ==
  ASSUME Inv, Orderly, NEW w \in Ids, DeleteVersion(w), ~Trouble
  PROVE  Orderly'
<1> USE DEF DeleteVersion, Answer, loop, channel, record
<1>1. worker[w] = "found" /\ Kind = "deleteFiles"
  BY DEF Inv, Bodies
<1>2. /\ main = "launch" /\ w \in Launched /\ w \notin todo
      /\ worker \in [Ids -> {"none", "request", "found", "reply", "finish", "gone"}]
      /\ outcome \in [Ids -> {"none", "ok", "fail", "bad"}]
      /\ server \in [Ids -> Seq(Names) \cup {Nothing}]
  BY <1>1, AliveInLaunch DEF Inv, TypeOK
<1>3. w \in Files /\ ~Removed(w) /\ target[w] = w
  <2>1. w \in FilesIn(DeleteFileCases[Case].folder) /\ ~DeletedBefore(w)
    BY <1>1, <1>2 DEF Orderly, Jobs
  <2>2. outcome[w] = "none"
    BY <1>1 DEF Inv, Counting
  <2> QED
    BY <1>1, <1>2, <2>1, <2>2 DEF FilesIn, Removed, Orderly, Targets
<1>4. server[w] # Nothing
  BY <1>1, <1>3, ListedFiles DEF Stored
<1>5. /\ outcome' = [outcome EXCEPT ![w] = "ok"] /\ server' = [server EXCEPT ![w] = Nothing]
      /\ worker' = [worker EXCEPT ![w] = "reply"]
  BY <1>3, <1>4
<1>6. /\ Kind' = Kind /\ Case' = Case
      /\ \A f : /\ UploadedBefore(f)' <=> UploadedBefore(f)
                /\ MovedBefore(f)' <=> MovedBefore(f)
                /\ DeletedBefore(f)' <=> DeletedBefore(f)
  BY KindKept, StillPast DEF Verifying
<1>7. Places'
  <2> SUFFICES ASSUME NEW f \in Ids
               PROVE  server'[f] = IF f \in Files /\ Arrived(f)' /\ ~Removed(f)'
                                   THEN Whereabouts(f)' ELSE Nothing
    BY DEF Places
  <2>1. CASE f = w
    BY <1>1, <1>2, <1>5, <1>6, <2>1 DEF Removed
  <2>2. CASE f # w
    <3>1. server'[f] = server[f] /\ outcome'[f] = outcome[f]
      BY <1>2, <1>5, <2>2
    <3>2. /\ Arrived(f)' <=> Arrived(f)
          /\ Removed(f)' <=> Removed(f)
      BY <1>6, <3>1 DEF Arrived, Removed
    <3>3. Whereabouts(f)' = Whereabouts(f)
      BY <1>6 DEF Whereabouts, Home, MovesOf, MovedBy
    <3> QED
      BY <3>1, <3>2, <3>3 DEF Orderly, Places
  <2> QED
    BY <2>1, <2>2
<1>8. Quiet'
  BY <1>2, <1>5 DEF Orderly, Quiet
<1>9. Launched' = Launched
  BY <1>1, <1>2, <1>5 DEF Launched
<1>10. Jobs' /\ Stages' /\ Seen'
  BY <1>1, <1>2, <1>6, <1>9 DEF Orderly, Jobs, Stages, Seen, Verifying, FilesIn
<1>11. Targets'
  <2>1. \A v \in Ids : worker'[v] \in {"request", "found"} => worker'[v] = worker[v]
    BY <1>2, <1>5
  <2> QED
    BY <1>2, <1>6, <2>1 DEF Orderly, Targets, Home, MovesOf, MovedBy
<1> QED
  BY <1>7, <1>8, <1>10, <1>11 DEF Orderly

-----------------------------------------------------------------------------
(* main begins a round, and collects its results.                          *)

LEMMA StartOrderly ==
  ASSUME Inv, Orderly, main = "begin", NEW jobs \in SUBSET Ids, Start(jobs),
         Kind \in Concurrent, Kind = "upload" => jobs = UploadCases[Case],
         Kind = "deleteFiles" =>
           /\ jobs = {f \in FilesIn(DeleteFileCases[Case].folder) : ~DeletedBefore(f)}
           /\ \A w \in jobs : target'[w] = Home(w),
         UNCHANGED <<server, late, worker, pipe, outcome, tally, reports, uploaded>>
  PROVE  Orderly'
<1> USE DEF Start
<1>1. /\ Places' /\ Kind' = Kind /\ Case' = Case
      /\ \A f : /\ UploadedBefore(f)' <=> UploadedBefore(f)
                /\ DeletedBefore(f)' <=> DeletedBefore(f)
  BY PlacesKept DEF Verifying
<1>2. Launched' = {} /\ \A w \in Ids : worker[w] = "none"
  BY NoneAnswered DEF Launched
<1>3. Quiet'
  BY DEF Orderly, Quiet
<1>4. Jobs'
  BY <1>1, <1>2 DEF Orderly, Jobs, FilesIn
<1>5. Targets'
  BY <1>1, <1>2 DEF Targets, Home, MovesOf, MovedBy
<1>6. Stages' /\ Seen' /\ \A i \in DOMAIN reports' : Succeeded(reports'[i])
  BY <1>1 DEF Orderly, Stages, Seen, Verifying
<1> QED
  BY <1>1, <1>3, <1>4, <1>5, <1>6 DEF Orderly

LEMMA DoneIsLast == ASSUME Inv, Proceed PROVE main' = "done" => Kind' = "none"
<1>1. DOMAIN Plan = 1 .. Len(Plan) /\ Len(Plan) \in Nat
  BY PlanIsSteps, LenProperties
<1> QED
  BY <1>1 DEF Proceed, Kind

(* main goes on, when no goroutine exists.                                 *)
LEMMA ProceedOrderly ==
  ASSUME Inv, Orderly, main # "launch", Proceed, Verifying \/ Kind \in {"download", "list"},
         UNCHANGED <<server, late, worker, pipe, outcome, uploaded>>,
         \A i \in DOMAIN reports' : Succeeded(reports'[i])
  PROVE  Orderly'
<1>1. Kind # "upload"
  BY DEF Orderly, Stages, Seen, Verifying
<1>2. \A f : /\ UploadedBefore(f)' <=> UploadedBefore(f)
             /\ MovedBefore(f)' <=> MovedBefore(f)
             /\ DeletedBefore(f)' <=> DeletedBefore(f)
  BY <1>1, ProceedPast DEF Verifying
<1>3. main' \in {"begin", "done"} /\ tally' = NoTally
  BY DEF Proceed
<1>4. Places'
  <2> SUFFICES ASSUME NEW f \in Ids
               PROVE  server'[f] = IF f \in Files /\ Arrived(f)' /\ ~Removed(f)'
                                   THEN Whereabouts(f)' ELSE Nothing
    BY DEF Places
  <2>1. outcome[f] = "none" /\ outcome'[f] = "none"
    BY NoneAnswered
  <2>2. Arrived(f)' <=> Arrived(f)
    BY <1>2, <2>1 DEF Arrived
  <2>3. Removed(f)' <=> Removed(f)
    BY <1>2, <2>1 DEF Removed
  <2>4. Whereabouts(f)' = Whereabouts(f)
    BY <1>2 DEF Whereabouts, Home, MovesOf, MovedBy
  <2> QED
    BY <2>2, <2>3, <2>4 DEF Orderly, Places
<1>5. Quiet'
  BY <1>3 DEF Orderly, Quiet, NoTally
<1>6. Jobs' /\ Targets'
  BY <1>2, <1>3 DEF Orderly, Jobs, Targets
<1>7. Stages' /\ Seen'
  BY <1>3, DoneIsLast DEF Stages, Seen, Verifying
<1> QED
  BY <1>4, <1>5, <1>6, <1>7 DEF Orderly

LEMMA BeginUploadOrderly == ASSUME Inv, Orderly, BeginUpload PROVE Orderly'
<1>1. UploadCases[Case] \in SUBSET Ids
  BY CaseIsCase, ConstantsTyped DEF BeginUpload, At
<1> QED
  BY <1>1, StartOrderly DEF BeginUpload, At, Concurrent, store, threads, record

LEMMA BeginDownloadOrderly == ASSUME Inv, Orderly, BeginDownload PROVE Orderly'
<1> USE DEF BeginDownload, At, store, threads, record
<1> DEFINE caseFiles == UploadCases[Case] \cap uploaded
<1>1. CASE Start(caseFiles) /\ UNCHANGED record
  <2>1. caseFiles \in SUBSET Ids
    BY DEF Inv, TypeOK
  <2> HIDE DEF caseFiles
  <2> QED
    BY <1>1, <2>1, StartOrderly DEF Concurrent
<1>2. CASE Proceed /\ UNCHANGED <<channel, uploaded, reports>>
  BY <1>2, ProceedOrderly DEF Orderly, Verifying
<1> QED
  BY <1>1, <1>2

LEMMA BeginDeleteFilesOrderly ==
  ASSUME Inv, Orderly, BeginDeleteFiles, ~Trouble
  PROVE  Orderly'
<1> USE DEF BeginDeleteFiles, At, store, record
<1> DEFINE case == DeleteFileCases[Case]
           jobs == {id \in Stored : LiesIn(case.folder, server[id])}
<1>1. Start(jobs) /\ target' = ListedPaths(jobs) /\ UNCHANGED record
  OBVIOUS
<1>2. \A f \in Ids : Removed(f) <=> DeletedBefore(f)
  BY NoneAnswered DEF Removed
<1>3. jobs = {f \in FilesIn(case.folder) : ~DeletedBefore(f)}
  <2>1. \A f \in FilesIn(case.folder) : f \in Ids
    BY ConstantsTyped DEF FilesIn
  <2>2. Stored \subseteq Ids
    BY DEF Stored
  <2> QED
    BY <1>2, <2>1, <2>2, ListedFiles DEF FilesIn
<1>4. jobs \in SUBSET Ids
  BY DEF Stored
<1>5. \A w \in jobs : target'[w] = Home(w)
  <2>1. \A w \in jobs : w \in Stored /\ w \in Ids
    BY DEF Stored
  <2>2. \A w \in jobs : server[w] = Home(w)
    BY <2>1, ListedFiles
  <2> HIDE DEF jobs
  <2> QED
    BY <1>1, <2>1, <2>2 DEF ListedPaths
<1> HIDE DEF jobs
<1> QED
  BY <1>1, <1>3, <1>4, <1>5, StartOrderly DEF Concurrent

(* Every request of the round was answered well.                           *)
LEMMA AllAnsweredWell ==
  ASSUME Inv, Orderly, AllDone
  PROVE  /\ Counts.fail = 0 /\ Counts.bad = 0
         /\ \A w \in Ids : outcome[w] = "ok" <=> w \in Launched
         /\ results = Launched /\ todo = {}
<1>1. results = Launched /\ Counts.bad = 0 /\ results = Sent /\ todo = {}
  BY AllResultsAreIn DEF Inv, Counting, AllDone
<1>2. \A w \in Ids : outcome[w] = "ok" <=> w \in Launched
  <2>1. \A w \in Ids : outcome[w] = "none" <=> worker[w] \in {"none", "request", "found"}
    BY DEF Inv, Counting
  <2>2. \A w \in Ids : outcome[w] \in {"none", "ok"}
    BY DEF Orderly, Quiet
  <2> QED
    BY <1>1, <2>1, <2>2 DEF Sent, Launched
<1>3. {w \in results : outcome[w] = "fail"} = {}
  BY <1>1, <1>2 DEF Launched
<1>4. Counts.fail = 0
  BY <1>3, FS_EmptySet DEF Counts, Counted
<1> QED
  BY <1>1, <1>2, <1>4

LEMMA CollectOrderly == ASSUME Inv, Orderly, Collect PROVE Orderly'
<1> DEFINE good == {w \in results : outcome[w] = "ok"}
<1>1. /\ AllDone /\ Drained /\ UNCHANGED <<server, late>> /\ main = "launch"
      /\ uploaded' = uploaded \cup IF Kind = "upload" THEN good ELSE {}
      /\ \/ Kind \in {"upload", "download"} /\ Report(capacity, Counts, FALSE) /\ Proceed
         \/ /\ Kind = "deleteFiles" /\ tally' = Counts /\ main' = "verify"
            /\ UNCHANGED <<step, todo, passed, arrived, reports>>
  BY DEF Collect, AllDone, store
<1>2. /\ Counts.fail = 0 /\ Counts.bad = 0 /\ results = Launched /\ todo = {}
      /\ \A w \in Ids : outcome[w] = "ok" <=> w \in Launched
      /\ Counts \in Tallies /\ capacity \in Nat
  BY <1>1, AllAnsweredWell, AllResultsAreIn DEF Inv, TypeOK
<1>3. \A w \in Ids : outcome'[w] = "none" /\ pipe'[w] = "none" /\ worker'[w] = "none"
  BY <1>1 DEF Drained
<1>4. \A f \in Ids : /\ UploadedBefore(f)' <=> Arrived(f)
                     /\ MovedBefore(f)' <=> MovedBefore(f)
                     /\ DeletedBefore(f)' <=> Removed(f)
  <2>1. CASE Kind \in {"upload", "download"} /\ Proceed
    <3>1. \A f : /\ UploadedBefore(f)' <=>
                     UploadedBefore(f) \/ (Kind = "upload" /\ f \in UploadCases[Case])
                 /\ MovedBefore(f)' <=> MovedBefore(f)
                 /\ DeletedBefore(f)' <=> DeletedBefore(f)
      BY <2>1, ProceedPast DEF Verifying
    <3>2. Kind = "upload" => Launched = UploadCases[Case]
      BY <1>1, <1>2 DEF Orderly, Jobs
    <3> QED
      BY <1>2, <2>1, <3>1, <3>2 DEF Arrived, Removed
  <2>2. CASE Kind = "deleteFiles" /\ main' = "verify" /\ UNCHANGED step
    <3>1. \A f : /\ UploadedBefore(f)' <=> UploadedBefore(f)
                 /\ MovedBefore(f)' <=> MovedBefore(f)
                 /\ DeletedBefore(f)' <=>
                      DeletedBefore(f) \/ f \in FilesIn(DeleteFileCases[Case].folder)
      BY <1>1, <2>2, VerifyPast DEF Verifying
    <3>2. Launched = {f \in FilesIn(DeleteFileCases[Case].folder) : ~DeletedBefore(f)}
      BY <1>1, <1>2, <2>2 DEF Orderly, Jobs
    <3> QED
      BY <1>2, <2>2, <3>1, <3>2 DEF Arrived, Removed
  <2> QED
    BY <1>1, <2>1, <2>2
<1>5. Places'
  <2>1. ASSUME NEW f \in Ids
        PROVE  /\ Arrived(f)' <=> Arrived(f)
               /\ Removed(f)' <=> Removed(f)
               /\ Whereabouts(f)' = Whereabouts(f)
    <3>1. Arrived(f)' <=> Arrived(f)
      BY <1>3, <1>4 DEF Arrived
    <3>2. Removed(f)' <=> Removed(f)
      BY <1>3, <1>4 DEF Removed
    <3>3. Whereabouts(f)' = Whereabouts(f)
      BY <1>4 DEF Whereabouts, Home, MovesOf, MovedBy
    <3> QED
      BY <3>1, <3>2, <3>3
  <2> QED
    BY <1>1, <2>1 DEF Orderly, Places
<1>6. Quiet'
  <2>1. tally' = NoTally \/ tally' = Counts
    BY <1>1 DEF Proceed
  <2>2. NoTally.fail = 0 /\ NoTally.bad = 0
    BY DEF NoTally
  <2>3. tally'.fail = 0 /\ tally'.bad = 0
    BY <1>2, <2>1, <2>2
  <2> QED
    BY <1>1, <1>3, <2>3 DEF Orderly, Quiet
<1>7. Jobs'
  <2>1. \A f \in Files : f \in Ids
    BY ConstantsTyped
  <2>2. Kind = "upload" => Launched \subseteq Files
    BY <1>1, <1>2, CaseIsCase DEF Orderly, Jobs
  <2>3. good = Launched
    BY <1>2 DEF Launched
  <2>4. uploaded' = {f \in Files : Arrived(f)}
    <3>1. CASE Kind = "upload"
      BY <1>1, <1>2, <2>1, <2>2, <2>3, <3>1 DEF Orderly, Jobs, Arrived
    <3>2. CASE Kind # "upload"
      BY <1>1, <3>2 DEF Orderly, Jobs, Arrived
    <3> QED
      BY <3>1, <3>2
  <2>5. uploaded' = {f \in Files : UploadedBefore(f)'}
    BY <1>4, <2>1, <2>4
  <2>6. main' \in {"begin", "done", "verify"}
    BY <1>1 DEF Proceed
  <2> QED
    BY <2>5, <2>6 DEF Jobs
<1>8. Targets' /\ Stages' /\ Seen'
  <2>1. CASE Proceed
    BY <2>1, DoneIsLast DEF Proceed, Targets, Stages, Seen, Verifying
  <2>2. CASE Kind = "deleteFiles" /\ main' = "verify" /\ UNCHANGED step
    BY <2>2, KindKept DEF Targets, Stages, Seen, Verifying
  <2> QED
    BY <1>1, <2>1, <2>2
<1>9. \A i \in DOMAIN reports' : Succeeded(reports'[i])
  <2>1. CASE Kind \in {"upload", "download"} /\ Report(capacity, Counts, FALSE)
    BY <1>2, <2>1, SuccessReported
  <2>2. CASE UNCHANGED reports
    BY <2>2 DEF Orderly
  <2> QED
    BY <1>1, <2>1, <2>2
<1> QED
  BY <1>5, <1>6, <1>7, <1>8, <1>9 DEF Orderly

-----------------------------------------------------------------------------
(* The listing of all folders.                                             *)

LEMMA BeginListOrderly == ASSUME Inv, Orderly, BeginList PROVE Orderly'
<1> USE DEF BeginList, At, store, threads, channel, record
<1>1. /\ Places' /\ Kind' = Kind /\ Case' = Case
      /\ \A f : UploadedBefore(f)' <=> UploadedBefore(f)
  BY PlacesKept DEF Verifying
<1>2. Quiet'
  BY DEF Orderly, Quiet
<1>3. Jobs'
  BY <1>1 DEF Orderly, Jobs, Dir
<1>4. Targets' /\ Stages' /\ Seen'
  BY <1>1 DEF Targets, Stages, Seen, Verifying
<1> QED
  BY <1>1, <1>2, <1>3, <1>4 DEF Orderly

(* A path lies in the folder that its front names, and in no other.        *)
LEMMA LiesInFront ==
  ASSUME NEW p \in Seq(Names), NEW q \in Seq(Names), p # <<>>, q # <<>>,
         NEW folder, folder = Front(q)
  PROVE  LiesIn(folder, p) <=> Front(p) = folder
<1>1. Len(p) \in Nat \ {0} /\ Len(q) \in Nat \ {0}
  BY EmptySeq, LenProperties
<1>2. /\ Front(p) = SubSeq(p, 1, Len(p) - 1) /\ Front(q) = SubSeq(q, 1, Len(q) - 1)
  BY DEF Front
<1>3. /\ Front(p) \in Seq(Names) /\ Len(Front(p)) = Len(p) - 1
      /\ \A i \in 1 .. Len(p) - 1 : Front(p)[i] = p[i]
  <2> DEFINE last == Len(p) - 1
             front == SubSeq(p, 1, last)
  <2>1. last \in Nat /\ \A i \in 1 .. last : p[i] \in Names
    BY <1>1
  <2>2. last = Len(p) - 1 /\ Front(p) = front
    BY <1>2
  <2> HIDE DEF last
  <2>3. last - 1 + 1 = last /\ (1 <= last \/ last = 0)
    BY <2>1
  <2>4. /\ front \in Seq(Names) /\ Len(front) = (IF 1 <= last THEN last - 1 + 1 ELSE 0)
        /\ \A i \in 1 .. last - 1 + 1 : front[i] = p[1 + i - 1]
    BY <2>1, SubSeqProperties
  <2>5. \A i \in 1 .. last : i \in 1 .. last - 1 + 1 /\ 1 + i - 1 = i
    BY <2>1
  <2>6. Len(front) = last /\ \A i \in 1 .. last : front[i] = p[i]
    BY <2>3, <2>4, <2>5
  <2> QED
    BY <2>2, <2>4, <2>6
<1>4. folder \in Seq(Names) /\ Len(folder) \in Nat
  BY <1>1, <1>2, SubSeqProperties, LenProperties
<1>5. DOMAIN folder = 1 .. Len(folder) /\ DOMAIN Front(p) = 1 .. Len(p) - 1
  BY <1>1, <1>3, <1>4, LenProperties
<1>6. ASSUME LiesIn(folder, p) PROVE Front(p) = folder
  <2>1. Len(p) - 1 = Len(folder) /\ \A i \in 1 .. Len(folder) : folder[i] = p[i]
    BY <1>1, <1>4, <1>5, <1>6 DEF LiesIn, Within
  <2> QED
    BY <1>3, <1>4, <2>1, SeqEqual
<1>7. ASSUME Front(p) = folder PROVE LiesIn(folder, p)
  BY <1>1, <1>3, <1>5, <1>7 DEF LiesIn, Within
<1> QED
  BY <1>6, <1>7

(* A folder of the files holds no folders, and each file lies in its own.  *)
LEMMA ListFolderOrderly == ASSUME Inv, Orderly, ListFolder, ~Trouble PROVE Orderly'
<1> USE DEF ListFolder, At, store, threads, channel
<1>1. Kind = "list" /\ main = "list"
  OBVIOUS
<1>2. PICK folder \in todo :
        /\ todo' = todo \ {folder}
        /\ tally' = IF EntryCount(folder) = Cardinality({f \in uploaded : Dir(PathOf[f]) = folder})
                    THEN [tally EXCEPT !.ok = @ + 1] ELSE [tally EXCEPT !.bad = @ + 1]
  OBVIOUS
<1>3. PICK g \in Files : folder = Dir(PathOf[g])
  BY <1>1, <1>2 DEF Orderly, Jobs
<1>4. \A f \in Files : PathOf[f] \in Seq(Names) /\ PathOf[f] # <<>>
  BY ConstantsTyped, TablesAssumption
<1>5. uploaded = Files
  BY <1>1, Phases DEF Orderly, Jobs
<1>6. Stored = Files /\ \A f \in Files : server[f] = PathOf[f]
  BY <1>1, Whereabout, HomeIsPath, ConstantsTyped DEF Stored
<1>7. \A f \in Files : LiesIn(folder, PathOf[f]) <=> Dir(PathOf[f]) = folder
  <2> SUFFICES ASSUME NEW f \in Files PROVE LiesIn(folder, PathOf[f]) <=> Front(PathOf[f]) = folder
    BY DEF Dir
  <2>1. PathOf[f] \in Seq(Names) /\ PathOf[g] \in Seq(Names) /\ PathOf[f] # <<>> /\ PathOf[g] # <<>>
    BY <1>4
  <2> QED
    BY <1>3, <2>1, LiesInFront DEF Dir
<1>8. ChildFolders(folder, {server[id] : id \in Stored}) = {}
  <2>1. {server[id] : id \in Stored} = LocalPaths
    BY <1>6 DEF LocalPaths
  <2> QED
    BY <1>3, <2>1, TablesAssumption DEF Dir
<1>9. EntryCount(folder) = Cardinality({f \in uploaded : Dir(PathOf[f]) = folder})
  <2>1. {id \in Stored : LiesIn(folder, server[id])} = {f \in uploaded : Dir(PathOf[f]) = folder}
    BY <1>5, <1>6, <1>7
  <2>2. Cardinality({f \in uploaded : Dir(PathOf[f]) = folder}) \in Nat
    BY <1>5, ConstantsTyped, SubsetsFinite
  <2>3. EntryCount(folder) =
          Cardinality({f \in uploaded : Dir(PathOf[f]) = folder}) + Cardinality({})
    BY <1>8, <2>1 DEF EntryCount
  <2>4. Cardinality({}) = 0
    BY FS_EmptySet
  <2> QED
    BY <2>2, <2>3, <2>4
<1>10. tally' = [tally EXCEPT !.ok = @ + 1] /\ tally \in Tallies
  BY <1>2, <1>9 DEF Inv, TypeOK
<1>11. /\ Places' /\ Kind' = Kind /\ Case' = Case
       /\ \A f : UploadedBefore(f)' <=> UploadedBefore(f)
  BY PlacesKept DEF Verifying
<1>12. Quiet'
  BY <1>10 DEF Orderly, Quiet, Tallies
<1>13. Jobs' /\ Targets' /\ Stages' /\ Seen'
  BY <1>1, <1>2, <1>11 DEF Orderly, Jobs, Targets, Stages, Seen, Verifying, Dir
<1> QED
  BY <1>11, <1>12, <1>13 DEF Orderly

LEMMA EndListOrderly == ASSUME Inv, Orderly, EndList PROVE Orderly'
<1> USE DEF EndList, At, store, threads, channel
<1>1. tally \in Tallies /\ tally.fail = 0 /\ tally.bad = 0
  BY DEF Inv, TypeOK, Orderly, Quiet
<1>2. tally.ok + tally.fail + tally.bad \in Nat
  BY <1>1 DEF Tallies
<1>3. Report(tally.ok + tally.fail + tally.bad, tally, TRUE)
  BY <1>1
<1>4. \A i \in DOMAIN reports' : Succeeded(reports'[i])
  BY <1>1, <1>2, <1>3, SuccessReported
<1> QED
  BY <1>4, ProceedOrderly DEF Verifying

-----------------------------------------------------------------------------
(* The moves.                                                              *)

LEMMA WithinIsCovered ==
  ASSUME NEW folder, NEW path, Within(folder, path)
  PROVE  Covers(folder, path) /\ Matches(folder, path)
BY DEF Within, Covers, Matches, Like

(* A file that was moved is not moved again, nor one that no case covers.  *)
LEMMA NotCovered ==
  ASSUME NEW f \in Files, NEW i \in DOMAIN MoveCases
  PROVE  /\ MovesOf(f) # {} => ~Covers(MoveCases[i].from, Home(f))
         /\ i \notin MovesOf(f) => ~Covers(MoveCases[i].from, PathOf[f])
<1>1. ASSUME NEW j \in MovesOf(f) PROVE ~Covers(MoveCases[i].from, Home(f))
  <2>1. Home(f) = MovedBy(j, f)
    BY HomeIsPath
  <2> QED
    BY <2>1, TablesAssumption
<1> QED
  BY <1>1 DEF MovesOf

(* What moved is below the new folder as it was below the old one.         *)
LEMMA RebasedBelow ==
  ASSUME NEW path \in Seq(Names), NEW from \in Seq(Names), NEW to \in Seq(Names),
         Within(from, path)
  PROVE  LET moved == Rebased(path, from, to) IN
         /\ Within(to, moved) /\ Len(moved) - Len(to) = Len(path) - Len(from)
         /\ LiesIn(to, moved) <=> LiesIn(from, path)
         /\ Len(moved) > Len(to) + 1 <=> Len(path) > Len(from) + 1
         /\ moved[Len(to) + 1] = path[Len(from) + 1]
<1> DEFINE first == Len(from) + 1
           last == Len(path)
           rest == SubSeq(path, first, last)
           moved == to \o rest
           n == last - first + 1
<1>1. /\ Len(from) \in Nat /\ Len(to) \in Nat /\ last \in Nat /\ Len(from) < last
      /\ DOMAIN to = 1 .. Len(to)
  BY LenProperties DEF Within
<1>2. first \in Nat \ {0} /\ first <= last /\ n = last - Len(from) /\ n \in Nat \ {0}
  BY <1>1
<1>3. \A i \in first .. last : path[i] \in Names
  BY <1>1, <1>2
<1> HIDE DEF first, last
<1>4. /\ rest \in Seq(Names) /\ Len(rest) = n
      /\ \A i \in 1 .. n : rest[i] = path[first + i - 1]
  BY <1>1, <1>2, <1>3, SubSeqProperties
<1>5. rest[1] = path[first]
  <2>1. 1 \in 1 .. n /\ first + 1 - 1 = first
    BY <1>2
  <2> QED
    BY <1>4, <2>1
<1> HIDE DEF rest, n
<1>6. /\ moved \in Seq(Names) /\ Len(moved) = Len(to) + n
      /\ \A i \in 1 .. Len(to) + n : moved[i] = IF i <= Len(to) THEN to[i] ELSE rest[i - Len(to)]
  BY <1>4, ConcatProperties
<1>7. Rebased(path, from, to) = moved
  BY DEF Rebased, rest, first, last
<1> HIDE DEF moved
<1>8. Within(to, moved)
  <2>1. Len(to) < Len(to) + n /\ \A i \in 1 .. Len(to) : i \in 1 .. Len(to) + n /\ i <= Len(to)
    BY <1>1, <1>2
  <2>2. \A i \in 1 .. Len(to) : moved[i] = to[i]
    BY <1>6, <2>1
  <2> QED
    BY <1>1, <1>6, <2>1, <2>2 DEF Within
<1>9. moved[Len(to) + 1] = path[first]
  <2>1. Len(to) + 1 \in 1 .. Len(to) + n /\ ~(Len(to) + 1 <= Len(to)) /\ Len(to) + 1 - Len(to) = 1
    BY <1>1, <1>2
  <2> QED
    BY <1>5, <1>6, <2>1
<1>10. /\ Len(moved) = Len(to) + 1 <=> last = Len(from) + 1
       /\ Len(moved) > Len(to) + 1 <=> last > Len(from) + 1
       /\ Len(moved) - Len(to) = last - Len(from)
  <2>1. ASSUME NEW m, m = Len(to) + n
        PROVE  /\ m = Len(to) + 1 <=> last = Len(from) + 1
               /\ m > Len(to) + 1 <=> last > Len(from) + 1
               /\ m - Len(to) = last - Len(from)
    BY <1>1, <1>2, <2>1
  <2>2. Len(moved) = Len(to) + n
    BY <1>6
  <2> QED
    BY <2>1, <2>2, Zenon
<1> QED
  BY <1>7, <1>8, <1>9, <1>10 DEF LiesIn, first, last

LEMMA RequestOrderly ==
  ASSUME Inv, Orderly, main = "begin", Kind \in {"move", "deleteFolder"}, main' = "verify",
         UNCHANGED <<step, late, threads, record>>, Places'
  PROVE  Orderly'
<1> USE DEF threads, record
<1>1. Kind' = Kind
  BY KindKept
<1>2. \A f : UploadedBefore(f)' <=> UploadedBefore(f)
  BY VerifyPast DEF Verifying
<1>3. Quiet'
  BY DEF Orderly, Quiet
<1>4. Jobs'
  BY <1>2 DEF Orderly, Jobs
<1>5. Targets' /\ Stages' /\ Seen'
  BY <1>1 DEF Targets, Stages, Seen, Verifying
<1> QED
  BY <1>3, <1>4, <1>5 DEF Orderly

LEMMA MoveFolderOrderly == ASSUME Inv, Orderly, MoveFolder, ~Trouble PROVE Orderly'
<1> DEFINE case == MoveCases[Case]
           moved == {id \in Stored : Covers(case.from, server[id])}
           rows == [id \in Ids |->
                      IF id \in moved THEN Rebased(server[id], case.from, case.to) ELSE server[id]]
<1>1. /\ Kind = "move" /\ main = "begin" /\ main' = "verify" /\ server' = rows
      /\ UNCHANGED <<step, late, threads, record>>
  BY DEF MoveFolder, At, Request
<1>2. Case \in DOMAIN MoveCases /\ ~Past(Listing + Case)
  BY <1>1, CaseInTable DEF Past, Verifying
<1>3. /\ Kind' = Kind /\ Case' = Case
      /\ \A f : /\ UploadedBefore(f)' <=> UploadedBefore(f)
                /\ MovedBefore(f)' <=> MovedBefore(f) \/ Case \in MovesOf(f)
                /\ DeletedBefore(f)' <=> DeletedBefore(f)
  BY <1>1, KindKept, VerifyPast DEF Verifying
<1>4. \A f \in Files : UploadedBefore(f) /\ ~DeletedBefore(f)
  BY <1>1, Phases
<1>5. \A id \in Ids :
        server[id] = IF id \notin Files THEN Nothing
                     ELSE IF MovedBefore(id) THEN Home(id) ELSE PathOf[id]
  BY <1>1, Whereabout
<1>6. Places'
  <2> SUFFICES ASSUME NEW f \in Ids
               PROVE  server'[f] = IF f \in Files /\ Arrived(f)' /\ ~Removed(f)'
                                   THEN Whereabouts(f)' ELSE Nothing
    BY DEF Places
  <2>1. CASE f \notin Files
    <3>1. f \notin moved
      BY <1>5, <2>1 DEF Stored
    <3> QED
      BY <1>1, <1>5, <2>1, <3>1
  <2>2. CASE f \in Files
    <3>1. /\ Arrived(f)' /\ ~Removed(f)'
          /\ Whereabouts(f)' = IF MovedBefore(f) \/ Case \in MovesOf(f) THEN Home(f) ELSE PathOf[f]
      BY <1>1, <1>3, <1>4, <2>2
         DEF Arrived, Removed, Whereabouts, Home, MovesOf, MovedBy
    <3>2. CASE Case \in MovesOf(f)
      <4>1. MovesOf(f) = {Case} /\ Home(f) = MovedBy(Case, f)
        BY <2>2, <3>2, HomeIsPath, TablesAssumption
      <4>2. ~MovedBefore(f)
        BY <1>2, <4>1 DEF MovedBefore
      <4>3. server[f] = PathOf[f] /\ f \in Stored
        BY <1>5, <2>2, <4>2, HomeIsPath DEF Stored
      <4>4. f \in moved
        BY <3>2, <4>3 DEF MovesOf
      <4>5. Rebased(server[f], case.from, case.to) = Home(f)
        BY <4>1, <4>3 DEF MovedBy
      <4> HIDE DEF moved
      <4>6. server'[f] = Home(f)
        BY <1>1, <4>4, <4>5
      <4> QED
        BY <2>2, <3>1, <3>2, <4>6
    <3>3. CASE Case \notin MovesOf(f)
      <4>1. MovedBefore(f) => MovesOf(f) # {}
        BY DEF MovedBefore
      <4>2. ~Covers(case.from, server[f])
        BY <1>2, <1>5, <2>2, <3>3, <4>1, NotCovered
      <4> QED
        BY <1>1, <1>5, <2>2, <3>1, <3>3, <4>2
    <3> QED
      BY <3>2, <3>3
  <2> QED
    BY <2>1, <2>2
<1> QED
  BY <1>1, <1>6, RequestOrderly

(* The old folder is empty, and the new one lists what the old one did:    *)
(* the files of the case, unless there were folders in it.                 *)
LEMMA MoveVerdict ==
  ASSUME Inv, Orderly, Kind = "move", Verifying
  PROVE  LET case == MoveCases[Case] IN
         /\ EntryCount(case.from) = 0
         /\ EntryCount(case.to) = case.files <=> ChildFolders(case.from, LocalPaths) = {}
<1> DEFINE case == MoveCases[Case]
           folders == ChildFolders(case.from, LocalPaths)
           direct == {f \in Files : LiesIn(case.from, PathOf[f])}
           paths == {server[id] : id \in Stored}
<1>1. Case \in DOMAIN MoveCases /\ Past(Listing + Case)
  BY CaseInTable DEF Past, Verifying
<1>2. case.from \in Seq(Names) /\ case.to \in Seq(Names)
  BY CaseIsCase
<1>3. /\ Stored = Files
      /\ \A f \in Files : server[f] = IF MovedBefore(f) THEN Home(f) ELSE PathOf[f]
  BY Whereabout, HomeIsPath, ConstantsTyped DEF Stored
<1>4. ASSUME NEW f \in Files, Case \in MovesOf(f)
      PROVE  server[f] = Rebased(PathOf[f], case.from, case.to) /\ Within(case.from, PathOf[f])
  <2>1. MovedBefore(f)
    BY <1>1, <1>4 DEF MovedBefore
  <2>2. server[f] = MovedBy(Case, f)
    BY <1>3, <1>4, <2>1, HomeIsPath
  <2> QED
    BY <1>4, <2>2, TablesAssumption DEF MovedBy
<1>5. ASSUME NEW f \in Files, Case \notin MovesOf(f)
      PROVE  ~Within(case.to, server[f]) /\ ~Within(case.from, PathOf[f])
  <2>1. ~Within(case.to, PathOf[f]) /\ ~Within(case.to, Home(f))
    BY <1>1, <1>5, TablesAssumption
  <2>2. ~Within(case.from, PathOf[f])
    BY <1>1, <1>5, WithinIsCovered DEF MovesOf
  <2> QED
    BY <1>3, <2>1, <2>2
<1>6. EntryCount(case.from) = 0
  <2>1. ASSUME NEW f \in Files PROVE ~Within(case.from, server[f])
    <3>1. CASE MovedBefore(f)
      <4>1. MovesOf(f) # {}
        BY <3>1 DEF MovedBefore
      <4> QED
        BY <1>1, <1>3, <3>1, <4>1, NotCovered, WithinIsCovered
    <3>2. CASE ~MovedBefore(f)
      <4>1. Case \notin MovesOf(f) /\ server[f] = PathOf[f]
        BY <1>1, <1>3, <3>2 DEF MovedBefore
      <4> QED
        BY <1>5, <4>1
    <3> QED
      BY <3>1, <3>2
  <2>2. RowsBelow(case.from) = {}
    BY <1>3, <2>1 DEF RowsBelow
  <2> QED
    BY <2>2, ListedEmpty
<1>7. ASSUME NEW f \in Files
      PROVE  /\ LiesIn(case.to, server[f]) <=> LiesIn(case.from, PathOf[f])
             /\ Within(case.to, server[f]) <=> Within(case.from, PathOf[f])
             /\ Within(case.to, server[f]) =>
                  /\ server[f][Len(case.to) + 1] = PathOf[f][Len(case.from) + 1]
                  /\ Len(server[f]) > Len(case.to) + 1 <=> Len(PathOf[f]) > Len(case.from) + 1
  <2>1. CASE Case \in MovesOf(f)
    <3> DEFINE path == Rebased(PathOf[f], case.from, case.to)
    <3>1. PathOf[f] \in Seq(Names) /\ Within(case.from, PathOf[f]) /\ server[f] = path
      BY <1>4, <2>1, HomeIsPath
    <3>2. /\ Within(case.to, path)
          /\ LiesIn(case.to, path) <=> LiesIn(case.from, PathOf[f])
          /\ Len(path) > Len(case.to) + 1 <=> Len(PathOf[f]) > Len(case.from) + 1
          /\ path[Len(case.to) + 1] = PathOf[f][Len(case.from) + 1]
      BY <1>2, <3>1, RebasedBelow
    <3> HIDE DEF path
    <3> QED
      BY <3>1, <3>2
  <2>2. CASE Case \notin MovesOf(f)
    BY <1>5, <2>2 DEF LiesIn
  <2> QED
    BY <2>1, <2>2
<1>8. {id \in Stored : LiesIn(case.to, server[id])} = direct
  BY <1>3, <1>7
<1>9. ChildFolders(case.to, paths) = folders
  <2>1. ASSUME NEW name PROVE name \in ChildFolders(case.to, paths) <=> name \in folders
    <3>1. name \in ChildFolders(case.to, paths) <=>
            \E f \in Files : /\ Within(case.to, server[f]) /\ Len(server[f]) > Len(case.to) + 1
                             /\ name = server[f][Len(case.to) + 1]
      BY <1>3 DEF ChildFolders
    <3>2. name \in folders <=>
            \E f \in Files : /\ Within(case.from, PathOf[f]) /\ Len(PathOf[f]) > Len(case.from) + 1
                             /\ name = PathOf[f][Len(case.from) + 1]
      BY DEF ChildFolders, LocalPaths
    <3> QED
      BY <1>7, <3>1, <3>2
  <2> QED
    BY <2>1
<1>10. EntryCount(case.to) = Cardinality(direct) + Cardinality(folders)
  BY <1>8, <1>9 DEF EntryCount
<1>11. folders = {} <=> Cardinality(direct) + Cardinality(folders) = case.files
  BY <1>1, TablesAssumption
<1> QED
  BY <1>6, <1>10, <1>11

-----------------------------------------------------------------------------
(* The deletes of whole folders.                                           *)

(* The ones before it left a file for each of them.                        *)
LEMMA SomethingToDelete ==
  ASSUME Inv, Orderly, Kind = "deleteFolder", main = "begin"
  PROVE  RowsUnder(DeleteFolderCases[Case].folder) # {}
<1>1. Case \in DOMAIN DeleteFolderCases /\ step = LastFiles + Case
  BY CaseInTable
<1>2. PICK f \in FilesUnder(DeleteFolderCases[Case].folder) :
        /\ \A j \in DOMAIN DeleteFileCases : f \notin FilesIn(DeleteFileCases[j].folder)
        /\ \A j \in 1 .. Case - 1 : f \notin FilesUnder(DeleteFolderCases[j].folder)
  BY <1>1, TablesAssumption
<1>3. ~DeletedBefore(f)
  <2>1. ASSUME NEW j \in DOMAIN DeleteFolderCases, Past(LastFiles + j)
        PROVE  j \in 1 .. Case - 1
    <3>1. j \in Nat \ {0} /\ Case \in Nat \ {0} /\ LastFiles \in Nat
      BY <1>1, Lengths
    <3> QED
      BY <1>1, <2>1, <3>1 DEF Past, Verifying
  <2> QED
    BY <1>2, <2>1 DEF DeletedBefore
<1>4. f \in Files /\ Matches(DeleteFolderCases[Case].folder, Home(f))
  BY <1>2 DEF FilesUnder
<1>5. f \in Ids /\ server[f] = Home(f) /\ Home(f) # Nothing
  BY <1>3, <1>4, Whereabout, HomeIsPath, ConstantsTyped DEF Removed
<1> QED
  BY <1>4, <1>5 DEF RowsUnder, Stored

LEMMA DeleteFolderOrderly == ASSUME Inv, Orderly, DeleteFolder, ~Trouble PROVE Orderly'
<1> DEFINE folder == DeleteFolderCases[Case].folder
           rows == [id \in Ids |-> IF id \in RowsUnder(folder) THEN Nothing ELSE server[id]]
<1>1. /\ Kind = "deleteFolder" /\ main = "begin" /\ main' = "verify" /\ server' = rows
      /\ UNCHANGED <<step, late, threads, record>>
  BY SomethingToDelete DEF DeleteFolder, At, Request
<1>2. /\ Kind' = Kind /\ Case' = Case
      /\ \A f : /\ UploadedBefore(f)' <=> UploadedBefore(f)
                /\ MovedBefore(f)' <=> MovedBefore(f)
                /\ DeletedBefore(f)' <=> DeletedBefore(f) \/ f \in FilesUnder(folder)
  BY <1>1, KindKept, VerifyPast DEF Verifying
<1>3. \A f \in Files : UploadedBefore(f) /\ Whereabouts(f) = Home(f)
  <2>1. \A f \in Files : UploadedBefore(f) /\ (MovedBefore(f) <=> MovesOf(f) # {})
    BY <1>1, Phases
  <2> QED
    BY <2>1, HomeIsPath DEF Whereabouts
<1>4. \A id \in Ids : server[id] = IF id \in Files /\ ~DeletedBefore(id) THEN Home(id) ELSE Nothing
  BY <1>1, Whereabout DEF Removed
<1>5. Places'
  <2> SUFFICES ASSUME NEW f \in Ids
               PROVE  server'[f] = IF f \in Files /\ Arrived(f)' /\ ~Removed(f)'
                                   THEN Whereabouts(f)' ELSE Nothing
    BY DEF Places
  <2>1. Removed(f)' <=> DeletedBefore(f) \/ f \in FilesUnder(folder)
    BY <1>1, <1>2 DEF Removed
  <2>2. f \in RowsUnder(folder) <=> f \in Files /\ ~DeletedBefore(f) /\ f \in FilesUnder(folder)
    <3>1. f \in Files => Home(f) # Nothing
      BY HomeIsPath
    <3> QED
      BY <1>4, <3>1 DEF RowsUnder, Stored, FilesUnder
  <2>3. f \in Files => Arrived(f)' /\ Whereabouts(f)' = Home(f)
    <3>1. Whereabouts(f)' = Whereabouts(f)
      BY <1>2 DEF Whereabouts, Home, MovesOf, MovedBy
    <3> QED
      BY <1>2, <1>3, <3>1 DEF Arrived
  <2>4. server'[f] = IF f \in RowsUnder(folder) THEN Nothing ELSE server[f]
    BY <1>1
  <2> QED
    BY <1>4, <2>1, <2>2, <2>3, <2>4
<1> QED
  BY <1>1, <1>5, RequestOrderly

-----------------------------------------------------------------------------
(* The verifications.                                                      *)

(* Nothing is listed in the folder any more.                               *)
LEMMA DeletedFilesGone ==
  ASSUME Inv, Orderly, Kind = "deleteFiles", Verifying
  PROVE  EntryCount(DeleteFileCases[Case].folder) = 0
<1> DEFINE folder == DeleteFileCases[Case].folder
<1>1. Case \in DOMAIN DeleteFileCases
  BY CaseInTable
<1>2. \A f \in FilesIn(folder) : Removed(f)
  <2>1. Past(LastMove + Case)
    BY CaseInTable DEF Past
  <2> QED
    BY <1>1, <2>1 DEF Removed, DeletedBefore
<1>3. {id \in Stored : LiesIn(folder, server[id])} = {}
  <2> SUFFICES ASSUME NEW id \in Stored, LiesIn(folder, server[id]) PROVE FALSE
    OBVIOUS
  <2>1. id \in Files /\ ~Removed(id) /\ server[id] = Home(id)
    BY ListedFiles DEF Stored
  <2> QED
    BY <1>2, <2>1 DEF FilesIn
<1>4. ChildFolders(folder, {server[id] : id \in Stored}) = {}
  <2>1. {server[id] : id \in Stored} \subseteq {Home(f) : f \in Files}
    BY ListedFiles
  <2>2. ChildFolders(folder, {Home(f) : f \in Files}) = {}
    BY <1>1, TablesAssumption
  <2> QED
    BY <2>1, <2>2 DEF ChildFolders
<1> QED
  BY <1>3, <1>4, FS_EmptySet DEF EntryCount

LEMMA DeletedFolderGone ==
  ASSUME Inv, Orderly, Kind = "deleteFolder", Verifying
  PROVE  EntryCount(DeleteFolderCases[Case].folder) = 0
<1> DEFINE folder == DeleteFolderCases[Case].folder
<1>1. RowsBelow(folder) = {}
  <2> SUFFICES ASSUME NEW id \in Stored, Within(folder, server[id]) PROVE FALSE
    BY DEF RowsBelow
  <2>1. id \in Files /\ ~Removed(id) /\ server[id] = Home(id)
    BY Whereabout DEF Stored
  <2>2. id \in FilesUnder(folder)
    BY <2>1, WithinIsCovered DEF FilesUnder
  <2>3. Past(LastFiles + Case) /\ Case \in DOMAIN DeleteFolderCases
    BY CaseInTable DEF Past
  <2> QED
    BY <2>1, <2>2, <2>3 DEF Removed, DeletedBefore
<1> QED
  BY <1>1, ListedEmpty

LEMMA ListedOrderly ==
  ASSUME Inv, Orderly, Verifying, Verifying', main' = "listNew" => Kind = "move",
         UNCHANGED <<store, step, todo, threads, record>>, Seen'
  PROVE  Orderly'
<1> USE DEF store, threads, record
<1>1. /\ Places' /\ Kind' = Kind /\ Case' = Case
      /\ \A f : UploadedBefore(f)' <=> UploadedBefore(f)
  BY PlacesKept
<1>2. Quiet'
  BY DEF Orderly, Quiet
<1>3. Jobs'
  BY <1>1 DEF Orderly, Jobs, Verifying
<1>4. Targets' /\ Stages'
  BY <1>1 DEF Orderly, Targets, Stages, Verifying
<1>5. \A i \in DOMAIN reports' : Succeeded(reports'[i])
  BY DEF Orderly
<1> QED
  BY <1>1, <1>2, <1>3, <1>4, <1>5 DEF Orderly

LEMMA ListOldOrderly == ASSUME Inv, Orderly, ListOld, ~Trouble PROVE Orderly'
<1> USE DEF ListOld
<1>1. Verifying /\ Verifying'
  BY DEF Verifying
<1>2. Kind \in {"move", "deleteFiles", "deleteFolder"}
  BY <1>1 DEF Orderly, Stages
<1>3. EntryCount(OldFolder) = 0
  <2>1. CASE Kind = "move"
    BY <1>1, <2>1, MoveVerdict DEF OldFolder
  <2>2. CASE Kind = "deleteFiles"
    BY <1>1, <2>2, DeletedFilesGone DEF OldFolder
  <2>3. CASE Kind = "deleteFolder"
    BY <1>1, <2>3, DeletedFolderGone DEF OldFolder
  <2> QED
    BY <1>2, <2>1, <2>2, <2>3
<1>4. passed'
  BY <1>3 DEF Listed
<1>5. Seen'
  BY <1>4 DEF Seen
<1> QED
  BY <1>1, <1>5, ListedOrderly

LEMMA ListNewOrderly == ASSUME Inv, Orderly, ListNew, ~Trouble PROVE Orderly'
<1> USE DEF ListNew
<1>1. Verifying /\ Verifying' /\ Kind = "move" /\ passed
  BY DEF Verifying, Orderly, Stages, Seen
<1>2. Kind' = Kind /\ Case' = Case
  BY KindKept
<1>3. EntryCount(MoveCases[Case].to) = MoveCases[Case].files
        <=> ChildFolders(MoveCases[Case].from, LocalPaths) = {}
  BY <1>1, MoveVerdict
<1>4. passed' <=> EntryCount(MoveCases[Case].to) = MoveCases[Case].files
  BY <1>1 DEF Listed
<1>5. Seen'
  BY <1>1, <1>2, <1>3, <1>4 DEF Seen, LocalPaths
<1> QED
  BY <1>1, <1>5, ListedOrderly

LEMMA ReportOrderly ==
  ASSUME Inv, Orderly, Kind \in {"move", "deleteFiles", "deleteFolder"},
         NEW files \in Nat, NEW counts \in Tallies, counts.fail = 0, counts.bad = 0,
         ReportVerdict(files, counts)
  PROVE  Orderly'
<1> USE DEF ReportVerdict, store, threads
<1>1. Verifying /\ main # "launch"
  BY DEF Verifying
<1>2. passed \in BOOLEAN
  BY DEF Inv, TypeOK
<1>3. /\ Kind \in {"list", "deleteFiles", "deleteFolder"} => passed
      /\ Kind = "move" /\ ChildFolders(MoveCases[Case].from, LocalPaths) = {} => passed
  BY DEF Orderly, Seen
<1>4. \A i \in DOMAIN reports' : Succeeded(reports'[i])
  BY <1>2, <1>3, SuccessReported
<1> QED
  BY <1>1, <1>4, ProceedOrderly

LEMMA ReportMoveOrderly == ASSUME Inv, Orderly, ReportMove PROVE Orderly'
<1> DEFINE counts == [NoTally EXCEPT !.ok = 1]
<1>1. counts \in Tallies /\ counts.fail = 0 /\ counts.bad = 0 /\ MoveCases[Case].files \in Nat
  BY CaseIsCase DEF NoTally, Tallies, ReportMove
<1>2. Kind = "move" /\ ReportVerdict(MoveCases[Case].files, counts)
  BY DEF ReportMove
<1> HIDE DEF counts
<1> QED
  BY <1>1, <1>2, ReportOrderly

LEMMA ReportDeleteFilesOrderly == ASSUME Inv, Orderly, ReportDeleteFiles PROVE Orderly'
<1>1. capacity \in Nat /\ tally \in Tallies /\ tally.fail = 0 /\ tally.bad = 0
  BY DEF Inv, TypeOK, Orderly, Quiet
<1> QED
  BY <1>1, ReportOrderly DEF ReportDeleteFiles

LEMMA ReportDeleteFolderOrderly == ASSUME Inv, Orderly, ReportDeleteFolder PROVE Orderly'
<1> DEFINE counts == [NoTally EXCEPT !.ok = 1]
<1>1. /\ counts \in Tallies /\ counts.fail = 0 /\ counts.bad = 0
      /\ DeleteFolderCases[Case].files \in Nat
  BY CaseIsCase DEF NoTally, Tallies, ReportDeleteFolder
<1>2. Kind = "deleteFolder" /\ ReportVerdict(DeleteFolderCases[Case].files, counts)
  BY DEF ReportDeleteFolder
<1> HIDE DEF counts
<1> QED
  BY <1>1, <1>2, ReportOrderly

-----------------------------------------------------------------------------
LEMMA InitTidy == Init => Tidy
<1> SUFFICES ASSUME Init, Clean PROVE Orderly
  BY DEF Tidy
<1> USE DEF Init, Clean
<1>1. Inv
  BY InvInit
<1>2. Launched = {} /\ \A w \in Ids : outcome[w] = "none"
  BY DEF Launched
<1>3. \A f \in Files : ~UploadedBefore(f)
  BY Lengths DEF UploadedBefore
<1>4. Places
  BY <1>2, <1>3 DEF Places, Arrived
<1>5. Quiet
  BY DEF Quiet, NoTally
<1>6. Jobs /\ Targets /\ Stages /\ Seen
  BY <1>2, <1>3 DEF Jobs, Targets, Stages, Seen, Verifying
<1> QED
  BY <1>4, <1>5, <1>6 DEF Orderly

(* Unless a request goes wrong, no step takes note of one.                 *)
LEMMA HistoryKept == ASSUME Next, ~Trouble PROVE UNCHANGED history
<1>1. CASE Main
  BY <1>1 DEF Main, BeginUpload, BeginDownload, BeginDeleteFiles, Launch, Collect,
     BeginList, ListFolder, EndList, MoveFolder, DeleteFolder, Request, ListOld, ListNew, Listed,
     ReportMove, ReportDeleteFiles, ReportDeleteFolder, ReportVerdict
<1>2. ASSUME NEW w \in Ids, Goroutine(w) PROVE UNCHANGED history
  BY <1>2 DEF Goroutine, CopyFile, EndBody, StoreUpload, UploadBroken, ServeDownload,
     FindVersion, DeleteVersion, Send, Done
<1>3. ASSUME NEW w \in Ids, CopyFails(w) \/ RequestFails(w) \/ StoreLate(w)
      PROVE  UNCHANGED history
  BY <1>3 DEF CopyFails, RequestFails, StoreLate
<1> QED
  BY <1>1, <1>2, <1>3 DEF Next

LEMMA OrderlyStep == ASSUME Inv, Orderly, Next, ~Trouble PROVE Orderly'
<1>1. CASE Main
  <2>1. ASSUME NEW w \in Ids, Launch(w) PROVE Orderly'
    BY <2>1, LaunchOrderly
  <2> QED
    BY <1>1, <2>1, BeginUploadOrderly, BeginDownloadOrderly, BeginDeleteFilesOrderly,
       CollectOrderly, BeginListOrderly, ListFolderOrderly, EndListOrderly, MoveFolderOrderly,
       DeleteFolderOrderly, ListOldOrderly, ListNewOrderly, ReportMoveOrderly,
       ReportDeleteFilesOrderly, ReportDeleteFolderOrderly DEF Main
<1>2. ASSUME NEW w \in Ids, Goroutine(w) PROVE Orderly'
  <2>1. ~UploadBroken(w)
    BY DEF UploadBroken, Orderly, Quiet
  <2> QED
    BY <1>2, <2>1, CopyFileOrderly, EndBodyOrderly, StoreUploadOrderly, ServeDownloadOrderly,
       FindVersionOrderly, DeleteVersionOrderly, SendOrderly, DoneOrderly DEF Goroutine
<1>3. ASSUME NEW w \in Ids PROVE ~CopyFails(w) /\ ~RequestFails(w) /\ ~StoreLate(w)
  BY DEF CopyFails, RequestFails, StoreLate, Orderly, Quiet
<1> QED
  BY <1>1, <1>2, <1>3 DEF Next

LEMMA TidyStep == Inv /\ Tidy /\ [Next]_vars => Tidy'
<1> SUFFICES ASSUME Inv, Tidy, [Next]_vars, Clean' PROVE Orderly'
  BY DEF Tidy
<1>1. CASE Next
  <2>1. ~Trouble
    BY DEF Trouble, Clean, Inv, TypeOK
  <2>2. Clean
    BY <1>1, <2>1, HistoryKept DEF Clean, history
  <2> QED
    BY <1>1, <2>1, <2>2, OrderlyStep DEF Tidy
<1>2. CASE UNCHANGED vars
  <2> USE <1>2 DEF vars, store, loop, threads, channel, record, history
  <2>1. Orderly
    BY DEF Tidy, Clean
  <2>2. /\ Launched' = Launched /\ Places' /\ Kind' = Kind /\ Case' = Case
        /\ \A f : /\ UploadedBefore(f)' <=> UploadedBefore(f)
                  /\ DeletedBefore(f)' <=> DeletedBefore(f)
    BY <2>1, PlacesKept DEF Launched, Verifying
  <2>3. Quiet' /\ Jobs' /\ Targets' /\ Stages' /\ Seen'
    BY <2>1, <2>2 DEF Orderly, Quiet, Jobs, Targets, Stages, Seen, Verifying, FilesIn, Dir, Home, MovesOf, MovedBy
  <2> QED
    BY <2>1, <2>2, <2>3 DEF Orderly
<1> QED
  BY <1>1, <1>2

-----------------------------------------------------------------------------
(* The theorems.                                                           *)

(* Every variable of the benchmark keeps its type: in particular the       *)
(* WaitGroup never goes below zero.                                        *)
THEOREM TypeCorrect == Spec => []TypeOK
<1>1. Inv => TypeOK
  BY DEF Inv
<1> QED
  BY <1>1, InvAlways, PTL

(* A goroutine that has a result finds room for it in resultsCh: it never  *)
(* waits for main, which receives only after wg.Wait() (lines 283-313).    *)
THEOREM SendNeverWaits ==
  Spec => [](\A w \in Ids : worker[w] = "reply" => Cardinality(results) < capacity)
<1>1. Inv => \A w \in Ids : worker[w] = "reply" => Cardinality(results) < capacity
  BY RoomToSend
<1> QED
  BY <1>1, InvAlways, PTL

(* The counts of a concurrent case add up to its files, whatever the       *)
(* goroutines of the round do, and in whatever order they end.             *)
THEOREM ResultsAreCounted == Spec => []EveryResultCounted
<1>1. Inv => EveryResultCounted
  BY DEF Inv, Ledger
<1> QED
  BY <1>1, InvAlways, PTL

(* No download is reported with another size or hash than its file's.      *)
THEOREM DownloadsAreWhole == Spec => []DownloadsMatch
<1>1. Inv => DownloadsMatch
  BY DEF Inv, Ledger
<1> QED
  BY <1>1, InvAlways, PTL

(* When a move or a delete is reported as verified, nothing is below the   *)
(* old folder but what the server stored late after it was listed: between *)
(* the listings and the report any other step may happen.                  *)
THEOREM VerdictsAreHonest == Spec => VerdictsHonest
<1> DEFINE Honest ==
      Len(reports') > Len(reports) /\ Last(reports').verified
        /\ Kind \in {"move", "deleteFiles", "deleteFolder"} =>
        RowsBelow(OldFolder) \subseteq arrived
<1>1. Inv /\ Verdict /\ [Next]_vars => [Honest]_vars
  <2> SUFFICES ASSUME Inv, Verdict, Next PROVE Honest
    OBVIOUS
  <2>1. CASE UNCHANGED reports
    <3>1. reports' = reports /\ Len(reports) \in Nat
      BY <2>1, LenProperties DEF Inv, TypeOK
    <3> QED
      BY <3>1
  <2>2. ASSUME NEW files, NEW counts, Report(files, counts, FALSE) PROVE Honest
    BY <2>2, LastReport
  <2>3. ASSUME NEW files, NEW counts, ReportVerdict(files, counts) PROVE Honest
    <3>1. Verifying /\ main # "verify" /\ Last(reports').verified = passed
      BY <2>3, LastReport DEF ReportVerdict, Verifying
    <3> QED
      BY <3>1 DEF Verdict
  <2>4. CASE ReportMove \/ ReportDeleteFiles \/ ReportDeleteFolder
    BY <2>3, <2>4 DEF ReportMove, ReportDeleteFiles, ReportDeleteFolder
  <2>5. CASE ListOld \/ ListNew
    BY <2>1, <2>5 DEF ListOld, ListNew, record
  <2>6. CASE MoveFolder \/ DeleteFolder \/ EndList
    BY <2>1, <2>2, <2>6 DEF MoveFolder, DeleteFolder, EndList, Request, record, At
  <2>7. CASE Collect
    BY <2>1, <2>2, <2>7 DEF Collect
  <2>8. CASE BeginDeleteFiles
    BY <2>1, <2>2, <2>8 DEF BeginDeleteFiles, record
  <2>9. CASE BeginDownload
    BY <2>1, <2>9 DEF BeginDownload, record
  <2>10. CASE BeginUpload \/ BeginList \/ ListFolder
    BY <2>1, <2>10 DEF BeginUpload, BeginList, ListFolder, record
  <2>11. ASSUME NEW w \in Ids, Launch(w) PROVE Honest
    BY <2>1, <2>11 DEF Launch, record
  <2>12. ASSUME NEW w \in Ids, Goroutine(w) \/ CopyFails(w) \/ RequestFails(w) \/ StoreLate(w)
         PROVE  Honest
    BY <2>1, <2>12 DEF Goroutine, CopyFile, EndBody, StoreUpload, UploadBroken, ServeDownload,
       FindVersion, DeleteVersion, Send, Done, CopyFails, RequestFails, StoreLate, record
  <2> QED
    BY <2>4, <2>5, <2>6, <2>7, <2>8, <2>9, <2>10, <2>11, <2>12 DEF Next, Main
<1> QED
  BY <1>1, InvAlways, VerdictAlways, PTL DEF Spec, VerdictsHonest

(* On a clean server, and unless a request goes wrong, nothing fails, the  *)
(* verdicts are what they should be, and no file is left in the end.       *)
THEOREM CleanRunsSucceed == Spec => []CleanRunSucceeds
<1>1. Inv /\ Tidy => CleanRunSucceeds
  <2> SUFFICES ASSUME Inv, Orderly, Clean PROVE CleanRunSucceeds
    BY DEF Tidy, CleanRunSucceeds
  <2>1. main = "done" => Stored = {}
    BY NothingLeft DEF Orderly, Stages, Seen, Verifying
  <2> QED
    BY <2>1 DEF CleanRunSucceeds, Orderly, Succeeded, LocalPaths
<1>2. Spec => []Tidy
  BY InitTidy, TidyStep, InvAlways, PTL DEF Spec
<1> QED
  BY <1>1, <1>2, InvAlways, PTL
=============================================================================
