------------------------------ MODULE TestFiles -----------------------------
(***************************************************************************)
(* loadtest/src: the files that the benchmark uploads.  Two programs write *)
(* them into one directory, and keep what they find there: main of         *)
(* create-test-files.go, and generateTestFiles of benchmark.go, which also *)
(* lists a hash of each.  They are run one after the other, at once, with  *)
(* another seed, and again after one of them died in the middle of a file. *)
(*                                                                         *)
(* A file is a sequence of chunks, and a hash is the sequence of what went *)
(* into it.  The five cases have one directory each and are alike.         *)
(***************************************************************************)
EXTENDS Naturals, Sequences

CONSTANTS
  Runs,       \* of either program; each takes place at most once
  Loaders,    \* those of the benchmark
  Seeds,      \* values of the option -seed
  FileCount,  \* files that a run goes through
  Size        \* of each, in chunks

ASSUME TestFilesAssumption ==
  /\ Loaders \subseteq Runs
  /\ Seeds \subseteq Nat
  /\ FileCount \in Nat \ {0} /\ Size \in Nat \ {0}

VARIABLES
  seed,      \* of each run
  disk,      \* what is stored under each name; no file is as good as an empty one
  pc,        \* where each run is
  at,        \* the file it is at
  hashed,    \* what went into the hasher, and so how far in the file it is
  list,      \* the hashes it has listed
  created,   \* history: has it created a file
  together,  \* history: the runs that went on at the same time as another
  prepared   \* history: those that started after a complete run

vars == <<seed, disk, pc, at, hashed, list, created, together, prepared>>

Files == 1 .. FileCount
Hole == <<0, 0>>

(* The k-th chunk of rand.NewSource(seed + idx).                           *)
Chunk(r, f, k) == <<seed[r] + f, k>>
Content(r, f) == [k \in 1 .. Size |-> Chunk(r, f, k)]

Alive(r) == pc[r] \notin {"off", "ended", "died"}
At(r, place) == pc[r] = place
Goto(r, place) == pc' = [pc EXCEPT ![r] = place]

Init ==
  /\ seed \in [Runs -> Seeds]
  /\ disk = [f \in Files |-> <<>>]
  /\ pc = [r \in Runs |-> "off"]
  /\ at = [r \in Runs |-> 1]
  /\ hashed = [r \in Runs |-> <<>>] /\ list = [r \in Runs |-> <<>>]
  /\ created = {} /\ together = {} /\ prepared = {}

Start(r) ==
  LET others == {o \in Runs : Alive(o)} IN
  /\ At(r, "off") /\ Goto(r, "stat")
  /\ together' = IF others = {} THEN together ELSE together \cup others \cup {r}
  /\ prepared' = IF together' = {} /\ \E o \in Runs : At(o, "ended")
                 THEN prepared \cup {r} ELSE prepared
  /\ UNCHANGED <<disk, at, hashed, list, created>>

-----------------------------------------------------------------------------
(* The next file, or the end of all loops.                                 *)
Advance(r, hash) ==
  /\ list' = [list EXCEPT ![r] = Append(@, hash)]
  /\ hashed' = [hashed EXCEPT ![r] = <<>>]
  /\ IF at[r] < FileCount
     THEN Goto(r, "stat") /\ at' = [at EXCEPT ![r] = @ + 1]
     ELSE Goto(r, "ended") /\ UNCHANGED at

(* A file of any size is kept; none is.                                    *)
KeepsAny(stored) == stored # <<>>
KeepsNone(stored) == FALSE

Keeps(stored) == Len(stored) = Size

(* os.Stat, and the choice between the file that is there and a new one.   *)
Skip(r) ==
  /\ At(r, "stat") /\ Keeps(disk[at[r]]) /\ r \notin Loaders
  /\ Advance(r, <<>>)
  /\ UNCHANGED <<disk, created, together, prepared>>

Reuse(r) ==
  /\ At(r, "stat") /\ Keeps(disk[at[r]]) /\ r \in Loaders
  /\ Goto(r, "read")
  /\ UNCHANGED <<disk, at, hashed, list, created, together, prepared>>

Refuse(r) ==
  /\ At(r, "stat") /\ ~Keeps(disk[at[r]])
  /\ Goto(r, "create")
  /\ UNCHANGED <<disk, at, hashed, list, created, together, prepared>>

(* os.Create: what was there is gone.                                      *)
Create(r) ==
  /\ At(r, "create") /\ Goto(r, "write")
  /\ disk' = [disk EXCEPT ![at[r]] = <<>>]
  /\ created' = created \cup {r}
  /\ UNCHANGED <<at, hashed, list, together, prepared>>

(* A write at the end of the file, wherever that is.                       *)
PutLast(stored, k, chunk) == Append(stored, chunk)

(* A write behind the end of a file leaves a hole.                         *)
Put(stored, k, chunk) ==
  [i \in 1 .. (IF k > Len(stored) THEN k ELSE Len(stored)) |->
     IF i = k THEN chunk ELSE IF i <= Len(stored) THEN stored[i] ELSE Hole]

(* genFile and generateFile: one chunk to file and hasher.                 *)
Write(r) ==
  LET k == Len(hashed[r]) + 1
      chunk == Chunk(r, at[r], k) IN
  /\ At(r, "write") /\ k <= Size
  /\ disk' = [disk EXCEPT ![at[r]] = Put(@, k, chunk)]
  /\ hashed' = [hashed EXCEPT ![r] = Append(@, chunk)]
  /\ UNCHANGED <<pc, at, list, created, together, prepared>>

EndWrite(r) ==
  /\ At(r, "write") /\ Len(hashed[r]) = Size
  /\ Advance(r, hashed[r])
  /\ UNCHANGED <<disk, created, together, prepared>>

(* hashFile: as long as there is more.                                     *)
Read(r) ==
  LET k == Len(hashed[r]) + 1 IN
  /\ At(r, "read") /\ k <= Len(disk[at[r]])
  /\ hashed' = [hashed EXCEPT ![r] = Append(@, disk[at[r]][k])]
  /\ UNCHANGED <<disk, pc, at, list, created, together, prepared>>

EndRead(r) ==
  /\ At(r, "read") /\ Len(hashed[r]) >= Len(disk[at[r]])
  /\ Advance(r, hashed[r])
  /\ UNCHANGED <<disk, created, together, prepared>>

(* An error is fatal; what was written stays.                              *)
Die(r) ==
  /\ Alive(r) /\ Goto(r, "died")
  /\ at' = [at EXCEPT ![r] = 1]
  /\ hashed' = [hashed EXCEPT ![r] = <<>>] /\ list' = [list EXCEPT ![r] = <<>>]
  /\ UNCHANGED <<disk, created, together, prepared>>

Next ==
  /\ \E r \in Runs :
       \/ Start(r) \/ Skip(r) \/ Reuse(r) \/ Refuse(r) \/ Create(r)
       \/ Write(r) \/ EndWrite(r) \/ Read(r) \/ EndRead(r) \/ Die(r)
  /\ UNCHANGED seed

Spec == Init /\ [][Next]_vars

-----------------------------------------------------------------------------
(* What a benchmark lists that ran by itself is what the disk holds from   *)
(* then on, in full size, whatever earlier runs left behind when they died *)
(* and whatever runs come later (benchmark.go 180-205): so the downloads   *)
(* are compared with the hashes of what was uploaded.                      *)
ListedAsStored ==
  \A r \in Loaders :
    At(r, "ended") /\ r \notin together =>
      \A f \in Files : Len(disk[f]) = Size /\ disk[f] = list[r][f]

(* Runs with one seed may share the directory: however they interleave,    *)
(* when all have ended, and none died, each file holds what the seed says. *)
SharedDirectory ==
  \A r \in Runs :
    /\ At(r, "ended")
    /\ \A o \in Runs : At(o, "off") \/ (At(o, "ended") /\ seed[o] = seed[r])
    => \A f \in Files : disk[f] = Content(r, f)

(* create-test-files.go:8: after a complete run nothing is created again,  *)
(* not even with another seed.                                             *)
PreparedIsReused == \A r \in prepared \ together : r \notin created
=============================================================================
