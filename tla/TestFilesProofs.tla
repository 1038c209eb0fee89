--------------------------- MODULE TestFilesProofs --------------------------
(***************************************************************************)
(* Proofs about the benchmark's files, for any runs of the two programs,   *)
(* any seeds, any number of files and any size.                            *)
(***************************************************************************)
EXTENDS TestFiles, SequenceTheorems, TLAPS

Chunks == Nat \X Nat
Places == {"off", "stat", "create", "write", "read", "ended", "died"}

TypeOK ==
  /\ seed \in [Runs -> Seeds]
  /\ disk \in [Files -> Seq(Chunks)]
  /\ pc \in [Runs -> Places] /\ at \in [Runs -> Files]
  /\ hashed \in [Runs -> Seq(Chunks)] /\ list \in [Runs -> Seq(Seq(Chunks))]
  /\ created \subseteq Runs /\ together \subseteq Runs /\ prepared \subseteq Runs

(* Runs that go on at the same time are together.                          *)
Apart == \A r, o \in Runs : r # o /\ Alive(r) /\ Alive(o) => r \in together

(* A run lists one hash per file, and hashes one file at a time.           *)
Listed ==
  \A r \in Runs :
    /\ pc[r] \in {"off", "stat", "create", "died"} => hashed[r] = <<>>
    /\ pc[r] \in {"off", "died"} => at[r] = 1
    /\ Len(list[r]) = IF pc[r] = "ended" THEN FileCount ELSE at[r] - 1

Past(r) == {f \in Files : f < at[r] \/ pc[r] = "ended"}

Settled(r, f) == Len(disk[f]) = Size /\ (r \in Loaders => disk[f] = list[r][f])

(* Nobody interferes with a run that goes on by itself.                    *)
Alone(r) ==
  (Alive(r) \/ pc[r] = "ended") /\ r \notin together =>
    /\ \A f \in Past(r) : Settled(r, f)
    /\ pc[r] = "write" => disk[at[r]] = hashed[r]
    /\ pc[r] = "read" =>
         /\ Len(disk[at[r]]) = Size /\ Len(hashed[r]) <= Size
         /\ \A i \in 1 .. Len(hashed[r]) : hashed[r][i] = disk[at[r]][i]

(* After a complete run nobody creates a file.                             *)
Complete == \E r \in Runs : pc[r] = "ended" /\ r \notin together
Kept == Complete => \A o \in Runs : pc[o] \notin {"create", "write"}

Reused ==
  /\ \A r \in prepared : Complete /\ r \notin created
  /\ \A r \in Runs : pc[r] = "off" => r \notin created

Inv == TypeOK /\ Apart /\ Listed /\ (\A r \in Runs : Alone(r)) /\ Kept /\ Reused

LEMMA Sizes == Size \in Nat \ {0} /\ FileCount \in Nat \ {0} /\ Seeds \subseteq Nat
               /\ Loaders \subseteq Runs /\ Files \subseteq Nat
               /\ 1 \in Files /\ FileCount \in Files
BY TestFilesAssumption DEF Files

(* A write keeps what was there, and fills up to its own place.            *)
LEMMA PutProperties ==
  ASSUME NEW stored \in Seq(Chunks), NEW k \in Nat \ {0}, NEW chunk \in Chunks
  PROVE  /\ Put(stored, k, chunk) \in Seq(Chunks)
         /\ k > Len(stored) => Len(Put(stored, k, chunk)) = k
         /\ k <= Len(stored) => Len(Put(stored, k, chunk)) = Len(stored)
         /\ Put(stored, k, chunk)[k] = chunk
         /\ \A i \in 1 .. Len(stored) : i # k => Put(stored, k, chunk)[i] = stored[i]
         /\ \A i \in 1 .. Len(Put(stored, k, chunk)) :
              Put(stored, k, chunk)[i] \in {chunk, Hole} \/ (i \in 1 .. Len(stored) /\ Put(stored, k, chunk)[i] = stored[i])
<1> DEFINE n == IF k > Len(stored) THEN k ELSE Len(stored)
           new == Put(stored, k, chunk)
<1>1. n \in Nat /\ k \in 1 .. n /\ Len(stored) \in Nat /\ Len(stored) <= n
  BY LenProperties
<1>2. new = [i \in 1 .. n |-> IF i = k THEN chunk ELSE IF i <= Len(stored) THEN stored[i] ELSE Hole]
  BY DEF Put
<1>3. Hole \in Chunks
  BY DEF Hole, Chunks
<1>4. \A i \in 1 .. Len(stored) : stored[i] \in Chunks
  BY ElementOfSeq
<1>5. \A i \in 1 .. n : i <= Len(stored) => i \in 1 .. Len(stored)
  BY <1>1
<1>6. new \in [1 .. n -> Chunks]
  BY <1>2, <1>3, <1>4, <1>5
<1>7. new \in Seq(Chunks) /\ Len(new) = n
  BY <1>1, <1>6, SeqDef, LenProperties
<1> QED
  BY <1>1, <1>2, <1>5, <1>7

LEMMA PutLength ==
  \A stored \in Seq(Chunks), k \in Nat \ {0}, chunk \in Chunks :
    /\ k > Len(stored) => Len(Put(stored, k, chunk)) = k
    /\ k <= Len(stored) => Len(Put(stored, k, chunk)) = Len(stored)
BY PutProperties

LEMMA PutKeeps ==
  \A stored \in Seq(Chunks), k \in Nat \ {0}, chunk \in Chunks :
    \A i \in 1 .. Len(stored) : i # k => Put(stored, k, chunk)[i] = stored[i]
BY PutProperties

(* A write at the end of the file appends.                                 *)
LEMMA PutAppends ==
  ASSUME NEW stored \in Seq(Chunks), NEW chunk \in Chunks
  PROVE  Put(stored, Len(stored) + 1, chunk) = Append(stored, chunk)
<1> DEFINE k == Len(stored) + 1
           new == Put(stored, k, chunk)
<1>1. k \in Nat \ {0} /\ Len(stored) \in Nat
  BY LenProperties
<1>2. new \in Seq(Chunks) /\ Len(new) = k /\ new[k] = chunk
      /\ \A i \in 1 .. Len(stored) : new[i] = stored[i]
  BY <1>1, PutProperties
<1>3. Append(stored, chunk) \in Seq(Chunks) /\ Len(Append(stored, chunk)) = k
      /\ Append(stored, chunk)[k] = chunk
      /\ \A i \in 1 .. Len(stored) : Append(stored, chunk)[i] = stored[i]
  BY AppendProperties
<1>4. \A i \in 1 .. k : new[i] = Append(stored, chunk)[i]
  BY <1>1, <1>2, <1>3
<1> QED
  BY <1>2, <1>3, <1>4, SeqEqual

LEMMA ChunkIsChunk ==
  ASSUME TypeOK, NEW r \in Runs, NEW f \in Files, NEW k \in Nat
  PROVE  Chunk(r, f, k) \in Chunks
<1>1. seed[r] \in Nat /\ f \in Nat
  BY Sizes DEF TypeOK
<1>2. seed[r] + f \in Nat
  BY <1>1
<1> QED
  BY <1>2 DEF Chunk, Chunks

LEMMA InvInit == Init => Inv
<1> SUFFICES ASSUME Init PROVE Inv
  OBVIOUS
<1>1. TypeOK
  BY Sizes DEF Init, TypeOK, Places
<1>2. Apart /\ Kept /\ Reused
  BY DEF Init, Apart, Kept, Reused, Complete, Alive
<1>3. Listed
  <2>1. Len(<<>>) = 0
    BY EmptySeq
  <2> SUFFICES ASSUME NEW r \in Runs
               PROVE  hashed[r] = <<>> /\ at[r] = 1 /\ pc[r] = "off" /\ Len(list[r]) = 1 - 1
    BY DEF Listed
  <2> QED
    BY <2>1 DEF Init
<1>4. \A r \in Runs : Alone(r)
  BY DEF Init, Alone, Alive
<1> QED
  BY <1>1, <1>2, <1>3, <1>4 DEF Inv

-----------------------------------------------------------------------------
(* What a step of run a leaves alone.                                      *)
OnlyOf(a) ==
  /\ Alive(a) /\ pc' = [pc EXCEPT ![a] = pc'[a]] /\ pc'[a] # "off"
  /\ \A o \in Runs \ {a} : at'[o] = at[o] /\ hashed'[o] = hashed[o] /\ list'[o] = list[o]
  /\ disk' = disk \/ pc[a] \in {"create", "write"}
  /\ seed' = seed /\ together' = together /\ prepared' = prepared
  /\ created' = created \/ (pc[a] = "create" /\ created' = created \cup {a})

(* Run a makes a step, and the others do not notice.                       *)
LEMMA OthersUndisturbed ==
  ASSUME Inv, NEW a \in Runs, OnlyOf(a), TypeOK',
         pc'[a] \in {"create", "write"} => ~Complete
  PROVE  /\ Apart' /\ Kept' /\ Reused'
         /\ \A r \in Runs \ {a} : Alone(r)'
<1> USE DEF Inv, OnlyOf
<1>1. \A o \in Runs \ {a} : pc'[o] = pc[o]
  BY DEF TypeOK
<1>2. \A o \in Runs : Alive(o)' => Alive(o)
  BY <1>1 DEF Alive
<1>3. Apart'
  BY <1>2 DEF Apart
<1>4. Complete => Complete'
  BY <1>1 DEF Complete, Alive
<1>5. Complete' => Complete \/ (pc'[a] = "ended" /\ a \notin together)
  BY <1>1 DEF Complete
<1>6. Kept'
  <2> SUFFICES ASSUME Complete', NEW o \in Runs, pc'[o] \in {"create", "write"} PROVE FALSE
    BY DEF Kept
  <2>1. CASE Complete
    BY <1>1, <2>1 DEF Kept
  <2>2. CASE ~Complete
    <3>1. pc'[a] = "ended" /\ a \notin together
      BY <1>5, <2>2
    <3>2. o # a /\ Alive(o)
      BY <1>1, <3>1 DEF Alive
    <3> QED
      BY <3>1, <3>2 DEF Apart
  <2> QED
    BY <2>1, <2>2
<1>7. Reused'
  BY <1>1, <1>4 DEF Reused, Kept, Alive
<1>8. ASSUME NEW r \in Runs \ {a} PROVE Alone(r)'
  <2> SUFFICES ASSUME Alive(r)' \/ pc'[r] = "ended", r \notin together PROVE Alone(r)'
    BY DEF Alone
  <2>1. pc[r] = "ended"
    BY <1>1, <1>2 DEF Apart
  <2>2. Complete
    BY <2>1 DEF Complete
  <2>3. disk' = disk
    BY <2>2 DEF Kept
  <2> QED
    BY <1>1, <2>1, <2>3 DEF Alone, Past, Settled, Alive
<1> QED
  BY <1>3, <1>6, <1>7, <1>8

LEMMA AdvanceFrame ==
  ASSUME TypeOK, NEW a \in Runs, NEW hash, Alive(a), Advance(a, hash),
         UNCHANGED <<disk, seed, created, together, prepared>>
  PROVE  /\ OnlyOf(a) /\ pc'[a] \in {"stat", "ended"}
         /\ \A f \in Past(a)' : f \in Past(a) \/ f = at[a]
<1> USE DEF Advance, Goto
<1>1. at[a] \in Files /\ at[a] \in Nat /\ at[a] <= FileCount
  BY Sizes DEF TypeOK, Files
<1>2. OnlyOf(a) /\ pc'[a] \in {"stat", "ended"}
  BY DEF OnlyOf, TypeOK
<1>3. at[a] < FileCount => at'[a] = at[a] + 1 /\ pc'[a] = "stat"
  BY DEF TypeOK
<1>4. ~(at[a] < FileCount) => at[a] = FileCount
  BY <1>1, Sizes
<1> QED
  BY <1>1, <1>2, <1>3, <1>4, Sizes DEF Past, Files

(* A file is done: the run goes on to the next, or ends.                   *)
LEMMA AdvanceStep ==
  ASSUME Inv, NEW a \in Runs, NEW hash \in Seq(Chunks),
         Alive(a), Advance(a, hash),
         UNCHANGED <<disk, seed, created, together, prepared>>,
         a \notin together => Len(disk[at[a]]) = Size /\ (a \in Loaders => disk[at[a]] = hash)
  PROVE  Inv'
<1> USE DEF Inv, Advance, Goto
<1>0. at[a] \in Files /\ at[a] \in Nat /\ at[a] <= FileCount /\ list[a] \in Seq(Seq(Chunks))
  BY Sizes DEF TypeOK, Files
<1>1. TypeOK'
  <2>1. at' \in [Runs -> Files]
    <3>1. CASE at[a] < FileCount
      <4>1. at[a] + 1 \in Files
        BY <1>0, <3>1, Sizes DEF Files
      <4> QED
        BY <3>1, <4>1 DEF TypeOK
    <3>2. CASE ~(at[a] < FileCount)
      BY <3>2 DEF TypeOK
    <3> QED
      BY <3>1, <3>2
  <2>2. Append(list[a], hash) \in Seq(Seq(Chunks))
    BY <1>0, AppendProperties
  <2> QED
    BY <2>1, <2>2, EmptySeq DEF TypeOK, Places
<1>2. OnlyOf(a) /\ pc'[a] \notin {"create", "write", "off", "died", "read"}
  BY AdvanceFrame
<1>3. Len(list[a]) = at[a] - 1 /\ pc[a] # "ended"
  BY DEF Listed, Alive
<1>4. Listed'
  <2> SUFFICES ASSUME NEW r \in Runs
               PROVE  /\ pc'[r] \in {"off", "stat", "create", "died"} => hashed'[r] = <<>>
                      /\ pc'[r] \in {"off", "died"} => at'[r] = 1
                      /\ Len(list'[r]) = IF pc'[r] = "ended" THEN FileCount ELSE at'[r] - 1
    BY DEF Listed
  <2>1. CASE r # a
    BY <2>1, <1>2 DEF Listed, OnlyOf, TypeOK
  <2>2. CASE r = a
    <3>1. Len(list'[a]) = at[a]
      BY <1>0, <1>3, AppendProperties DEF TypeOK
    <3>2. hashed'[a] = <<>>
      BY DEF TypeOK
    <3>3. at'[a] = (IF at[a] < FileCount THEN at[a] + 1 ELSE at[a])
          /\ pc'[a] = (IF at[a] < FileCount THEN "stat" ELSE "ended")
      BY DEF TypeOK
    <3> QED
      BY <1>0, <2>2, <3>1, <3>2, <3>3, Sizes
  <2> QED
    BY <2>1, <2>2
<1>5. Alone(a)'
  <2> SUFFICES ASSUME a \notin together, NEW f \in Past(a)' PROVE Settled(a, f)'
    BY <1>2 DEF Alone
  <2>1. f \in Files /\ f <= at[a] /\ f \in Nat
    BY <1>0, Sizes DEF Past, TypeOK, Files
  <2>2. list'[a] = Append(list[a], hash)
    BY DEF TypeOK
  <2>3. CASE f = at[a]
    BY <1>0, <1>3, <2>2, <2>3, AppendProperties DEF Settled
  <2>4. CASE f # at[a]
    <3>1. f \in Past(a) /\ f \in 1 .. Len(list[a])
      BY <1>0, <1>3, <2>1, <2>4 DEF Past, Files
    <3>2. Settled(a, f)
      BY <3>1 DEF Alone
    <3>3. list'[a][f] = list[a][f]
      BY <1>0, <2>2, <3>1, AppendProperties
    <3> QED
      BY <3>2, <3>3 DEF Settled
  <2> QED
    BY <2>3, <2>4
<1>6. /\ Apart' /\ Kept' /\ Reused'
      /\ \A r \in Runs \ {a} : Alone(r)'
  BY <1>1, <1>2, OthersUndisturbed
<1> QED
  BY <1>1, <1>4, <1>5, <1>6

LEMMA StartStep == ASSUME Inv, NEW a \in Runs, Start(a), UNCHANGED seed PROVE Inv'
<1> USE DEF Inv, Goto, At
<1> DEFINE others == {o \in Runs : Alive(o)}
<1>0. /\ pc[a] = "off" /\ pc' = [pc EXCEPT ![a] = "stat"]
      /\ together' = IF others = {} THEN together ELSE together \cup others \cup {a}
      /\ prepared' = IF together' = {} /\ \E o \in Runs : pc[o] = "ended"
                     THEN prepared \cup {a} ELSE prepared
      /\ UNCHANGED <<disk, at, hashed, list, created>>
  BY DEF Start
<1>1. TypeOK'
  BY <1>0 DEF TypeOK, Places
<1>2. \A o \in Runs \ {a} : pc'[o] = pc[o] /\ (Alive(o)' <=> Alive(o))
  BY <1>0 DEF TypeOK, Alive
<1>3. pc'[a] = "stat" /\ ~Alive(a) /\ together \subseteq together'
  BY <1>0 DEF TypeOK, Alive
<1>4. Apart'
  BY <1>0, <1>2, <1>3 DEF Apart
<1>5. Listed'
  BY <1>0, <1>2, <1>3 DEF Listed
<1>6. Complete' <=> Complete
  BY <1>0, <1>2, <1>3 DEF Complete, Alive
<1>7. Kept'
  BY <1>2, <1>3, <1>6 DEF Kept
<1>8. Reused'
  <2>1. together' = {} /\ (\E o \in Runs : pc[o] = "ended") => Complete'
    BY <1>0, <1>3, <1>6 DEF Complete
  <2> QED
    BY <1>0, <1>2, <1>3, <1>6, <2>1 DEF Reused
<1>9. ASSUME NEW r \in Runs PROVE Alone(r)'
  <2>1. CASE r = a
    <3>1. at[a] = 1 /\ Past(a)' = {}
      BY <1>0, <1>3, Sizes DEF Listed, Past, Files
    <3> QED
      BY <1>3, <2>1, <3>1 DEF Alone
  <2>2. CASE r # a
    BY <1>0, <1>2, <1>3, <2>2 DEF Alone, Past, Settled
  <2> QED
    BY <2>1, <2>2
<1> QED
  BY <1>1, <1>4, <1>5, <1>7, <1>8, <1>9

LEMMA SkipStep == ASSUME Inv, NEW a \in Runs, Skip(a), UNCHANGED seed PROVE Inv'
<1>1. <<>> \in Seq(Chunks) /\ Alive(a)
  BY EmptySeq DEF Skip, Alive, At
<1>2. a \notin Loaders /\ Len(disk[at[a]]) = Size /\ Advance(a, <<>>)
      /\ UNCHANGED <<disk, seed, created, together, prepared>>
  BY DEF Skip, Keeps
<1> QED
  BY <1>1, <1>2, AdvanceStep

(* The decision of os.Stat.                                                *)
LEMMA DecisionStep ==
  ASSUME Inv, NEW a \in Runs, Reuse(a) \/ Refuse(a), UNCHANGED seed PROVE Inv'
<1> USE DEF Inv, Goto, At
<1>0. /\ pc[a] = "stat" /\ hashed[a] = <<>> /\ at[a] \in Files
      /\ UNCHANGED <<disk, at, hashed, list, created, together, prepared>>
      /\ \/ Len(disk[at[a]]) = Size /\ pc' = [pc EXCEPT ![a] = "read"]
         \/ Len(disk[at[a]]) # Size /\ pc' = [pc EXCEPT ![a] = "create"]
  BY DEF Reuse, Refuse, Keeps, Listed, TypeOK
<1>1. TypeOK'
  BY <1>0 DEF TypeOK, Places
<1>2. OnlyOf(a) /\ pc'[a] \in {"read", "create"}
  BY <1>0 DEF OnlyOf, Alive, TypeOK
<1>3. Listed'
  BY <1>0, <1>2 DEF Listed, OnlyOf, TypeOK
<1>4. Complete => Len(disk[at[a]]) = Size
  BY <1>0 DEF Complete, Alone, Past, Settled
<1>5. pc'[a] \in {"create", "write"} => ~Complete
  BY <1>0, <1>4 DEF TypeOK
<1>6. Alone(a)'
  <2>1. Past(a)' = Past(a)
    BY <1>0, <1>2 DEF Past
  <2>2. pc'[a] = "read" => Len(disk[at[a]]) = Size
    BY <1>0 DEF TypeOK
  <2> QED
    BY <1>0, <1>2, <2>1, <2>2, Sizes DEF Alone, Settled, Alive
<1>7. /\ Apart' /\ Kept' /\ Reused'
      /\ \A r \in Runs \ {a} : Alone(r)'
  BY <1>1, <1>2, <1>5, OthersUndisturbed
<1> QED
  BY <1>1, <1>3, <1>6, <1>7

LEMMA CreateStep == ASSUME Inv, NEW a \in Runs, Create(a), UNCHANGED seed PROVE Inv'
<1> USE DEF Inv, Goto, At
<1>0. /\ pc[a] = "create" /\ pc' = [pc EXCEPT ![a] = "write"] /\ hashed[a] = <<>>
      /\ at[a] \in Files /\ disk' = [disk EXCEPT ![at[a]] = <<>>]
      /\ created' = created \cup {a}
      /\ UNCHANGED <<at, hashed, list, together, prepared>>
  BY DEF Create, Listed, TypeOK
<1>1. TypeOK'
  BY <1>0, EmptySeq DEF TypeOK, Places
<1>2. OnlyOf(a) /\ pc'[a] = "write"
  BY <1>0 DEF OnlyOf, Alive, TypeOK
<1>3. Listed'
  BY <1>0, <1>2 DEF Listed, OnlyOf, TypeOK
<1>4. ~Complete
  BY <1>0 DEF Kept
<1>5. Alone(a)'
  <2>1. \A f \in Past(a)' : f \in Past(a) /\ disk'[f] = disk[f]
    BY <1>0, <1>2, Sizes DEF Past, TypeOK
  <2>2. disk'[at[a]] = <<>>
    BY <1>0 DEF TypeOK
  <2> QED
    BY <1>0, <1>2, <2>1, <2>2 DEF Alone, Settled, Alive
<1>6. /\ Apart' /\ Kept' /\ Reused'
      /\ \A r \in Runs \ {a} : Alone(r)'
  BY <1>1, <1>2, <1>4, OthersUndisturbed
<1> QED
  BY <1>1, <1>3, <1>5, <1>6

LEMMA WriteStep == ASSUME Inv, NEW a \in Runs, Write(a), UNCHANGED seed PROVE Inv'
<1> USE DEF Inv, At
<1> DEFINE k == Len(hashed[a]) + 1
           chunk == Chunk(a, at[a], k)
<1>0. /\ pc[a] = "write" /\ at[a] \in Files
      /\ disk' = [disk EXCEPT ![at[a]] = Put(disk[at[a]], k, chunk)]
      /\ hashed' = [hashed EXCEPT ![a] = Append(hashed[a], chunk)]
      /\ UNCHANGED <<pc, at, list, created, together, prepared>>
  BY DEF Write, TypeOK
<1>1. /\ disk[at[a]] \in Seq(Chunks) /\ hashed[a] \in Seq(Chunks)
      /\ k \in Nat \ {0} /\ chunk \in Chunks
  BY <1>0, ChunkIsChunk, LenProperties DEF TypeOK
<1>2. Put(disk[at[a]], k, chunk) \in Seq(Chunks) /\ Append(hashed[a], chunk) \in Seq(Chunks)
  BY <1>1, PutProperties, AppendProperties
<1>3. TypeOK'
  BY <1>0, <1>2 DEF TypeOK
<1>4. OnlyOf(a) /\ pc'[a] = "write"
  BY <1>0 DEF OnlyOf, Alive, TypeOK
<1>5. Listed'
  BY <1>0, <1>4 DEF Listed, OnlyOf, TypeOK
<1>6. ~Complete
  BY <1>0 DEF Kept
<1>7. Alone(a)'
  <2> SUFFICES ASSUME a \notin together PROVE Alone(a)'
    BY <1>0 DEF Alone
  <2>1. \A f \in Past(a)' : f \in Past(a) /\ disk'[f] = disk[f]
    BY <1>0, Sizes DEF Past, TypeOK
  <2>2. disk[at[a]] = hashed[a]
    BY <1>0 DEF Alone, Alive
  <2>3. disk'[at[a]] = hashed'[a]
    BY <1>0, <1>1, <2>2, PutAppends DEF TypeOK
  <2> QED
    BY <1>0, <1>4, <2>1, <2>3 DEF Alone, Settled, Alive
<1>8. /\ Apart' /\ Kept' /\ Reused'
      /\ \A r \in Runs \ {a} : Alone(r)'
  BY <1>3, <1>4, <1>6, OthersUndisturbed
<1> QED
  BY <1>3, <1>5, <1>7, <1>8

LEMMA EndWriteStep == ASSUME Inv, NEW a \in Runs, EndWrite(a), UNCHANGED seed PROVE Inv'
<1> USE DEF Inv, At
<1>1. hashed[a] \in Seq(Chunks) /\ Alive(a) /\ Len(hashed[a]) = Size
  BY DEF EndWrite, Alive, TypeOK
<1>2. a \notin together => disk[at[a]] = hashed[a]
  BY <1>1 DEF EndWrite, Alone
<1>3. Advance(a, hashed[a]) /\ UNCHANGED <<disk, seed, created, together, prepared>>
  BY DEF EndWrite
<1> QED
  BY <1>1, <1>2, <1>3, AdvanceStep

LEMMA ReadStep == ASSUME Inv, NEW a \in Runs, Read(a), UNCHANGED seed PROVE Inv'
<1> USE DEF Inv, At
<1> DEFINE k == Len(hashed[a]) + 1
           chunk == disk[at[a]][k]
<1>0. /\ pc[a] = "read" /\ at[a] \in Files /\ k <= Len(disk[at[a]])
      /\ hashed' = [hashed EXCEPT ![a] = Append(hashed[a], chunk)]
      /\ UNCHANGED <<disk, pc, at, list, created, together, prepared>>
  BY DEF Read, TypeOK
<1>1. /\ disk[at[a]] \in Seq(Chunks) /\ hashed[a] \in Seq(Chunks) /\ Len(hashed[a]) \in Nat
      /\ k \in 1 .. Len(disk[at[a]])
  BY <1>0, LenProperties DEF TypeOK
<1>2. chunk \in Chunks
  BY <1>1, ElementOfSeq
<1>3. /\ Append(hashed[a], chunk) \in Seq(Chunks) /\ Len(Append(hashed[a], chunk)) = k
      /\ Append(hashed[a], chunk)[k] = chunk
      /\ \A i \in 1 .. Len(hashed[a]) : Append(hashed[a], chunk)[i] = hashed[a][i]
  BY <1>1, <1>2, AppendProperties
<1>4. TypeOK'
  BY <1>0, <1>3 DEF TypeOK
<1>5. OnlyOf(a) /\ pc'[a] = "read"
  BY <1>0 DEF OnlyOf, Alive, TypeOK
<1>6. Listed'
  BY <1>0, <1>5 DEF Listed, OnlyOf, TypeOK
<1>7. Alone(a)'
  <2> SUFFICES ASSUME a \notin together PROVE Alone(a)'
    BY <1>0 DEF Alone
  <2>1. /\ Len(disk[at[a]]) = Size
        /\ \A i \in 1 .. Len(hashed[a]) : hashed[a][i] = disk[at[a]][i]
        /\ \A f \in Past(a) : Settled(a, f)
    BY <1>0 DEF Alone, Alive
  <2>2. hashed'[a] = Append(hashed[a], chunk)
    BY <1>0 DEF TypeOK
  <2>3. Len(hashed'[a]) <= Size /\ \A i \in 1 .. Len(hashed'[a]) : hashed'[a][i] = disk[at[a]][i]
    BY <1>0, <1>1, <1>3, <2>1, <2>2
  <2>4. \A f \in Past(a)' : Settled(a, f)'
    BY <1>0, <2>1 DEF Past, Settled
  <2> QED
    BY <1>0, <2>1, <2>3, <2>4 DEF Alone
<1>8. /\ Apart' /\ Kept' /\ Reused'
      /\ \A r \in Runs \ {a} : Alone(r)'
  BY <1>4, <1>5, OthersUndisturbed
<1> QED
  BY <1>4, <1>6, <1>7, <1>8

LEMMA EndReadStep == ASSUME Inv, NEW a \in Runs, EndRead(a), UNCHANGED seed PROVE Inv'
<1> USE DEF Inv, At
<1>0. hashed[a] \in Seq(Chunks) /\ disk[at[a]] \in Seq(Chunks) /\ Alive(a)
  BY DEF EndRead, Alive, TypeOK
<1>1. ASSUME a \notin together PROVE Len(disk[at[a]]) = Size /\ disk[at[a]] = hashed[a]
  <2>1. /\ Len(disk[at[a]]) = Size /\ Len(hashed[a]) <= Size /\ Len(hashed[a]) >= Len(disk[at[a]])
        /\ \A i \in 1 .. Len(hashed[a]) : hashed[a][i] = disk[at[a]][i]
    BY <1>0, <1>1 DEF EndRead, Alone
  <2>2. Len(hashed[a]) = Size
    BY <1>0, <2>1, Sizes, LenProperties
  <2> QED
    BY <1>0, <2>1, <2>2, SeqEqual
<1>2. Advance(a, hashed[a]) /\ UNCHANGED <<disk, seed, created, together, prepared>>
  BY DEF EndRead
<1> QED
  BY <1>0, <1>1, <1>2, AdvanceStep

LEMMA DieStep == ASSUME Inv, NEW a \in Runs, Die(a), UNCHANGED seed PROVE Inv'
<1> USE DEF Inv, Goto
<1>0. /\ Alive(a) /\ pc' = [pc EXCEPT ![a] = "died"]
      /\ at' = [at EXCEPT ![a] = 1]
      /\ hashed' = [hashed EXCEPT ![a] = <<>>] /\ list' = [list EXCEPT ![a] = <<>>]
      /\ UNCHANGED <<disk, created, together, prepared>>
  BY DEF Die
<1>1. TypeOK'
  BY <1>0, EmptySeq, Sizes DEF TypeOK, Places
<1>2. OnlyOf(a) /\ pc'[a] = "died"
  BY <1>0 DEF OnlyOf, TypeOK
<1>3. Listed'
  BY <1>0, <1>2 DEF Listed, OnlyOf, TypeOK
<1>4. Alone(a)'
  BY <1>2 DEF Alone, Alive
<1>5. /\ Apart' /\ Kept' /\ Reused'
      /\ \A r \in Runs \ {a} : Alone(r)'
  BY <1>1, <1>2, OthersUndisturbed
<1> QED
  BY <1>1, <1>3, <1>4, <1>5

LEMMA InvStep == Inv /\ [Next]_vars => Inv'
<1> SUFFICES ASSUME Inv, [Next]_vars PROVE Inv'
  OBVIOUS
<1>1. CASE UNCHANGED vars
  BY <1>1 DEF vars, Inv, TypeOK, Apart, Listed, Alone, Past, Settled, Kept, Reused, Complete, Alive
<1>2. CASE Next
  <2>1. PICK a \in Runs :
          \/ Start(a) \/ Skip(a) \/ Reuse(a) \/ Refuse(a) \/ Create(a)
          \/ Write(a) \/ EndWrite(a) \/ Read(a) \/ EndRead(a) \/ Die(a)
    BY <1>2 DEF Next
  <2>2. UNCHANGED seed
    BY <1>2 DEF Next
  <2> QED
    BY <2>1, <2>2, StartStep, SkipStep, DecisionStep, CreateStep, WriteStep, EndWriteStep,
       ReadStep, EndReadStep, DieStep
<1> QED
  BY <1>1, <1>2

LEMMA InvAlways == Spec => []Inv
BY InvInit, InvStep, PTL DEF Spec

-----------------------------------------------------------------------------
(* Runs of one seed, none of which has died.                               *)
Uniform ==
  /\ \A r \in Runs : pc[r] # "died"
  /\ \A r, o \in Runs : pc[r] # "off" /\ pc[o] # "off" => seed[r] = seed[o]

Writes(o, f, k) == pc[o] = "write" /\ at[o] = f /\ Len(hashed[o]) < k

Written(f, k) ==
  k <= Len(disk[f]) /\ \E r \in Runs : pc[r] # "off" /\ disk[f][k] = Chunk(r, f, k)

(* Each chunk is there, or some run has yet to write it.                   *)
Filled(f) == \A k \in 1 .. Size : Written(f, k) \/ \E o \in Runs : Writes(o, f, k)

Untouched(f) == disk[f] = <<>> /\ \A o \in Runs : ~(pc[o] = "write" /\ at[o] = f)

Behind(r, f) == f \in Past(r) \/ (pc[r] = "read" /\ at[r] = f)

Shared ==
  Uniform =>
    \A f \in Files :
      /\ Len(disk[f]) <= Size
      /\ Untouched(f) \/ Filled(f)
      /\ \A r \in Runs : Behind(r, f) => Filled(f)

(* Run a reads, decides, or is done with a file.                           *)
LEMMA MovesOn ==
  ASSUME TypeOK, Shared, NEW a \in Runs, OnlyOf(a), disk' = disk, pc'[a] # "write",
         pc[a] = "write" => Len(hashed[a]) = Size,
         \A f \in Files :
           Behind(a, f)' => Behind(a, f) \/ disk[f] # <<>> \/ (pc[a] = "write" /\ at[a] = f)
  PROVE  Shared'
<1> USE DEF OnlyOf
<1> SUFFICES ASSUME Uniform', NEW f \in Files
             PROVE  /\ Len(disk'[f]) <= Size
                    /\ Untouched(f)' \/ Filled(f)'
                    /\ \A r \in Runs : Behind(r, f)' => Filled(f)'
  BY DEF Shared
<1>1. \A o \in Runs \ {a} : pc'[o] = pc[o]
  BY DEF TypeOK
<1>2. Uniform
  BY <1>1 DEF Uniform, Alive
<1>3. ASSUME Filled(f) PROVE Filled(f)'
  <2> SUFFICES ASSUME NEW k \in 1 .. Size
               PROVE  Written(f, k)' \/ \E o \in Runs : Writes(o, f, k)'
    BY DEF Filled
  <2>1. CASE Written(f, k)
    BY <1>1, <2>1 DEF Written, Chunk, Alive
  <2>2. ASSUME NEW o \in Runs, Writes(o, f, k) PROVE Writes(o, f, k)'
    <3>1. o # a
      BY <2>2, Sizes DEF Writes
    <3> QED
      BY <1>1, <2>2, <3>1 DEF Writes
  <2> QED
    BY <1>3, <2>1, <2>2 DEF Filled
<1>4. Untouched(f) => Untouched(f)'
  BY <1>1 DEF Untouched
<1>5. ASSUME NEW r \in Runs, Behind(r, f)' PROVE Filled(f)
  <2>1. CASE r = a
    BY <1>2, <1>5, <2>1 DEF Shared, Untouched
  <2>2. CASE r # a
    <3>1. Behind(r, f)
      BY <1>1, <1>5, <2>2 DEF Behind, Past
    <3> QED
      BY <1>2, <3>1 DEF Shared
  <2> QED
    BY <2>1, <2>2
<1> QED
  BY <1>2, <1>3, <1>4, <1>5 DEF Shared

LEMMA SharedStart ==
  ASSUME Inv, Shared, NEW a \in Runs, Start(a), UNCHANGED seed PROVE Shared'
<1> USE DEF Inv, Goto, At
<1>0. /\ pc[a] = "off" /\ pc' = [pc EXCEPT ![a] = "stat"] /\ at[a] = 1
      /\ UNCHANGED <<disk, at, hashed>>
  BY DEF Start, Listed
<1> SUFFICES ASSUME Uniform', NEW f \in Files
             PROVE  /\ Len(disk'[f]) <= Size
                    /\ Untouched(f)' \/ Filled(f)'
                    /\ \A r \in Runs : Behind(r, f)' => Filled(f)'
  BY DEF Shared
<1>1. pc'[a] = "stat" /\ \A o \in Runs \ {a} : pc'[o] = pc[o]
  BY <1>0 DEF TypeOK
<1>2. Uniform
  BY <1>0, <1>1 DEF Uniform
<1>3. Filled(f) => Filled(f)'
  BY <1>0, <1>1 DEF Filled, Written, Writes, Chunk
<1>4. Untouched(f) => Untouched(f)'
  BY <1>0, <1>1 DEF Untouched
<1>5. ~Behind(a, f)'
  BY <1>0, <1>1, Sizes DEF Behind, Past, Files
<1>6. \A r \in Runs : Behind(r, f)' => Behind(r, f)
  BY <1>0, <1>1, <1>5 DEF Behind, Past
<1> QED
  BY <1>0, <1>2, <1>3, <1>4, <1>6 DEF Shared

LEMMA SharedCreate ==
  ASSUME Inv, Shared, NEW a \in Runs, Create(a), UNCHANGED seed PROVE Shared'
<1> USE DEF Inv, Goto, At
<1>0. /\ pc[a] = "create" /\ pc' = [pc EXCEPT ![a] = "write"] /\ hashed[a] = <<>>
      /\ at[a] \in Files /\ disk' = [disk EXCEPT ![at[a]] = <<>>]
      /\ UNCHANGED <<at, hashed>>
  BY DEF Create, Listed, TypeOK
<1> SUFFICES ASSUME Uniform', NEW f \in Files
             PROVE  /\ Len(disk'[f]) <= Size
                    /\ Untouched(f)' \/ Filled(f)'
                    /\ \A r \in Runs : Behind(r, f)' => Filled(f)'
  BY DEF Shared
<1>1. pc'[a] = "write" /\ \A o \in Runs \ {a} : pc'[o] = pc[o]
  BY <1>0 DEF TypeOK
<1>2. Uniform
  BY <1>0, <1>1 DEF Uniform
<1>3. CASE f = at[a]
  <2>1. disk'[f] = <<>> /\ Len(<<>>) = 0
    BY <1>0, <1>3, EmptySeq DEF TypeOK
  <2>2. \A k \in 1 .. Size : Writes(a, f, k)'
    BY <1>0, <1>1, <1>3, <2>1 DEF Writes
  <2>3. Filled(f)'
    BY <2>2 DEF Filled
  <2> QED
    BY <2>1, <2>3, Sizes
<1>4. CASE f # at[a]
  <2>1. disk'[f] = disk[f]
    BY <1>0, <1>4 DEF TypeOK
  <2>2. Filled(f) => Filled(f)'
    BY <1>0, <1>1, <2>1 DEF Filled, Written, Writes, Chunk
  <2>3. Untouched(f) => Untouched(f)'
    BY <1>0, <1>1, <1>4, <2>1 DEF Untouched
  <2>4. \A r \in Runs : Behind(r, f)' => Behind(r, f)
    BY <1>0, <1>1 DEF Behind, Past
  <2> QED
    BY <1>2, <2>1, <2>2, <2>3, <2>4 DEF Shared
<1> QED
  BY <1>3, <1>4

LEMMA SharedWrite ==
  ASSUME Inv, Shared, NEW a \in Runs, Write(a), UNCHANGED seed PROVE Shared'
<1> USE DEF Inv, At
<1> DEFINE n == Len(hashed[a]) + 1
           g == at[a]
           chunk == Chunk(a, g, n)
<1>0. /\ pc[a] = "write" /\ g \in Files /\ n <= Size
      /\ disk' = [disk EXCEPT ![g] = Put(disk[g], n, chunk)]
      /\ hashed' = [hashed EXCEPT ![a] = Append(hashed[a], chunk)]
      /\ UNCHANGED <<pc, at>>
  BY DEF Write, TypeOK
<1>1. /\ disk[g] \in Seq(Chunks) /\ hashed[a] \in Seq(Chunks)
      /\ n \in Nat \ {0} /\ chunk \in Chunks /\ Len(disk[g]) \in Nat
  BY <1>0, ChunkIsChunk, LenProperties DEF TypeOK
<1>2. /\ Len(disk'[g]) = IF n > Len(disk[g]) THEN n ELSE Len(disk[g])
      /\ disk'[g][n] = chunk
      /\ \A i \in 1 .. Len(disk[g]) : i # n => disk'[g][i] = disk[g][i]
  <2>1. disk'[g] = Put(disk[g], n, chunk)
    BY <1>0 DEF TypeOK
  <2> HIDE DEF n, chunk, g
  <2>2. /\ n > Len(disk[g]) => Len(Put(disk[g], n, chunk)) = n
        /\ n <= Len(disk[g]) => Len(Put(disk[g], n, chunk)) = Len(disk[g])
    BY <1>1, PutLength, Zenon
  <2>3. Put(disk[g], n, chunk)[n] = chunk
    BY <1>1, PutProperties
  <2>4. ASSUME NEW i \in 1 .. Len(disk[g]), i # n
        PROVE  Put(disk[g], n, chunk)[i] = disk[g][i]
    BY <1>1, <2>4, PutKeeps, Zenon
  <2> QED
    BY <1>1, <2>1, <2>2, <2>3, <2>4
<1>3. Len(hashed'[a]) = n /\ \A o \in Runs \ {a} : hashed'[o] = hashed[o]
  BY <1>0, <1>1, AppendProperties DEF TypeOK
<1> HIDE DEF n, chunk
<1> SUFFICES ASSUME Uniform', NEW f \in Files
             PROVE  /\ Len(disk'[f]) <= Size
                    /\ Untouched(f)' \/ Filled(f)'
                    /\ \A r \in Runs : Behind(r, f)' => Filled(f)'
  BY DEF Shared
<1>4. Uniform
  BY <1>0 DEF Uniform
<1>5. CASE f = g
  <2>1. Filled(f) /\ Len(disk[f]) <= Size
    BY <1>0, <1>4, <1>5 DEF Shared, Untouched
  <2>2. Len(disk'[f]) <= Size
    BY <1>0, <1>2, <1>5, <2>1
  <2>3. ASSUME NEW k \in 1 .. Size
        PROVE  Written(f, k)' \/ \E o \in Runs : Writes(o, f, k)'
    <3>0. k \in Nat \ {0}
      BY Sizes
    <3>1. CASE k = n
      <4>1. k <= Len(disk'[f])
        BY <1>1, <1>2, <1>5, <3>1
      <4>2. disk'[f][k] = Chunk(a, f, k)
        BY <1>2, <1>5, <3>1 DEF chunk
      <4>3. pc'[a] # "off" /\ Chunk(a, f, k)' = Chunk(a, f, k)
        BY <1>0 DEF Chunk
      <4> QED
        BY <4>1, <4>2, <4>3 DEF Written
    <3>2. ASSUME k # n, Written(f, k) PROVE Written(f, k)'
      <4>1. k \in 1 .. Len(disk[g]) /\ k <= Len(disk'[f])
        BY <1>1, <1>2, <1>5, <3>0, <3>2 DEF Written
      <4>2. disk'[f][k] = disk[f][k]
        BY <1>2, <1>5, <3>2, <4>1
      <4> QED
        BY <1>0, <3>2, <4>1, <4>2 DEF Written, Chunk
    <3>3. ASSUME k # n, NEW o \in Runs, Writes(o, f, k) PROVE Writes(o, f, k)'
      <4>1. CASE o = a
        <5>1. n < k
          BY <1>1, <3>0, <3>3, <4>1, LenProperties DEF Writes, n
        <5> QED
          BY <1>0, <1>3, <3>3, <4>1, <5>1 DEF Writes
      <4>2. CASE o # a
        BY <1>0, <1>3, <3>3, <4>2 DEF Writes
      <4> QED
        BY <4>1, <4>2
    <3> QED
      BY <2>1, <3>1, <3>2, <3>3 DEF Filled
  <2>4. Filled(f)'
    BY <2>3 DEF Filled
  <2> QED
    BY <2>2, <2>4
<1>6. CASE f # g
  <2>1. disk'[f] = disk[f]
    BY <1>0, <1>6 DEF TypeOK
  <2>2. \A o \in Runs, k \in 1 .. Size : Writes(o, f, k) => Writes(o, f, k)'
    BY <1>0, <1>3, <1>6 DEF Writes
  <2>3. Filled(f) => Filled(f)'
    BY <1>0, <2>1, <2>2 DEF Filled, Written, Chunk
  <2>4. Untouched(f) => Untouched(f)'
    BY <1>0, <2>1 DEF Untouched
  <2>5. \A r \in Runs : Behind(r, f)' => Behind(r, f)
    BY <1>0 DEF Behind, Past
  <2> QED
    BY <1>4, <2>1, <2>3, <2>4, <2>5 DEF Shared
<1> QED
  BY <1>5, <1>6

(* A file of the right size has been begun.                                *)
LEMMA NotEmpty == ASSUME NEW f, Len(disk[f]) = Size PROVE disk[f] # <<>>
BY Sizes, EmptySeq

LEMMA SharedStep == Inv /\ Shared /\ [Next]_vars => Shared'
<1> SUFFICES ASSUME Inv, Shared, [Next]_vars PROVE Shared'
  OBVIOUS
<1> USE DEF Inv
<1>1. CASE UNCHANGED vars
  BY <1>1 DEF vars, Shared, Uniform, Filled, Written, Writes, Untouched, Behind, Past, Chunk
<1>2. CASE Next
  <2>1. PICK a \in Runs :
          \/ Start(a) \/ Skip(a) \/ Reuse(a) \/ Refuse(a) \/ Create(a)
          \/ Write(a) \/ EndWrite(a) \/ Read(a) \/ EndRead(a) \/ Die(a)
    BY <1>2 DEF Next
  <2>2. UNCHANGED seed
    BY <1>2 DEF Next
  <2>3. CASE Start(a)
    BY <2>2, <2>3, SharedStart
  <2>4. CASE Skip(a) \/ EndRead(a) \/ EndWrite(a)
    <3>1. PICK hash : Advance(a, hash)
      BY <2>4 DEF Skip, EndRead, EndWrite
    <3>2. /\ Alive(a) /\ UNCHANGED <<disk, created, together, prepared>>
          /\ \/ disk[at[a]] # <<>> /\ pc[a] = "stat"
             \/ pc[a] = "read"
             \/ pc[a] = "write" /\ Len(hashed[a]) = Size
      BY <2>4, NotEmpty DEF Skip, EndRead, EndWrite, Alive, At, Keeps
    <3>3. /\ OnlyOf(a) /\ pc'[a] \in {"stat", "ended"}
          /\ \A f \in Past(a)' : f \in Past(a) \/ f = at[a]
      BY <2>2, <3>1, <3>2, AdvanceFrame
    <3>4. \A f \in Files :
           Behind(a, f)' => Behind(a, f) \/ disk[f] # <<>> \/ (pc[a] = "write" /\ at[a] = f)
      BY <3>2, <3>3 DEF Behind
    <3> QED
      BY <3>2, <3>3, <3>4, MovesOn
  <2>5. CASE Reuse(a) \/ Refuse(a) \/ Read(a)
    <3>1. /\ OnlyOf(a) /\ disk' = disk /\ at' = at /\ pc'[a] \in {"read", "create"}
          /\ pc[a] \in {"stat", "read"}
          /\ pc'[a] = "read" => pc[a] = "read" \/ Len(disk[at[a]]) = Size
      BY <2>2, <2>5 DEF OnlyOf, Reuse, Refuse, Read, Alive, At, Goto, Keeps, TypeOK
    <3>2. \A f \in Files : Behind(a, f)' => Behind(a, f) \/ disk[f] # <<>>
      BY <3>1, NotEmpty DEF Behind, Past
    <3> QED
      BY <3>1, <3>2, MovesOn
  <2>6. CASE Create(a)
    BY <2>2, <2>6, SharedCreate
  <2>7. CASE Write(a)
    BY <2>2, <2>7, SharedWrite
  <2>8. CASE Die(a)
    <3>1. pc'[a] = "died"
      BY <2>8 DEF Die, Goto, TypeOK
    <3> QED
      BY <3>1 DEF Shared, Uniform
  <2> QED
    BY <2>1, <2>3, <2>4, <2>5, <2>6, <2>7, <2>8
<1> QED
  BY <1>1, <1>2

LEMMA SharedInit == Init => Shared
<1> SUFFICES ASSUME Init PROVE Shared
  OBVIOUS
<1>1. \A f \in Files : disk[f] = <<>> /\ Len(<<>>) = 0
  BY EmptySeq DEF Init
<1>2. \A f \in Files : Untouched(f)
  BY <1>1 DEF Init, Untouched
<1>3. ASSUME NEW f \in Files, NEW r \in Runs PROVE ~Behind(r, f)
  <2>1. pc[r] = "off" /\ at[r] = 1 /\ ~(f < 1)
    BY Sizes DEF Init, Files
  <2> QED
    BY <2>1 DEF Behind, Past
<1> QED
  BY <1>1, <1>2, <1>3, Sizes DEF Shared

(* When nobody writes any more, everything is written.                     *)
LEMMA SharedIsShared == Inv /\ Shared => SharedDirectory
<1> SUFFICES ASSUME Inv, Shared, NEW r \in Runs, pc[r] = "ended",
                    \A o \in Runs : pc[o] = "off" \/ (pc[o] = "ended" /\ seed[o] = seed[r]),
                    NEW f \in Files
             PROVE  disk[f] = Content(r, f)
  BY DEF SharedDirectory, At
<1>1. Uniform
  BY DEF Uniform
<1>2. Len(disk[f]) <= Size /\ Filled(f)
  BY <1>1 DEF Shared, Behind, Past
<1>3. ASSUME NEW k \in 1 .. Size PROVE k <= Len(disk[f]) /\ disk[f][k] = Chunk(r, f, k)
  <2>1. Written(f, k)
    BY <1>2 DEF Filled, Writes
  <2> QED
    BY <2>1 DEF Written, Chunk
<1>4. disk[f] \in Seq(Chunks) /\ Len(disk[f]) \in Nat
  BY LenProperties DEF Inv, TypeOK
<1>5. Len(disk[f]) = Size
  BY <1>2, <1>3, <1>4, Sizes
<1>6. disk[f] \in [1 .. Size -> Chunks]
  BY <1>4, <1>5, LenProperties
<1> QED
  BY <1>3, <1>6 DEF Content

-----------------------------------------------------------------------------
(* Files, hashes and lists hold chunks, and a run is always at one of its  *)
(* files: the loops of generateTestFiles do not leave the range.           *)
THEOREM TypeCorrect == Spec => []TypeOK
<1>1. Inv => TypeOK
  BY DEF Inv
<1> QED
  BY <1>1, InvAlways, PTL

(* The hashes that generateTestFiles lists (benchmark.go 180-205), and     *)
(* that downloads are compared with, are those of the files on the disk,   *)
(* for ever.                                                               *)
THEOREM HashesAreTrue == Spec => []ListedAsStored
<1>1. Inv => ListedAsStored
  BY TestFilesAssumption DEF Inv, ListedAsStored, Alone, Past, Settled, At
<1> QED
  BY <1>1, InvAlways, PTL

(* The comparison of sizes (create-test-files.go, benchmark.go 186) keeps  *)
(* all that a complete run has prepared: it is never created again.        *)
THEOREM NothingIsCreatedTwice == Spec => []PreparedIsReused
<1>1. Inv => PreparedIsReused
  BY DEF Inv, Reused, PreparedIsReused
<1> QED
  BY <1>1, InvAlways, PTL

(* Runs of one seed may share the directory, at once and interleaved:      *)
(* os.Create and the writes of genFile and generateFile leave what the     *)
(* seed says.                                                              *)
THEOREM SharingIsSafe == Spec => []SharedDirectory
<1>1. Spec => [](Inv /\ Shared)
  BY InvInit, InvStep, SharedInit, SharedStep, PTL DEF Spec
<1> QED
  BY <1>1, SharedIsShared, PTL
=============================================================================
