---------------------------- MODULE MonitorProofs ---------------------------
(***************************************************************************)
(* Proofs about the output file of the monitors: for any number of them,   *)
(* one after the other or at once, and any failures.                       *)
(***************************************************************************)
EXTENDS Monitor, SequenceTheorems, TLAPS

Places ==
  {"off", "version", "resolve", "stat", "open", "header", "select", "asked", "write", "ended"}
Fields ==
  {"pc", "isNewFile", "cancelled", "ticked", "frame", "sample", "previous", "broken"}

Contents(s) == {s[i] : i \in 1 .. Len(s)}

Shape ==
  /\ DOMAIN monitor = Monitors
  /\ \A m \in Monitors :
       /\ DOMAIN monitor[m] = Fields
       /\ monitor[m].pc \in Places
       /\ monitor[m].isNewFile \in BOOLEAN /\ monitor[m].broken \in BOOLEAN
  /\ exists \in BOOLEAN /\ doubtful \in BOOLEAN
  /\ file \in Seq(Contents(file))

(* Who has torn a line will write no other.                                *)
Silent(m) == At(m, "ended") \/ (InLoop(m) /\ monitor[m].broken)

TornAreSilent ==
  \A k \in 1 .. Len(file) :
    file[k].kind = "torn" => \E m \in Monitors : file[k].by = m /\ Silent(m)

(* Only one monitor opens a new file, and the others wait for its header.  *)
Opening ==
  /\ \A m, o \in Monitors : At(m, "header") /\ At(o, "header") => m = o
  /\ \A m, o \in Monitors : At(m, "header") => ~InLoop(o)
  /\ \A m \in Monitors : At(m, "header") \/ InLoop(m) => exists
  /\ \A m \in Monitors : At(m, "open") => monitor[m].isNewFile = ~exists
  /\ file # <<>> <=> exists /\ \A m \in Monitors : ~At(m, "header")
  /\ \A k \in 1 .. Len(file) : file[k].kind = "header" <=> k = 1

Inv == Shape /\ TornAreSilent /\ TornLineIsLast /\ (~doubtful => Opening)

-----------------------------------------------------------------------------
LEMMA AppendTo ==
  ASSUME NEW s, s \in Seq(Contents(s)), NEW e
  PROVE  /\ Append(s, e) \in Seq(Contents(Append(s, e)))
         /\ Len(s) \in Nat /\ Len(Append(s, e)) = Len(s) + 1
         /\ Append(s, e)[Len(s) + 1] = e
         /\ \A i \in 1 .. Len(s) : Append(s, e)[i] = s[i]
         /\ Append(s, e) # <<>> /\ (s = <<>> <=> Len(s) = 0)
<1> DEFINE S == Contents(s) \cup {e}
           t == Append(s, e)
<1>1. s \in Seq(S) /\ e \in S
  <2>1. s \in [1 .. Len(s) -> Contents(s)] /\ Len(s) \in Nat
    BY LenProperties
  <2>2. s \in [1 .. Len(s) -> S]
    BY <2>1
  <2> QED
    BY <2>1, <2>2, SeqDef
<1>2. t \in Seq(S) /\ Len(t) = Len(s) + 1 /\ Len(s) \in Nat /\ t[Len(s) + 1] = e
      /\ \A i \in 1 .. Len(s) : t[i] = s[i]
  BY <1>1, AppendProperties, LenProperties
<1>3. t \in Seq(Contents(t))
  <2>1. t \in [1 .. Len(t) -> S] /\ Len(t) \in Nat
    BY <1>2, LenProperties
  <2>2. t \in [1 .. Len(t) -> Contents(t)]
    BY <2>1 DEF Contents
  <2> QED
    BY <2>1, <2>2, SeqDef
<1>4. t # <<>> /\ (s = <<>> <=> Len(s) = 0)
  BY <1>1, <1>2, EmptySeq
<1> QED
  BY <1>2, <1>3, <1>4

LEMMA InvInit == Init => Inv
<1> SUFFICES ASSUME Init PROVE Inv
  OBVIOUS
<1>1. file = <<>> /\ Len(file) = 0 /\ file \in Seq(Contents(file))
  BY EmptySeq DEF Init
<1>2. Shape
  BY <1>1 DEF Init, Shape, Process, Fields, Places
<1>3. TornAreSilent /\ TornLineIsLast
  BY <1>1 DEF TornAreSilent, TornLineIsLast
<1>4. \A m \in Monitors : monitor[m].pc = "off"
  BY DEF Init, Process
<1>5. Opening
  BY <1>1, <1>4 DEF Init, Opening, At, InLoop
<1> QED
  BY <1>2, <1>3, <1>5 DEF Inv

-----------------------------------------------------------------------------
(* Monitor m does something, and the others do not.                        *)
Turn(m) ==
  /\ DOMAIN monitor' = Monitors /\ DOMAIN monitor'[m] = Fields
  /\ monitor'[m].pc \in Places
  /\ monitor'[m].isNewFile \in BOOLEAN /\ monitor'[m].broken \in BOOLEAN
  /\ \A o \in Monitors \ {m} : monitor'[o] = monitor[o]

LEMMA TurnOf ==
  ASSUME Shape, NEW m \in Monitors, NEW process,
         DOMAIN process = Fields, process.pc \in Places,
         process.isNewFile \in BOOLEAN, process.broken \in BOOLEAN,
         monitor' = [monitor EXCEPT ![m] = process]
  PROVE  Turn(m) /\ monitor'[m] = process
BY DEF Turn, Shape

(* The file remains as it is.                                              *)
LEMMA FileKept ==
  ASSUME Inv, NEW m \in Monitors, Turn(m), file' = file,
         exists' \in BOOLEAN, doubtful' \in BOOLEAN,
         Silent(m) => Silent(m)',
         ~doubtful' => Opening'
  PROVE  Inv'
<1> USE DEF Inv
<1>1. Shape'
  BY DEF Shape, Turn
<1>2. TornAreSilent'
  BY DEF TornAreSilent, Silent, At, InLoop, Turn
<1>3. TornLineIsLast'
  BY DEF TornLineIsLast
<1> QED
  BY <1>1, <1>2, <1>3

LEMMA QuietTurn ==
  ASSUME Inv, NEW m \in Monitors, Turn(m), file' = file, exists' = exists,
         doubtful' = doubtful \/ (doubtful' = TRUE /\ At(m, "header")),
         \/ /\ monitor[m].pc \in {"off", "version", "resolve"}
            /\ monitor'[m].pc \in {"version", "resolve", "stat"}
         \/ monitor'[m].pc = "ended" /\ (At(m, "header") => doubtful')
         \/ monitor[m].pc = "stat" /\ monitor'[m].pc = "open" /\ monitor'[m].isNewFile = ~exists
         \/ InLoop(m) /\ InLoop(m)' /\ (monitor[m].broken => monitor'[m].broken)
  PROVE  Inv'
<1>1. Silent(m) => Silent(m)'
  BY DEF Silent, InLoop, At
<1>2. ASSUME ~doubtful' PROVE Opening'
  <2>1. Opening
    BY <1>2 DEF Inv, Shape
  <2>3. \A o \in Monitors : At(o, "header")' <=> At(o, "header")
    BY <1>2 DEF At, InLoop, Turn
  <2>4. \A o \in Monitors : InLoop(o)' => InLoop(o)
    BY DEF At, InLoop, Turn
  <2>5. \A o \in Monitors : At(o, "open")' => monitor'[o].isNewFile = ~exists
    BY <2>1 DEF At, InLoop, Turn, Opening
  <2> QED
    BY <2>1, <2>3, <2>4, <2>5 DEF Opening
<1>3. exists' \in BOOLEAN /\ doubtful' \in BOOLEAN
  BY DEF Inv, Shape
<1> QED
  BY <1>1, <1>2, <1>3, FileKept

(* A row, or a torn line, is appended.                                     *)
LEMMA LineAppended ==
  ASSUME Inv, NEW m \in Monitors, Turn(m), InLoop(m), InLoop(m)', ~monitor[m].broken,
         NEW line, line.kind \in {"row", "torn"}, line.by = m, file' = Append(file, line),
         line.kind = "torn" => monitor'[m].broken,
         UNCHANGED <<exists, doubtful>>
  PROVE  Inv'
<1> USE DEF Inv
<1>1. /\ Len(file) \in Nat /\ Len(file') = Len(file) + 1 /\ file'[Len(file) + 1] = line
      /\ \A i \in 1 .. Len(file) : file'[i] = file[i]
      /\ file' \in Seq(Contents(file)') /\ file' # <<>> /\ (file = <<>> <=> Len(file) = 0)
  BY AppendTo DEF Shape, Contents
<1>2. Shape'
  BY <1>1 DEF Shape, Turn
<1>3. \A k \in 1 .. Len(file) : file[k].kind = "torn" => file[k].by # m
  BY DEF TornAreSilent, Silent, InLoop, At
<1>4. \A o \in Monitors \ {m} : Silent(o)' <=> Silent(o)
  BY DEF Silent, InLoop, At, Turn
<1>5. TornAreSilent'
  <2> SUFFICES ASSUME NEW k \in 1 .. Len(file'), file'[k].kind = "torn"
               PROVE  \E o \in Monitors : file'[k].by = o /\ Silent(o)'
    BY DEF TornAreSilent
  <2>1. CASE k \in 1 .. Len(file)
    <3>1. PICK o \in Monitors : file[k].by = o /\ Silent(o)
      BY <1>1, <2>1 DEF TornAreSilent
    <3>2. o # m
      BY <1>1, <1>3, <2>1, <3>1
    <3> QED
      BY <1>1, <1>4, <2>1, <3>1, <3>2
  <2>2. CASE k = Len(file) + 1
    BY <1>1, <2>2 DEF Silent
  <2> QED
    BY <1>1, <2>1, <2>2
<1>6. TornLineIsLast'
  <2> SUFFICES ASSUME NEW i \in 1 .. Len(file'), NEW k \in 1 .. Len(file'),
                      file'[i].kind = "torn", i < k, file'[k].kind # "header"
               PROVE  file'[k].by # file'[i].by
    BY <1>2, LenProperties DEF TornLineIsLast, Shape
  <2>1. i \in 1 .. Len(file)
    BY <1>1
  <2>2. CASE k \in 1 .. Len(file)
    BY <1>1, <2>1, <2>2, LenProperties DEF TornLineIsLast, Shape
  <2>3. CASE k = Len(file) + 1
    BY <1>1, <1>3, <2>1, <2>3
  <2> QED
    BY <1>1, <2>2, <2>3
<1>7. ASSUME ~doubtful PROVE Opening'
  <2>1. Opening
    BY <1>7
  <2>2. \A o \in Monitors : (At(o, "header")' <=> At(o, "header")) /\ (InLoop(o)' <=> InLoop(o))
    BY DEF At, InLoop, Turn
  <2>3. \A o \in Monitors : At(o, "open")' => At(o, "open") /\ monitor'[o] = monitor[o]
    BY DEF At, InLoop, Turn
  <2>4. exists /\ file # <<>> /\ Len(file) > 0
    BY <1>1, <2>1 DEF Opening
  <2>5. \A k \in 1 .. Len(file') : file'[k].kind = "header" <=> k = 1
    BY <1>1, <2>1, <2>4 DEF Opening
  <2> QED
    BY <1>1, <2>1, <2>2, <2>3, <2>4, <2>5 DEF Opening
<1> QED
  BY <1>2, <1>5, <1>6, <1>7

-----------------------------------------------------------------------------
(* What no monitor does.                                                   *)
LEMMA WorldStep ==
  ASSUME Inv, DOMAIN monitor' = Monitors, UNCHANGED <<exists, file, doubtful>>,
         \A m \in Monitors :
           /\ DOMAIN monitor'[m] = Fields /\ monitor'[m].pc = monitor[m].pc
           /\ monitor'[m].isNewFile = monitor[m].isNewFile
           /\ monitor'[m].broken = monitor[m].broken
  PROVE  Inv'
<1>1. \A m \in Monitors : Silent(m)' <=> Silent(m)
  BY DEF Silent, InLoop, At
<1>2. TornAreSilent'
  BY <1>1 DEF Inv, TornAreSilent
<1>3. Shape' /\ TornLineIsLast'
  BY DEF Inv, Shape, TornLineIsLast
<1>4. ~doubtful => Opening'
  BY DEF Inv, Opening, InLoop, At
<1> QED
  BY <1>2, <1>3, <1>4 DEF Inv

LEMMA SecondStep == ASSUME Inv, Second PROVE Inv'
<1>1. monitor' = [m \in Monitors |-> [monitor[m] EXCEPT !.ticked = @ \/ InLoop(m)]]
      /\ UNCHANGED <<exists, file, doubtful>>
  BY DEF Second, disk
<1>2. \A m \in Monitors : DOMAIN monitor[m] = Fields
  BY DEF Inv, Shape
<1> QED
  BY <1>1, <1>2, WorldStep DEF Fields

LEMMA SignalStep == ASSUME Inv, NEW m \in Monitors, Signal(m) PROVE Inv'
<1>1. monitor' = [monitor EXCEPT ![m].cancelled = TRUE] /\ UNCHANGED <<exists, file, doubtful>>
  BY DEF Signal, disk
<1>2. DOMAIN monitor = Monitors /\ \A o \in Monitors : DOMAIN monitor[o] = Fields
  BY DEF Inv, Shape
<1> QED
  BY <1>1, <1>2, WorldStep DEF Fields

LEMMA ContainerStep == ASSUME Inv, ContainerStops \/ ContainerStarts PROVE Inv'
<1>1. UNCHANGED <<monitor, exists, file, doubtful>>
  BY DEF ContainerStops, ContainerStarts, disk
<1> QED
  BY <1>1, WorldStep DEF Inv, Shape

-----------------------------------------------------------------------------
(* What a monitor does.                                                    *)
LEMMA EndTurn ==
  ASSUME Shape, NEW m \in Monitors, End(m)
  PROVE  Turn(m) /\ monitor'[m].pc = "ended"
<1> DEFINE process == Process("ended")
<1>1. DOMAIN process = Fields /\ process.pc = "ended"
      /\ process.isNewFile \in BOOLEAN /\ process.broken \in BOOLEAN
  BY DEF Process, Fields
<1>2. monitor' = [monitor EXCEPT ![m] = process] /\ "ended" \in Places
  BY DEF End, Places
<1> HIDE DEF process
<1> QED
  BY <1>1, <1>2, TurnOf

LEMMA BeforeStep ==
  ASSUME Inv, NEW m \in Monitors,
         Start(m) \/ Version(m) \/ Resolve(m) \/ ResolveCancelled(m) \/ Stop(m) \/ Kill(m)
  PROVE  Inv'
<1> USE DEF Inv
<1>1. /\ file' = file /\ exists' = exists
      /\ doubtful' = doubtful \/ (doubtful' = TRUE /\ At(m, "header"))
  BY DEF Start, Version, Resolve, ResolveCancelled, Stop, Kill, disk, Shape
<1>2. CASE End(m)
  <2>1. At(m, "header") => doubtful'
    BY DEF Start, Version, Resolve, ResolveCancelled, Stop, Kill, At
  <2> QED
    BY <1>1, <1>2, <2>1, EndTurn, QuietTurn
<1>3. CASE Start(m)
  <2> DEFINE process == Process("version")
  <2>1. DOMAIN process = Fields /\ process.pc = "version"
        /\ process.isNewFile \in BOOLEAN /\ process.broken \in BOOLEAN
    BY DEF Process, Fields
  <2>2. monitor' = [monitor EXCEPT ![m] = process] /\ "version" \in Places
    BY <1>3 DEF Start, Places
  <2> HIDE DEF process
  <2>3. Turn(m) /\ monitor'[m].pc = "version"
    BY <2>1, <2>2, TurnOf
  <2> QED
    BY <1>1, <1>3, <2>3, QuietTurn DEF Start, At
<1>4. ASSUME NEW place \in {"resolve", "stat"}, monitor' = [monitor EXCEPT ![m].pc = place],
             monitor[m].pc \in {"version", "resolve"}
      PROVE  Inv'
  <2>1. Turn(m) /\ monitor'[m].pc = place
    BY <1>4 DEF Turn, Shape, Fields, Places
  <2> QED
    BY <1>1, <1>4, <2>1, QuietTurn
<1> QED
  BY <1>2, <1>3, <1>4 DEF Version, Resolve, ResolveCancelled, Stop, Kill, At

LEMMA StatStep == ASSUME Inv, NEW m \in Monitors, Stat(m) PROVE Inv'
<1> USE DEF Inv
<1>1. /\ UNCHANGED <<exists, file, doubtful>> /\ monitor[m].pc = "stat"
      /\ monitor' = [monitor EXCEPT ![m].pc = "open", ![m].isNewFile = ~exists]
  BY DEF Stat, disk, At
<1>2. Turn(m) /\ monitor'[m].pc = "open" /\ monitor'[m].isNewFile = ~exists
  BY <1>1 DEF Turn, Shape, Fields, Places
<1> QED
  BY <1>1, <1>2, QuietTurn

LEMMA LoopStep ==
  ASSUME Inv, NEW m \in Monitors,
         Ask(m) \/ Collect(m) \/ CollectFails(m) \/ CollectNotFound(m) \/ CollectCancelled(m)
         \/ WriteRefused(m)
  PROVE  Inv'
<1> USE DEF Inv
<1>1. /\ UNCHANGED <<exists, file, doubtful>> /\ InLoop(m)
      /\ Turn(m) /\ monitor'[m].pc \in {"select", "asked", "write"}
      /\ monitor[m].broken => monitor'[m].broken
  BY DEF Ask, Collect, CollectFails, CollectNotFound, CollectCancelled, WriteRefused, GiveUp, Discard,
     disk, At, InLoop, Turn, Shape, Fields, Places
<1> QED
  BY <1>1, QuietTurn DEF InLoop

LEMMA OpenStep == ASSUME Inv, NEW m \in Monitors, Open(m) PROVE Inv'
<1> USE DEF Inv
<1>0. At(m, "open") /\ file' = file
  BY DEF Open
<1>1. CASE End(m) /\ UNCHANGED <<exists, doubtful>>
  BY <1>0, <1>1, EndTurn, QuietTurn DEF At
<1>2. ASSUME exists' = TRUE,
             monitor' = [monitor EXCEPT
               ![m].pc = IF monitor[m].isNewFile THEN "header" ELSE "select", ![m].isNewFile = FALSE],
             doubtful' = (doubtful \/ \E o \in Monitors \ {m} : At(o, "open") \/ At(o, "header"))
      PROVE  Inv'
  <2>1. /\ Turn(m)
        /\ monitor'[m].pc = IF monitor[m].isNewFile THEN "header" ELSE "select"
    BY <1>2 DEF Turn, Shape, Fields, Places
  <2>2. ~Silent(m)
    BY <1>0 DEF Silent, At, InLoop
  <2>3. doubtful' \in BOOLEAN
    BY <1>2
  <2>4. ASSUME ~doubtful' PROVE Opening'
    <3>1. Opening /\ \A o \in Monitors \ {m} : ~At(o, "open") /\ ~At(o, "header")
      BY <1>2, <2>4
    <3>2. \A o \in Monitors \ {m} : monitor'[o] = monitor[o]
      BY <2>1 DEF Turn
    <3>3. \A o \in Monitors : ~At(o, "open")'
      BY <2>1, <3>1, <3>2 DEF At
    <3>4. monitor[m].isNewFile = ~exists
      BY <1>0, <3>1 DEF Opening
    <3>5. CASE exists
      <4>1. monitor'[m].pc = "select" /\ \A o \in Monitors : ~At(o, "header")'
        BY <2>1, <3>1, <3>2, <3>4, <3>5 DEF At
      <4>2. file # <<>>
        BY <1>0, <3>1, <3>5 DEF Opening, At
      <4> QED
        BY <1>0, <1>2, <3>1, <3>3, <4>1, <4>2 DEF Opening, At
    <3>6. CASE ~exists
      <4>1. monitor'[m].pc = "header" /\ \A o \in Monitors \ {m} : ~At(o, "header")'
        BY <2>1, <3>1, <3>2, <3>4, <3>6 DEF At
      <4>2. file = <<>> /\ \A o \in Monitors : ~InLoop(o)'
        BY <2>1, <3>1, <3>2, <3>6, <4>1 DEF Opening, InLoop
      <4> QED
        BY <1>0, <1>2, <3>1, <3>3, <4>1, <4>2 DEF Opening, At
    <3> QED
      BY <3>5, <3>6
  <2> QED
    BY <1>0, <1>2, <2>1, <2>2, <2>3, <2>4, FileKept
<1> QED
  BY <1>1, <1>2 DEF Open

LEMMA WriteRowStep == ASSUME Inv, NEW m \in Monitors, WriteRow(m) PROVE Inv'
<1> USE DEF Inv
<1> DEFINE line == Row(m)
<1>1. line.kind = "row" /\ line.by = m
  BY DEF Row
<1>2. /\ file' = Append(file, line) /\ InLoop(m) /\ ~monitor[m].broken
      /\ UNCHANGED <<exists, doubtful>>
      /\ monitor' = [monitor EXCEPT
           ![m].pc = "select", ![m].previous = monitor[m].sample, ![m].sample = None]
  BY DEF WriteRow, InLoop, At
<1> HIDE DEF line
<1>3. Turn(m) /\ monitor'[m].pc = "select"
  BY <1>2 DEF Turn, Shape, Fields, Places
<1>4. InLoop(m)'
  BY <1>3 DEF InLoop
<1> QED
  BY <1>1, <1>2, <1>3, <1>4, LineAppended

LEMMA WriteFailsStep == ASSUME Inv, NEW m \in Monitors, WriteFails(m) PROVE Inv'
<1> USE DEF Inv
<1> DEFINE line == Torn(m)
<1>1. line.kind = "torn" /\ line.by = m
  BY DEF Torn
<1>2. /\ file' \in {file, Append(file, line)} /\ InLoop(m) /\ ~monitor[m].broken
      /\ UNCHANGED <<exists, doubtful>>
      /\ monitor' = [monitor EXCEPT ![m].pc = "select", ![m].broken = TRUE, ![m].sample = None]
  BY DEF WriteFails, Discard, FailedWrite, InLoop, At
<1> HIDE DEF line
<1>3. Turn(m) /\ monitor'[m].pc = "select" /\ monitor'[m].broken
  BY <1>2 DEF Turn, Shape, Fields, Places
<1>4. InLoop(m)'
  BY <1>3 DEF InLoop
<1>5. CASE file' = file
  BY <1>2, <1>3, <1>4, <1>5, QuietTurn
<1>6. ASSUME NEW piece, piece = line, file' = Append(file, piece) PROVE Inv'
  <2>1. piece.kind \in {"row", "torn"} /\ piece.by = m
    BY <1>1, <1>6
  <2>2. UNCHANGED <<exists, doubtful>> /\ ~monitor[m].broken
    BY <1>2
  <2>3. InLoop(m)
    BY <1>2
  <2> QED
    BY <1>3, <1>4, <1>6, <2>1, <2>2, <2>3, LineAppended
<1> QED
  BY <1>2, <1>5, <1>6

LEMMA WriteHeaderStep == ASSUME Inv, NEW m \in Monitors, WriteHeader(m) PROVE Inv'
<1> USE DEF Inv
<1>0. At(m, "header") /\ exists' = exists
  BY DEF WriteHeader
<1>1. \A k \in 1 .. Len(file) : file[k].kind = "torn" => file[k].by # m
  BY <1>0 DEF TornAreSilent, Silent, InLoop, At
<1>2. ASSUME NEW line, file' = Append(file, line), Turn(m), doubtful' \in BOOLEAN,
             line.kind = "header" \/ (line.kind = "torn" /\ line.by = m /\ At(m, "ended")'),
             ~doubtful' => Opening'
      PROVE  Inv'
  <2>1. /\ Len(file) \in Nat /\ Len(file') = Len(file) + 1 /\ file'[Len(file) + 1] = line
        /\ \A i \in 1 .. Len(file) : file'[i] = file[i]
        /\ file' \in Seq(Contents(file)')
    BY <1>2, AppendTo DEF Shape, Contents
  <2>2. Shape'
    BY <1>0, <1>2, <2>1 DEF Shape, Turn
  <2>3. \A o \in Monitors \ {m} : Silent(o)' <=> Silent(o)
    BY <1>2 DEF Silent, InLoop, At, Turn
  <2>4. TornAreSilent'
    <3> SUFFICES ASSUME NEW k \in 1 .. Len(file'), file'[k].kind = "torn"
                 PROVE  \E o \in Monitors : file'[k].by = o /\ Silent(o)'
      BY DEF TornAreSilent
    <3>1. CASE k \in 1 .. Len(file)
      <4>1. PICK o \in Monitors : file[k].by = o /\ Silent(o)
        BY <2>1, <3>1 DEF TornAreSilent
      <4>2. o # m
        BY <1>1, <2>1, <3>1, <4>1
      <4> QED
        BY <2>1, <2>3, <3>1, <4>1, <4>2
    <3>2. CASE k = Len(file) + 1
      BY <1>2, <2>1, <3>2 DEF Silent
    <3> QED
      BY <2>1, <3>1, <3>2
  <2>5. TornLineIsLast'
    <3> SUFFICES ASSUME NEW i \in 1 .. Len(file'), NEW k \in 1 .. Len(file'),
                        file'[i].kind = "torn", i < k, file'[k].kind # "header"
                 PROVE  file'[k].by # file'[i].by
      BY <2>2, LenProperties DEF TornLineIsLast, Shape
    <3>1. i \in 1 .. Len(file)
      BY <2>1
    <3>2. CASE k \in 1 .. Len(file)
      BY <2>1, <3>1, <3>2, LenProperties DEF TornLineIsLast, Shape
    <3>3. CASE k = Len(file) + 1
      BY <1>1, <1>2, <2>1, <3>1, <3>3
    <3> QED
      BY <2>1, <3>2, <3>3
  <2> QED
    BY <1>2, <2>2, <2>4, <2>5
<1>3. CASE FailedWrite(m) /\ End(m) /\ doubtful' = TRUE
  <2>1. Turn(m) /\ monitor'[m].pc = "ended"
    BY <1>3, EndTurn
  <2>2. CASE file' = file
    BY <1>0, <1>3, <2>1, <2>2, QuietTurn
  <2>3. CASE file' = Append(file, Torn(m))
    <3>1. Torn(m).kind = "torn" /\ Torn(m).by = m /\ At(m, "ended")'
      BY <2>1 DEF Torn, At
    <3> QED
      BY <1>2, <1>3, <2>1, <2>3, <3>1
  <2> QED
    BY <1>3, <2>2, <2>3 DEF FailedWrite
<1>4. CASE /\ file' = Append(file, Header)
           /\ monitor' = [monitor EXCEPT ![m].pc = "select"] /\ doubtful' = doubtful
  <2>1. Turn(m) /\ monitor'[m].pc = "select" /\ Header.kind = "header"
    BY <1>4 DEF Turn, Shape, Fields, Places, Header
  <2>2. ASSUME ~doubtful PROVE Opening'
    <3>1. Opening /\ file = <<>> /\ exists
      BY <1>0, <2>2 DEF Opening
    <3>2. \A o \in Monitors : ~At(o, "header")' /\ (At(o, "open")' => At(o, "open") /\ monitor'[o] = monitor[o])
      BY <1>0, <2>1, <3>1 DEF Opening, At, Turn
    <3>3. /\ Len(file) = 0 /\ Len(file') = 1 /\ file'[1] = Header /\ file' # <<>>
      BY <1>4, <3>1, AppendTo DEF Shape
    <3>4. \A k \in 1 .. Len(file') : file'[k].kind = "header" <=> k = 1
      BY <2>1, <3>3
    <3> QED
      BY <1>0, <3>1, <3>2, <3>3, <3>4 DEF Opening, At
  <2> QED
    BY <1>2, <1>4, <2>1, <2>2 DEF Shape
<1> QED
  BY <1>3, <1>4 DEF WriteHeader

LEMMA InvStep == Inv /\ [Next]_vars => Inv'
<1> SUFFICES ASSUME Inv, [Next]_vars PROVE Inv'
  OBVIOUS
<1>1. CASE UNCHANGED vars
  BY <1>1, WorldStep DEF vars, disk, Inv, Shape
<1>2. CASE Second \/ ContainerStops \/ ContainerStarts
  BY <1>2, SecondStep, ContainerStep
<1>3. ASSUME NEW m \in Monitors, Start(m) \/ Main(m) \/ Answer(m) \/ Signal(m) \/ Kill(m)
      PROVE  Inv'
  BY <1>3, BeforeStep, StatStep, OpenStep, WriteHeaderStep, LoopStep, WriteRowStep, WriteFailsStep,
     SignalStep DEF Main, Answer
<1> QED
  BY <1>1, <1>2, <1>3 DEF Next

LEMMA InvAlways == Spec => []Inv
BY InvInit, InvStep, PTL DEF Spec

(* NewCSVWriter (csv_writer.go 25-62) writes the header only into a file   *)
(* that was not there: the file has one, as its first line, however many   *)
(* monitors run one after the other.                                       *)
THEOREM OneHeader == Spec => []HeaderOnce
<1>1. Inv => HeaderOnce
  <2> SUFFICES ASSUME Inv, ~doubtful PROVE \A k \in DOMAIN file : file[k].kind = "header" <=> k = 1
    BY DEF HeaderOnce
  <2>1. DOMAIN file = 1 .. Len(file)
    BY LenProperties DEF Inv, Shape
  <2> QED
    BY <2>1 DEF Inv, Opening
<1> QED
  BY <1>1, InvAlways, PTL

(* csv.Writer keeps its first error, so CSVWriter.Write (csv_writer.go     *)
(* 64-93) writes nothing behind a line of its own that was torn.           *)
THEOREM TornIsLast == Spec => []TornLineIsLast
<1>1. Inv => TornLineIsLast
  BY DEF Inv
<1> QED
  BY <1>1, InvAlways, PTL

-----------------------------------------------------------------------------
(* What the rows say.                                                      *)

LEMMA Constants ==
  /\ CPUs \in Nat \ {0} /\ MaxTime \in Nat /\ Inactive \in Nat
  /\ Word \in Nat /\ CPUs * MaxTime \in Nat /\ CPUs * MaxTime < Word
  /\ None \notin Samples
BY MonitorAssumption

(* An unsigned difference is the true one, unless it would be negative.    *)
LEMMA MinusIsDifference ==
  ASSUME NEW x \in Nat, NEW y \in Nat, y <= x, x < Word
  PROVE  Minus(x, y) = x - y
BY Constants DEF Minus

LEMMA TimesGrows ==
  ASSUME NEW x \in Nat, NEW y \in Nat, NEW z \in Nat, x <= y
  PROVE  x * z \in Nat /\ y * z \in Nat /\ x * z <= y * z /\ y * z - x * z = (y - x) * z
         /\ z * x = x * z
OBVIOUS

(* The container cannot have used more than all CPUs since the start.      *)
Counters ==
  /\ now \in Nat /\ 1 <= now /\ (now = 1 \/ now <= MaxTime)
  /\ starts \in Nat /\ used \in Nat /\ used <= (now - 1) * CPUs

(* What Docker read first is as old as it says, and in one life of the     *)
(* container no more was used since than there was.                        *)
Reading(f) ==
  /\ f.read \in Nat /\ f.read <= now /\ f.used \in Nat /\ f.starts \in Nat /\ f.starts <= starts
  /\ f.read = 0 => f.used = 0 /\ f.cpus = 0
  /\ f.read > 0 => f.cpus = CPUs
  /\ f.read > 0 /\ f.starts = starts =>
       f.used <= used /\ used <= f.used + (now - f.read) * CPUs

Believable(s) ==
  /\ s.busy <= s.capacity * CPUs \/ s.restarted
  /\ s.memory <= s.used

Truthful ==
  /\ Counters
  /\ \A m \in Monitors :
       /\ At(m, "asked") => Reading(monitor[m].frame)
       /\ At(m, "write") => Believable(monitor[m].sample)
  /\ \A k \in 1 .. Len(file) : file[k].kind = "row" => Believable(file[k].sample)

LEMMA FrameIsReading ==
  ASSUME Counters
  PROVE  /\ Reading(Frame) /\ Frame.used < Word
         /\ Frame.read = 0 \/ (Frame.read = now /\ Frame.used = used)
         /\ Frame.starts = starts
<1>1. 0 * CPUs = 0 /\ CPUs \in Nat
  BY Constants
<1>2. used < Word /\ 0 < Word
  <2>1. CASE now = 1
    BY <1>1, <2>1, Constants DEF Counters
  <2>2. CASE now <= MaxTime
    <3>1. (now - 1) * CPUs <= MaxTime * CPUs /\ CPUs * MaxTime = MaxTime * CPUs
      BY <2>2, Constants, TimesGrows DEF Counters
    <3> QED
      BY <3>1, Constants DEF Counters
  <2> QED
    BY <2>1, <2>2 DEF Counters
<1>3. CASE container = "running"
  <2>1. /\ Frame.read = now /\ Frame.used = used /\ Frame.cpus = CPUs /\ Frame.starts = starts
    BY <1>3 DEF Frame
  <2>2. now - now = 0
    BY DEF Counters
  <2> QED
    BY <1>1, <1>2, <2>1, <2>2 DEF Reading, Counters
<1>4. CASE container # "running"
  <2>1. /\ Frame.read = 0 /\ Frame.used = 0 /\ Frame.cpus = 0 /\ Frame.starts = starts
    BY <1>4 DEF Frame
  <2> QED
    BY <1>2, <2>1 DEF Reading, Counters
<1> QED
  BY <1>3, <1>4

LEMMA MemoryIsBelievable ==
  ASSUME NEW usage \in Nat, usage < Word
  PROVE  MemoryUsage(usage) <= usage
BY Constants, MinusIsDifference DEF MemoryUsage

(* The differences of cpuPercent do not wrap in one life of the container. *)
LEMMA MeasuredIsBelievable ==
  ASSUME Counters, NEW pre, Reading(pre), NEW cur,
         \/ cur = pre /\ pre.read = 0
         \/ cur = Frame /\ pre.read > 0 /\ now > pre.read
  PROVE  Believable(Measured(pre, cur))
<1> DEFINE s == Measured(pre, cur)
           cpuDelta == Minus(cur.used, pre.used)
           systemDelta == Minus(cur.read * CPUs, pre.read * CPUs)
           valid == cpuDelta > 0 /\ systemDelta > 0 /\ cur.cpus > 0
<1> SUFFICES Believable(s)
  OBVIOUS
<1>1. /\ s.busy = IF valid THEN cpuDelta * cur.cpus ELSE 0
      /\ s.capacity = IF valid THEN systemDelta ELSE 1
      /\ s.restarted = (cur.starts # pre.starts)
      /\ s.memory = MemoryUsage(cur.used) /\ s.used = cur.used
  BY DEF Measured
<1>2. cur.used \in Nat /\ cur.used < Word
  BY FrameIsReading, Constants DEF Reading
<1>3. s.memory <= s.used
  BY <1>1, <1>2, MemoryIsBelievable
<1>4. CASE ~valid
  <2>1. s.busy = 0 /\ s.capacity = 1
    BY <1>1, <1>4
  <2> HIDE DEF s
  <2> QED
    BY <1>3, <2>1, Constants DEF Believable
<1>5. CASE valid /\ cur.starts = pre.starts
  <2>1. cur = Frame /\ pre.read > 0 /\ now > pre.read /\ Frame.read = now /\ Frame.used = used
        /\ pre.starts = starts
    <3>1. ~(cur = pre /\ pre.read = 0)
      <4> SUFFICES ASSUME cur = pre, pre.read = 0 PROVE FALSE
        OBVIOUS
      <4>1. cur.cpus = 0
        BY DEF Reading
      <4> QED
        BY <1>5, <4>1
    <3>2. cur = Frame /\ pre.read > 0 /\ now > pre.read
      BY <3>1
    <3>3. Frame.read # 0
      <4> SUFFICES ASSUME Frame.read = 0 PROVE FALSE
        OBVIOUS
      <4>1. Frame.cpus = 0
        BY FrameIsReading DEF Reading
      <4> QED
        BY <1>5, <3>2, <4>1
    <3> QED
      BY <1>5, <3>2, <3>3, FrameIsReading
  <2>2. Frame.cpus = CPUs
    BY <2>1, FrameIsReading DEF Reading, Counters
  <2>3. cpuDelta = used - pre.used /\ pre.used <= used
    BY <1>2, <2>1, MinusIsDifference DEF Reading
  <2>4. systemDelta = (now - pre.read) * CPUs
    <3>1. pre.read \in Nat /\ now \in Nat /\ now <= MaxTime /\ CPUs \in Nat /\ MaxTime \in Nat
      BY <2>1, Constants DEF Reading, Counters
    <3>2. /\ pre.read * CPUs \in Nat /\ now * CPUs \in Nat /\ pre.read * CPUs <= now * CPUs
          /\ now * CPUs - pre.read * CPUs = (now - pre.read) * CPUs
      BY <2>1, <3>1, TimesGrows
    <3>3. now * CPUs < Word
      BY <3>1, Constants, TimesGrows
    <3> QED
      BY <2>1, <3>2, <3>3, MinusIsDifference
  <2>5. used - pre.used \in Nat /\ (now - pre.read) * CPUs \in Nat /\ CPUs \in Nat
        /\ used - pre.used <= (now - pre.read) * CPUs
    BY <2>1, <2>3, Constants DEF Reading, Counters
  <2>6. (used - pre.used) * CPUs <= ((now - pre.read) * CPUs) * CPUs
    BY <2>5, TimesGrows
  <2>7. s.busy = (used - pre.used) * CPUs /\ s.capacity = (now - pre.read) * CPUs
    BY <1>1, <1>5, <2>1, <2>2, <2>3, <2>4
  <2> HIDE DEF s
  <2> QED
    BY <1>3, <2>6, <2>7 DEF Believable
<1>6. CASE cur.starts # pre.starts
  BY <1>1, <1>3, <1>6 DEF Believable
<1> QED
  BY <1>4, <1>5, <1>6

LEMMA TruthfulInit == Init => Truthful
<1> SUFFICES ASSUME Init PROVE Truthful
  OBVIOUS
<1>1. Counters
  BY Constants DEF Init, Counters
<1>2. Len(file) = 0
  BY EmptySeq DEF Init
<1> QED
  BY <1>1, <1>2 DEF Init, Process, At, Truthful

(* The world goes on, and the readings stay what they are.                 *)
LEMMA TruthfulWorld ==
  ASSUME Inv, Truthful, UNCHANGED file, Counters',
         \A m \in Monitors :
           monitor'[m].pc = monitor[m].pc /\ monitor'[m].frame = monitor[m].frame
             /\ monitor'[m].sample = monitor[m].sample,
         \A f : Reading(f) => Reading(f)'
  PROVE  Truthful'
BY DEF Truthful, At, Believable

LEMMA TruthfulSecond == ASSUME Inv, Truthful, Second PROVE Truthful'
<1>1. PICK busy \in IF container = "running" THEN Loads[now] ELSE {0} : used' = used + busy
  BY DEF Second
<1>2. now < MaxTime /\ now' = now + 1 /\ starts' = starts /\ file' = file
  BY DEF Second, disk
<1>3. now \in Nat /\ 1 <= now /\ starts \in Nat /\ used \in Nat /\ used <= (now - 1) * CPUs
  BY DEF Truthful, Counters
<1>4. busy \in Nat /\ busy <= CPUs /\ CPUs \in Nat /\ MaxTime \in Nat
  <2>1. now \in 1 .. MaxTime
    BY <1>2, <1>3, Constants
  <2>2. Loads[now] \subseteq 0 .. CPUs
    BY <2>1, MonitorAssumption
  <2> QED
    BY <1>1, <2>2, Constants
<1>5. Counters'
  <2>1. (now' - 1) * CPUs = (now - 1) * CPUs + CPUs
    BY <1>2, <1>3, <1>4
  <2>2. (now - 1) * CPUs \in Nat
    BY <1>3, <1>4
  <2> QED
    BY <1>1, <1>2, <1>3, <1>4, <2>1, <2>2 DEF Counters
<1>6. ASSUME NEW f, Reading(f) PROVE Reading(f)'
  <2>1. CASE f.read > 0 /\ f.starts = starts
    <3>1. f.read \in Nat /\ f.read <= now /\ f.used \in Nat /\ f.used <= used
          /\ used <= f.used + (now - f.read) * CPUs
      BY <1>6, <2>1 DEF Reading
    <3>2. (now' - f.read) * CPUs = (now - f.read) * CPUs + CPUs /\ (now - f.read) * CPUs \in Nat
      BY <1>2, <1>3, <1>4, <3>1
    <3>3. f.used <= used' /\ used' <= f.used + (now' - f.read) * CPUs
      BY <1>1, <1>3, <1>4, <3>1, <3>2
    <3> QED
      BY <1>2, <1>3, <1>6, <3>3 DEF Reading
  <2>2. CASE ~(f.read > 0 /\ f.starts = starts)
    BY <1>2, <1>3, <1>6, <2>2 DEF Reading
  <2> QED
    BY <2>1, <2>2
<1>7. ASSUME NEW m \in Monitors
      PROVE  monitor'[m].pc = monitor[m].pc /\ monitor'[m].frame = monitor[m].frame
               /\ monitor'[m].sample = monitor[m].sample
  <2>1. monitor' = [o \in Monitors |-> [monitor[o] EXCEPT !.ticked = @ \/ InLoop(o)]]
    BY DEF Second
  <2>2. DOMAIN monitor[m] = Fields
    BY DEF Inv, Shape
  <2> QED
    BY <2>1, <2>2 DEF Fields
<1> QED
  BY <1>2, <1>5, <1>6, <1>7, TruthfulWorld

LEMMA TruthfulContainer ==
  ASSUME Inv, Truthful, ContainerStops \/ ContainerStarts
  PROVE  Truthful'
<1>1. UNCHANGED <<now, file, monitor>>
  BY DEF ContainerStops, ContainerStarts, disk
<1>2. \/ UNCHANGED <<used, starts>>
      \/ used' = 0 /\ starts' = starts + 1
  BY DEF ContainerStops, ContainerStarts
<1>3. Counters' /\ \A f : Reading(f) => Reading(f)'
  <2>1. now \in Nat /\ 1 <= now /\ CPUs \in Nat /\ (now - 1) * CPUs \in Nat /\ starts \in Nat
    BY Constants DEF Truthful, Counters
  <2> QED
    BY <1>1, <1>2, <2>1 DEF Truthful, Counters, Reading
<1> QED
  BY <1>1, <1>3, TruthfulWorld

(* One monitor does something, and the world does not.                     *)
LEMMA TruthfulTurn ==
  ASSUME Inv, Truthful, NEW m \in Monitors, UNCHANGED <<now, used, starts>>,
         \A o \in Monitors \ {m} : monitor'[o] = monitor[o],
         At(m, "asked")' => Reading(monitor'[m].frame),
         At(m, "write")' => Believable(monitor'[m].sample),
         \/ file' = file
         \/ \E line : /\ file' = Append(file, line)
                      /\ line.kind = "row" => Believable(line.sample)
  PROVE  Truthful'
<1>1. Counters' /\ \A f : Reading(f)' <=> Reading(f)
  BY DEF Truthful, Counters, Reading
<1>2. ASSUME NEW o \in Monitors
      PROVE  (At(o, "asked") => Reading(monitor[o].frame))'
             /\ (At(o, "write") => Believable(monitor[o].sample))'
  <2>1. Reading(monitor[o].frame)' <=> Reading(monitor'[o].frame)
    BY <1>1 DEF Reading
  <2>2. Believable(monitor[o].sample)' <=> Believable(monitor'[o].sample)
    BY DEF Believable
  <2>3. CASE o = m
    BY <2>1, <2>2, <2>3
  <2>4. CASE o # m
    <3>1. monitor'[o] = monitor[o]
      BY <2>4
    <3> QED
      BY <2>1, <2>2, <3>1 DEF Truthful, At
  <2> QED
    BY <2>3, <2>4
<1>3. ASSUME NEW k \in 1 .. Len(file'), file'[k].kind = "row" PROVE Believable(file'[k].sample)
  <2>1. CASE file' = file
    BY <1>3, <2>1 DEF Truthful
  <2>2. ASSUME NEW line, file' = Append(file, line), line.kind = "row" => Believable(line.sample)
        PROVE  Believable(file'[k].sample)
    <3>1. /\ Len(file) \in Nat /\ Len(file') = Len(file) + 1 /\ file'[Len(file) + 1] = line
          /\ \A i \in 1 .. Len(file) : file'[i] = file[i]
      BY <2>2, AppendTo DEF Inv, Shape, Contents
    <3>2. CASE k \in 1 .. Len(file)
      BY <1>3, <3>1, <3>2 DEF Truthful
    <3>3. CASE k = Len(file) + 1
      BY <1>3, <2>2, <3>1, <3>3
    <3> QED
      BY <3>1, <3>2, <3>3
  <2> QED
    BY <2>1, <2>2
<1>4. \A k \in 1 .. Len(file') : (file[k].kind = "row" => Believable(file[k].sample))'
  BY <1>3 DEF Believable
<1> QED
  BY <1>1, <1>2, <1>4 DEF Truthful

LEMMA TruthfulQuiet ==
  ASSUME Inv, Truthful, NEW m \in Monitors,
         \/ Start(m) \/ Version(m) \/ Resolve(m) \/ ResolveCancelled(m) \/ Stat(m) \/ Open(m)
         \/ WriteHeader(m) \/ CollectFails(m) \/ CollectNotFound(m) \/ CollectCancelled(m)
         \/ WriteFails(m) \/ WriteRefused(m) \/ Stop(m) \/ Kill(m)
  PROVE  Truthful'
<1>1. UNCHANGED <<now, used, starts>>
  BY DEF Start, Version, Resolve, ResolveCancelled, Stat, Open, WriteHeader, CollectFails,
         CollectNotFound, CollectCancelled, WriteFails, WriteRefused, Stop, Kill, GiveUp, Discard,
         world
<1>2. \/ file' = file
      \/ \E line : file' = Append(file, line) /\ (line.kind = "row" => Believable(line.sample))
  <2>1. Header.kind # "row" /\ Torn(m).kind # "row"
    BY DEF Header, Torn
  <2>2. file' = file \/ file' = Append(file, Header) \/ file' = Append(file, Torn(m))
    BY DEF Start, Version, Resolve, ResolveCancelled, Stat, Open, WriteHeader, CollectFails,
           CollectNotFound, CollectCancelled, WriteFails, WriteRefused, Stop, Kill, GiveUp, Discard,
           FailedWrite, disk
  <2> HIDE DEF Header, Torn
  <2> QED
    BY <2>1, <2>2
<1>3. \A o \in Monitors \ {m} : monitor'[o] = monitor[o]
  BY DEF Start, Version, Resolve, ResolveCancelled, Stat, Open, WriteHeader, CollectFails,
         CollectNotFound, CollectCancelled, WriteFails, WriteRefused, Stop, Kill, GiveUp, Discard,
         End, Inv, Shape
<1>4. monitor'[m].pc \notin {"asked", "write"}
  <2>1. CASE End(m) \/ Start(m)
    BY <2>1 DEF End, Start, Process, Inv, Shape
  <2>2. CASE ~(End(m) \/ Start(m))
    BY <2>2 DEF Version, Resolve, ResolveCancelled, Stat, Open, WriteHeader, CollectFails,
         CollectNotFound, CollectCancelled, WriteFails, WriteRefused, Stop, Kill, GiveUp, Discard,
         Inv, Shape, Fields
  <2> QED
    BY <2>1, <2>2
<1> QED
  BY <1>1, <1>2, <1>3, <1>4, TruthfulTurn DEF At

LEMMA TruthfulSignal == ASSUME Inv, Truthful, NEW m \in Monitors, Signal(m) PROVE Truthful'
<1>1. UNCHANGED <<now, used, starts, file>> /\ monitor' = [monitor EXCEPT ![m].cancelled = TRUE]
  BY DEF Signal, world, disk
<1>2. \A o \in Monitors \ {m} : monitor'[o] = monitor[o]
  BY <1>1 DEF Inv, Shape
<1>3. /\ monitor'[m].pc = monitor[m].pc /\ monitor'[m].frame = monitor[m].frame
      /\ monitor'[m].sample = monitor[m].sample
  BY <1>1 DEF Inv, Shape, Fields
<1> QED
  BY <1>1, <1>2, <1>3, TruthfulTurn DEF Truthful, At

LEMMA TruthfulAsk == ASSUME Inv, Truthful, NEW m \in Monitors, Ask(m) PROVE Truthful'
<1> DEFINE f == Frame
<1>1. /\ UNCHANGED <<now, used, starts, file>>
      /\ monitor' = [monitor EXCEPT ![m].pc = "asked", ![m].ticked = FALSE, ![m].frame = f]
  BY DEF Ask, world, disk
<1>2. Reading(f)
  BY FrameIsReading DEF Truthful
<1> HIDE DEF f
<1>3. \A o \in Monitors \ {m} : monitor'[o] = monitor[o]
  BY <1>1 DEF Inv, Shape
<1>4. monitor'[m].pc = "asked" /\ monitor'[m].frame = f
  BY <1>1 DEF Inv, Shape, Fields
<1> QED
  BY <1>1, <1>2, <1>3, <1>4, TruthfulTurn DEF At

LEMMA TruthfulCollect == ASSUME Inv, Truthful, NEW m \in Monitors, Collect(m) PROVE Truthful'
<1> DEFINE pre == monitor[m].frame
           cur == IF pre.read > 0 THEN Frame ELSE pre
           s == Measured(pre, cur)
<1>1. /\ UNCHANGED <<now, used, starts, file>> /\ At(m, "asked") /\ (pre.read > 0 => now > pre.read)
      /\ monitor' = [monitor EXCEPT ![m].pc = "write", ![m].frame = None, ![m].sample = s]
  BY DEF Collect, world, disk
<1>2. Reading(pre) /\ Counters
  BY <1>1 DEF Truthful
<1>3. \/ cur = pre /\ pre.read = 0
      \/ cur = Frame /\ pre.read > 0 /\ now > pre.read
  BY <1>1, <1>2 DEF Reading
<1> HIDE DEF pre, cur
<1>4. Believable(s)
  BY <1>2, <1>3, MeasuredIsBelievable
<1> HIDE DEF s
<1>5. \A o \in Monitors \ {m} : monitor'[o] = monitor[o]
  BY <1>1 DEF Inv, Shape
<1>6. monitor'[m].pc = "write" /\ monitor'[m].sample = s
  BY <1>1 DEF Inv, Shape, Fields
<1> QED
  BY <1>1, <1>4, <1>5, <1>6, TruthfulTurn DEF At

LEMMA TruthfulWriteRow == ASSUME Inv, Truthful, NEW m \in Monitors, WriteRow(m) PROVE Truthful'
<1> DEFINE line == Row(m)
<1>1. /\ UNCHANGED <<now, used, starts>> /\ At(m, "write") /\ file' = Append(file, line)
      /\ monitor' = [monitor EXCEPT
           ![m].pc = "select", ![m].previous = monitor[m].sample, ![m].sample = None]
  BY DEF WriteRow, world
<1>2. Believable(line.sample)
  <2>1. line.sample = monitor[m].sample
    BY DEF Row
  <2> HIDE DEF line
  <2> QED
    BY <1>1, <2>1 DEF Truthful
<1> HIDE DEF line
<1>3. \A o \in Monitors \ {m} : monitor'[o] = monitor[o]
  BY <1>1 DEF Inv, Shape
<1>4. monitor'[m].pc = "select"
  BY <1>1 DEF Inv, Shape, Fields
<1> QED
  BY <1>1, <1>2, <1>3, <1>4, TruthfulTurn DEF At

LEMMA TruthfulStep == Inv /\ Truthful /\ [Next]_vars => Truthful'
<1> SUFFICES ASSUME Inv, Truthful, [Next]_vars PROVE Truthful'
  OBVIOUS
<1>1. CASE UNCHANGED vars
  <2>1. UNCHANGED <<now, used, starts, file, monitor>>
    BY <1>1 DEF vars, world, disk
  <2> QED
    BY <2>1, TruthfulWorld DEF Truthful, Counters, Reading
<1>2. CASE Second \/ ContainerStops \/ ContainerStarts
  BY <1>2, TruthfulSecond, TruthfulContainer
<1>3. ASSUME NEW m \in Monitors, Start(m) \/ Main(m) \/ Answer(m) \/ Signal(m) \/ Kill(m)
      PROVE  Truthful'
  BY <1>3, TruthfulQuiet, TruthfulSignal, TruthfulAsk, TruthfulCollect, TruthfulWriteRow
     DEF Main, Answer
<1> QED
  BY <1>1, <1>2, <1>3 DEF Next

(* CollectOnce (docker_collector.go 76-86, 148) subtracts unsigned         *)
(* counters: as long as the container does not restart between Docker's    *)
(* two readings nothing wraps, however often it stops and starts, so no    *)
(* row claims more than all CPUs; and the memory less its inactive cache   *)
(* never wraps.                                                            *)
THEOREM RowsAreBelievable == Spec => []RowsBelievable
<1>1. Inv /\ Truthful => RowsBelievable
  <2> SUFFICES ASSUME Inv, Truthful, NEW k \in DOMAIN file, file[k].kind = "row"
               PROVE  LET s == file[k].sample IN
                        (s.busy <= s.capacity * CPUs \/ s.restarted) /\ s.memory <= s.used
    BY DEF RowsBelievable
  <2>1. DOMAIN file = 1 .. Len(file)
    BY LenProperties DEF Inv, Shape
  <2> QED
    BY <2>1 DEF Truthful, Believable
<1> QED
  BY <1>1, TruthfulInit, TruthfulStep, InvAlways, PTL DEF Spec

-----------------------------------------------------------------------------
(* What the printed rates say.                                             *)

(* What was read, against what there is: in the same life of the container *)
(* the total has grown by what the counter has, and in a later life by all *)
(* of the counter at least.                                                *)
Past(s) ==
  /\ s.read \in Nat /\ s.used \in Nat /\ s.total \in Nat /\ s.starts \in Nat
  /\ s.read <= now /\ s.total <= total /\ s.starts <= starts
  /\ s.read = 0 => s.used = 0
  /\ s.starts = starts =>
       \/ s.read > 0 /\ s.used <= used /\ total - s.total = used - s.used
       \/ s.read = 0 /\ container # "running"
  /\ s.starts < starts => used <= total - s.total

Delta(p, s) == DeltaRate(s.used, p.used, s.read - p.read)

(* The rate between two samples.                                           *)
Later(p, s) ==
  /\ Delta(p, s) <= s.total - p.total
  /\ s.starts = p.starts /\ s.read > 0 /\ p.read > 0 => Delta(p, s) = s.total - p.total

(* What a monitor has read, and has yet to write.                          *)
Holds(m) ==
  /\ At(m, "asked") => Past(monitor[m].frame)
  /\ At(m, "write") => monitor[m].sample \in Samples /\ Past(monitor[m].sample)
  /\ InLoop(m) /\ monitor[m].previous # None =>
       /\ Past(monitor[m].previous)
       /\ At(m, "asked") =>
            /\ monitor[m].previous.total <= monitor[m].frame.total
            /\ monitor[m].frame.read > 0 =>
                 monitor[m].previous.read <= monitor[m].frame.read
       /\ At(m, "write") => Later(monitor[m].previous, monitor[m].sample)

(* previous is the last row that a monitor wrote, also if later ones were  *)
(* lost.                                                                   *)
Remembers(m) ==
  /\ ~InLoop(m) /\ ~At(m, "ended") => monitor[m].previous = None /\ RowsOf(m) = {}
  /\ InLoop(m) /\ monitor[m].previous = None => RowsOf(m) = {}
  /\ InLoop(m) /\ monitor[m].previous # None =>
       \E k : LastOf(k, RowsOf(m)) /\ file[k].sample = monitor[m].previous

Rated ==
  /\ total \in Nat
  /\ \A m \in Monitors : Holds(m) /\ Remembers(m)
  /\ RatesTrue

(* Rows that are there stay what they are.                                 *)
LEMMA RowsKept ==
  ASSUME Inv, NEW line, file' = Append(file, line),
         NEW o, line.kind # "row" \/ line.by # o
  PROVE  RowsOf(o)' = RowsOf(o) /\ \A k \in RowsOf(o) : file'[k] = file[k]
<1>1. /\ Len(file) \in Nat /\ Len(file') = Len(file) + 1 /\ file'[Len(file) + 1] = line
      /\ \A i \in 1 .. Len(file) : file'[i] = file[i]
      /\ DOMAIN file = 1 .. Len(file) /\ DOMAIN file' = 1 .. Len(file')
  BY AppendTo, LenProperties DEF Inv, Shape, Contents
<1>2. ASSUME NEW k \in 1 .. Len(file')
      PROVE  (file'[k].kind = "row" /\ file'[k].by = o)
               <=> (k \in 1 .. Len(file) /\ file[k].kind = "row" /\ file[k].by = o)
  <2>1. CASE k \in 1 .. Len(file)
    BY <1>1, <2>1
  <2>2. CASE k = Len(file) + 1
    BY <1>1, <2>2
  <2> QED
    BY <1>1, <2>1, <2>2
<1>3. 1 .. Len(file) \subseteq 1 .. Len(file')
  BY <1>1
<1> QED
  BY <1>1, <1>2, <1>3 DEF RowsOf

LEMMA RowAdded ==
  ASSUME Inv, NEW line, file' = Append(file, line), NEW m, line.kind = "row", line.by = m
  PROVE  /\ RowsOf(m)' = RowsOf(m) \cup {Len(file) + 1} /\ LastOf(Len(file) + 1, RowsOf(m)')
         /\ Len(file) + 1 \notin RowsOf(m) /\ file'[Len(file) + 1] = line
         /\ \A k \in RowsOf(m) : file'[k] = file[k]
<1>1. /\ Len(file) \in Nat /\ Len(file') = Len(file) + 1 /\ file'[Len(file) + 1] = line
      /\ \A i \in 1 .. Len(file) : file'[i] = file[i]
      /\ DOMAIN file = 1 .. Len(file) /\ DOMAIN file' = 1 .. Len(file')
  BY AppendTo, LenProperties DEF Inv, Shape, Contents
<1>2. ASSUME NEW k \in 1 .. Len(file')
      PROVE  (file'[k].kind = "row" /\ file'[k].by = m)
               <=> \/ k = Len(file) + 1
                   \/ k \in 1 .. Len(file) /\ file[k].kind = "row" /\ file[k].by = m
  <2>1. CASE k \in 1 .. Len(file)
    BY <1>1, <2>1
  <2>2. CASE k = Len(file) + 1
    BY <1>1, <2>2
  <2> QED
    BY <1>1, <2>1, <2>2
<1>3. 1 .. Len(file') = (1 .. Len(file)) \cup {Len(file) + 1} /\ Len(file) + 1 \notin 1 .. Len(file)
  BY <1>1
<1>4. RowsOf(m)' = RowsOf(m) \cup {Len(file) + 1}
  BY <1>1, <1>2, <1>3 DEF RowsOf
<1>5. \A j \in RowsOf(m)' : j <= Len(file) + 1
  BY <1>1 DEF RowsOf
<1> QED
  BY <1>1, <1>3, <1>4, <1>5 DEF LastOf, RowsOf

(* The world goes on.                                                      *)
LEMMA PastWorld ==
  ASSUME Truthful, Rated, Second \/ ContainerStops \/ ContainerStarts
  PROVE  total' \in Nat /\ \A s : Past(s) => Past(s)'
<1>1. total \in Nat /\ used \in Nat /\ now \in Nat /\ starts \in Nat
  BY DEF Truthful, Counters, Rated
<1>2. CASE Second
  <2>1. PICK busy \in IF container = "running" THEN Loads[now] ELSE {0} :
          used' = used + busy /\ total' = total + busy
    BY <1>2 DEF Second
  <2>2. busy \in Nat
    <3>1. now \in 1 .. MaxTime
      BY <1>2, Constants DEF Second, Truthful, Counters
    <3>2. Loads[now] \subseteq 0 .. CPUs
      BY <3>1, MonitorAssumption
    <3> QED
      BY <2>1, <3>2, Constants
  <2>3. now' = now + 1 /\ UNCHANGED <<container, starts>>
    BY <1>2 DEF Second
  <2> QED
    BY <1>1, <2>1, <2>2, <2>3 DEF Past
<1>3. CASE ContainerStops
  <2>1. UNCHANGED <<now, used, total, starts>> /\ container' # "running"
    BY <1>3 DEF ContainerStops
  <2> QED
    BY <1>1, <2>1 DEF Past
<1>4. CASE ContainerStarts
  <2>1. UNCHANGED <<now, total>> /\ used' = 0 /\ starts' = starts + 1
    BY <1>4 DEF ContainerStarts
  <2> QED
    BY <1>1, <2>1 DEF Past
<1> QED
  BY <1>2, <1>3, <1>4

LEMMA RatedWorld ==
  ASSUME Inv, Truthful, Rated, Second \/ ContainerStops \/ ContainerStarts
  PROVE  Rated'
<1>1. UNCHANGED <<file, printed>>
  BY DEF Second, ContainerStops, ContainerStarts, disk
<1>2. ASSUME NEW m \in Monitors
      PROVE  /\ monitor'[m].pc = monitor[m].pc /\ monitor'[m].frame = monitor[m].frame
             /\ monitor'[m].sample = monitor[m].sample
             /\ monitor'[m].previous = monitor[m].previous
  <2>1. CASE monitor' = [o \in Monitors |-> [monitor[o] EXCEPT !.ticked = @ \/ InLoop(o)]]
    <3>1. DOMAIN monitor[m] = Fields
      BY DEF Inv, Shape
    <3> QED
      BY <2>1, <3>1 DEF Fields
  <2> QED
    BY <2>1 DEF Second, ContainerStops, ContainerStarts
<1>3. total' \in Nat /\ \A s : Past(s) => Past(s)'
  BY PastWorld
<1>4. ASSUME NEW m \in Monitors PROVE Holds(m)'
  <2>1. Holds(m)
    BY DEF Rated
  <2> QED
    BY <1>2, <1>3, <2>1 DEF Holds, At, InLoop, Later, Delta
<1>5. ASSUME NEW m \in Monitors PROVE Remembers(m)'
  BY <1>1, <1>2 DEF Rated, Remembers, RowsOf, At, InLoop
<1>6. RatesTrue'
  BY <1>1 DEF Rated, RatesTrue, RowsOf
<1> QED
  BY <1>3, <1>4, <1>5, <1>6 DEF Rated

(* One monitor does something.                                             *)
LEMMA RatedTurn ==
  ASSUME Inv, Rated, NEW m \in Monitors, UNCHANGED <<now, container, used, total, starts>>,
         \A o \in Monitors \ {m} : monitor'[o] = monitor[o],
         Holds(m)', Remembers(m)', RatesTrue',
         \/ file' = file
         \/ \E line : file' = Append(file, line) /\ (line.kind # "row" \/ line.by = m)
  PROVE  Rated'
<1>1. \A s : Past(s)' <=> Past(s)
  BY DEF Past
<1>2. ASSUME NEW o \in Monitors \ {m} PROVE Holds(o)'
  <2>1. monitor'[o] = monitor[o] /\ Holds(o)
    BY DEF Rated
  <2> QED
    BY <1>1, <2>1 DEF Holds, At, InLoop, Later, Delta
<1>3. ASSUME NEW o \in Monitors \ {m} PROVE Remembers(o)'
  <2>1. monitor'[o] = monitor[o] /\ Remembers(o)
    BY DEF Rated
  <2>2. RowsOf(o)' = RowsOf(o) /\ \A k \in RowsOf(o) : file'[k] = file[k]
    <3>1. CASE file' = file
      BY <3>1 DEF RowsOf
    <3>2. ASSUME NEW line, file' = Append(file, line), line.kind # "row" \/ line.by = m
          PROVE  RowsOf(o)' = RowsOf(o) /\ \A k \in RowsOf(o) : file'[k] = file[k]
      BY <3>2, RowsKept
    <3> QED
      BY <3>1, <3>2
  <2> QED
    BY <2>1, <2>2 DEF Remembers, At, InLoop, LastOf
<1> QED
  BY <1>2, <1>3 DEF Rated

(* Nothing is printed, and no row is written.                              *)
LEMMA RatedQuietTurn ==
  ASSUME Inv, Rated, NEW m \in Monitors,
         UNCHANGED <<now, container, used, total, starts, printed>>,
         \A o \in Monitors \ {m} : monitor'[o] = monitor[o],
         Holds(m)',
         \/ file' = file
         \/ \E line : file' = Append(file, line) /\ line.kind # "row",
         \/ monitor'[m].pc = "ended"
         \/ monitor'[m].pc \in Places \ {"ended", "select", "asked", "write"}
              /\ monitor'[m].previous = None /\ RowsOf(m) = {}
         \/ InLoop(m)' /\ monitor'[m].previous = None /\ RowsOf(m) = {}
         \/ InLoop(m)' /\ InLoop(m) /\ monitor'[m].previous = monitor[m].previous
  PROVE  Rated'
<1>1. \A o : RowsOf(o)' = RowsOf(o) /\ \A k \in RowsOf(o) : file'[k] = file[k]
  <2>1. CASE file' = file
    BY <2>1 DEF RowsOf
  <2>2. ASSUME NEW line, file' = Append(file, line), line.kind # "row", NEW o
        PROVE  RowsOf(o)' = RowsOf(o) /\ \A k \in RowsOf(o) : file'[k] = file[k]
    BY <2>2, RowsKept
  <2> QED
    BY <2>1, <2>2
<1>2. Remembers(m)'
  <2>1. Remembers(m)
    BY DEF Rated
  <2> QED
    BY <1>1, <2>1 DEF Remembers, At, InLoop, LastOf
<1>3. RatesTrue'
  <2>1. CASE printed = None
    BY <2>1 DEF RatesTrue
  <2>2. CASE printed # None
    <3> DEFINE o == printed.by
    <3>1. Borne(printed, RowsOf(o), file)
      BY <2>2 DEF Rated, RatesTrue
    <3>2. RowsOf(o)' = RowsOf(o) /\ \A j \in RowsOf(o) : file'[j] = file[j]
      BY <1>1
    <3>3. Borne(printed, RowsOf(o), file')
      BY <3>1, <3>2 DEF Borne, LastOf
    <3> QED
      BY <3>2, <3>3 DEF RatesTrue
  <2> QED
    BY <2>1, <2>2
<1>4. \/ file' = file
      \/ \E line : file' = Append(file, line) /\ (line.kind # "row" \/ line.by = m)
  OBVIOUS
<1> QED
  BY <1>2, <1>3, <1>4, RatedTurn

LEMMA RatedBefore ==
  ASSUME Inv, Rated, NEW m \in Monitors,
         \/ Start(m) \/ Version(m) \/ Resolve(m) \/ ResolveCancelled(m) \/ Stat(m) \/ Open(m)
         \/ WriteHeader(m) \/ Stop(m) \/ Kill(m)
  PROVE  Rated'
<1>1. UNCHANGED <<now, container, used, total, starts, printed>>
  BY DEF Start, Version, Resolve, ResolveCancelled, Stat, Open, WriteHeader, Stop, Kill, world
<1>2. \/ file' = file
      \/ \E line : file' = Append(file, line) /\ line.kind # "row"
  <2>1. Header.kind # "row" /\ Torn(m).kind # "row"
    BY DEF Header, Torn
  <2>2. file' = file \/ file' = Append(file, Header) \/ file' = Append(file, Torn(m))
    BY DEF Start, Version, Resolve, ResolveCancelled, Stat, Open, WriteHeader, Stop, Kill,
           FailedWrite, disk
  <2> HIDE DEF Header, Torn
  <2> QED
    BY <2>1, <2>2
<1>3. \A o \in Monitors \ {m} : monitor'[o] = monitor[o]
  BY DEF Start, Version, Resolve, ResolveCancelled, Stat, Open, WriteHeader, Stop, Kill, End, Inv,
     Shape
<1>4. CASE End(m)
  <2>1. monitor'[m].pc = "ended"
    BY <1>4 DEF End, Process, Inv, Shape
  <2>2. Holds(m)'
    BY <2>1 DEF Holds, At, InLoop
  <2> QED
    BY <1>1, <1>2, <1>3, <2>1, <2>2, RatedQuietTurn
<1>5. CASE ~End(m)
  <2>1. ~InLoop(m) /\ ~At(m, "ended")
    BY <1>5 DEF Start, Version, Resolve, ResolveCancelled, Stat, Open, WriteHeader, Stop, Kill, At,
       InLoop
  <2>2. monitor[m].previous = None /\ RowsOf(m) = {}
    BY <2>1 DEF Rated, Remembers
  <2>3. /\ monitor'[m].previous = None
        /\ monitor'[m].pc \in Places \ {"ended", "asked", "write"}
    <3>1. CASE Start(m)
      BY <3>1 DEF Start, Process, Inv, Shape, Places
    <3>2. CASE ~Start(m)
      BY <1>5, <2>2, <3>2 DEF Version, Resolve, ResolveCancelled, Stat, Open, WriteHeader, Stop,
         Kill, Inv, Shape, Fields, Places
    <3> QED
      BY <3>1, <3>2
  <2>4. Holds(m)'
    BY <2>3 DEF Holds, At
  <2>5. \/ monitor'[m].pc \in Places \ {"ended", "select", "asked", "write"}
        \/ InLoop(m)'
    BY <2>3 DEF InLoop
  <2> QED
    BY <1>1, <1>2, <1>3, <2>2, <2>3, <2>4, <2>5, RatedQuietTurn
<1> QED
  BY <1>4, <1>5

LEMMA RatedGivenUp ==
  ASSUME Inv, Rated, NEW m \in Monitors,
         CollectFails(m) \/ CollectNotFound(m) \/ CollectCancelled(m) \/ WriteFails(m)
           \/ WriteRefused(m)
  PROVE  Rated'
<1>1. UNCHANGED <<now, container, used, total, starts, printed>> /\ InLoop(m)
  BY DEF CollectFails, CollectNotFound, CollectCancelled, WriteFails, WriteRefused, GiveUp, Discard,
         world, InLoop, At
<1>2. \/ file' = file
      \/ \E line : file' = Append(file, line) /\ line.kind # "row"
  <2>1. Torn(m).kind # "row"
    BY DEF Torn
  <2>2. file' = file \/ file' = Append(file, Torn(m))
    BY DEF CollectFails, CollectNotFound, CollectCancelled, WriteFails, WriteRefused, GiveUp,
           FailedWrite, disk
  <2> HIDE DEF Torn
  <2> QED
    BY <2>1, <2>2
<1>3. \A o \in Monitors \ {m} : monitor'[o] = monitor[o]
  BY DEF CollectFails, CollectNotFound, CollectCancelled, WriteFails, WriteRefused, GiveUp, Discard,
         Inv, Shape
<1>4. monitor'[m].pc = "select" /\ monitor'[m].previous = monitor[m].previous
  BY DEF CollectFails, CollectNotFound, CollectCancelled, WriteFails, WriteRefused, GiveUp, Discard,
         Inv, Shape, Fields
<1>5. Holds(m)'
  <2>1. \A s : Past(s)' <=> Past(s)
    BY <1>1 DEF Past
  <2> QED
    BY <1>1, <1>4, <2>1 DEF Rated, Holds, At, InLoop
<1>6. InLoop(m)'
  BY <1>4 DEF InLoop
<1> QED
  BY <1>1, <1>2, <1>3, <1>4, <1>5, <1>6, RatedQuietTurn

LEMMA RatedSignal == ASSUME Inv, Rated, NEW m \in Monitors, Signal(m) PROVE Rated'
<1>1. /\ UNCHANGED <<now, container, used, total, starts, printed, file>>
      /\ monitor' = [monitor EXCEPT ![m].cancelled = TRUE] /\ monitor[m].pc # "ended"
  BY DEF Signal, Alive, world, disk
<1>2. \A o \in Monitors \ {m} : monitor'[o] = monitor[o]
  BY <1>1 DEF Inv, Shape
<1>3. /\ monitor'[m].pc = monitor[m].pc /\ monitor'[m].frame = monitor[m].frame
      /\ monitor'[m].sample = monitor[m].sample /\ monitor'[m].previous = monitor[m].previous
      /\ monitor[m].pc \in Places
  BY <1>1 DEF Inv, Shape, Fields
<1>4. Holds(m)'
  <2>1. \A s : Past(s)' <=> Past(s)
    BY <1>1 DEF Past
  <2>2. Holds(m)
    BY DEF Rated
  <2> QED
    BY <1>3, <2>1, <2>2 DEF Holds, At, InLoop, Later, Delta
<1>5. Remembers(m)
  BY DEF Rated
<1>6. \/ InLoop(m)' /\ InLoop(m)
      \/ /\ monitor'[m].pc \in Places \ {"ended", "select", "asked", "write"}
         /\ monitor'[m].previous = None /\ RowsOf(m) = {}
  BY <1>1, <1>3, <1>5 DEF Remembers, InLoop, At
<1> QED
  BY <1>1, <1>2, <1>3, <1>4, <1>6, RatedQuietTurn

-----------------------------------------------------------------------------
(* What is read now, as what it will be compared with later.               *)
LEMMA FrameIsPast ==
  ASSUME Counters, total \in Nat
  PROVE  Past(Frame) /\ Frame.total = total /\ (Frame.read = 0 \/ Frame.read = now)
<1>1. Frame.total = total /\ Frame.starts = starts
  BY DEF Frame
<1>2. CASE container = "running"
  <2>1. Frame.read = now /\ Frame.used = used
    BY <1>2 DEF Frame
  <2> HIDE DEF Frame
  <2> QED
    BY <1>1, <2>1 DEF Past, Counters
<1>3. CASE container # "running"
  <2>1. Frame.read = 0 /\ Frame.used = 0
    BY <1>3 DEF Frame
  <2> QED
    BY <1>1, <1>3, <2>1 DEF Past, Counters
<1> QED
  BY <1>2, <1>3

(* A rate against something older than now.                                *)
LEMMA NowIsLater ==
  ASSUME Counters, total \in Nat, NEW p, Past(p), p.read < now, NEW s,
         s.read = Frame.read, s.used = Frame.used, s.total = total, s.starts = starts
  PROVE  Later(p, s)
<1>1. /\ p.read \in Nat /\ p.used \in Nat /\ p.total \in Nat /\ p.starts \in Nat
      /\ p.total <= total /\ p.starts <= starts
      /\ used \in Nat /\ now \in Nat /\ starts \in Nat /\ 1 <= now
  BY DEF Past, Counters
<1>2. CASE container = "running"
  <2>1. s.read = now /\ s.used = used
    BY <1>2 DEF Frame
  <2>2. used < Word
    BY <1>1, <1>2, FrameIsReading DEF Frame
  <2>3. now - p.read > 0
    BY <1>1
  <2>4. Delta(p, s) = IF used < p.used THEN 0 ELSE used - p.used
    <3>1. Delta(p, s) = IF used < p.used THEN 0 ELSE Minus(used, p.used)
      BY <1>1, <2>1, <2>3 DEF Delta, DeltaRate
    <3>2. ~(used < p.used) => Minus(used, p.used) = used - p.used
      BY <1>1, <2>2, MinusIsDifference
    <3> QED
      BY <3>1, <3>2
  <2>5. CASE p.starts = starts
    <3>1. p.used <= used /\ total - p.total = used - p.used
      BY <1>2, <2>5 DEF Past
    <3>2. Delta(p, s) = used - p.used
      BY <1>1, <2>4, <3>1
    <3> QED
      BY <1>1, <3>1, <3>2 DEF Later
  <2>6. CASE p.starts < starts
    <3>1. used <= total - p.total
      BY <2>6 DEF Past
    <3>2. Delta(p, s) <= total - p.total /\ s.starts # p.starts
      BY <1>1, <2>4, <2>6, <3>1
    <3> QED
      BY <3>2 DEF Later
  <2> QED
    BY <1>1, <2>5, <2>6
<1>3. CASE container # "running"
  <2>1. s.read = 0 /\ s.used = 0
    BY <1>3 DEF Frame
  <2>2. 0 - p.read <= 0
    BY <1>1
  <2>3. Delta(p, s) = 0
    BY <2>1, <2>2 DEF Delta, DeltaRate
  <2> QED
    BY <1>1, <2>1, <2>3 DEF Later
<1> QED
  BY <1>2, <1>3

LEMMA RatedAsk == ASSUME Inv, Truthful, Rated, NEW m \in Monitors, Ask(m) PROVE Rated'
<1> DEFINE f == Frame
<1>1. /\ UNCHANGED <<now, container, used, total, starts, printed, file>> /\ At(m, "select")
      /\ monitor' = [monitor EXCEPT ![m].pc = "asked", ![m].ticked = FALSE, ![m].frame = f]
  BY DEF Ask, world, disk
<1>2. Past(f) /\ f.total = total /\ (f.read = 0 \/ f.read = now)
  BY FrameIsPast DEF Truthful, Rated
<1> HIDE DEF f
<1>3. \A o \in Monitors \ {m} : monitor'[o] = monitor[o]
  BY <1>1 DEF Inv, Shape
<1>4. /\ monitor'[m].pc = "asked" /\ monitor'[m].frame = f
      /\ monitor'[m].previous = monitor[m].previous
  BY <1>1 DEF Inv, Shape, Fields
<1>5. InLoop(m) /\ InLoop(m)'
  BY <1>1, <1>4 DEF InLoop, At
<1>6. Holds(m)'
  <2>1. \A s : Past(s)' <=> Past(s)
    BY <1>1 DEF Past
  <2>2. monitor[m].previous # None => Past(monitor[m].previous)
    BY <1>5 DEF Rated, Holds
  <2>3. monitor[m].previous # None =>
          /\ monitor[m].previous.total <= f.total
          /\ f.read > 0 => monitor[m].previous.read <= f.read
    BY <1>2, <2>2 DEF Past
  <2> QED
    BY <1>2, <1>4, <2>1, <2>2, <2>3 DEF Holds, At
<1> QED
  BY <1>1, <1>3, <1>4, <1>5, <1>6, RatedQuietTurn

LEMMA SampleType ==
  ASSUME Counters, NEW pre, Past(pre), Reading(pre), NEW cur,
         cur = pre \/ (cur = Frame /\ total \in Nat)
  PROVE  Measured(pre, cur) \in Samples
<1> DEFINE cpuDelta == Minus(cur.used, pre.used)
           systemDelta == Minus(cur.read * CPUs, pre.read * CPUs)
           valid == cpuDelta > 0 /\ systemDelta > 0 /\ cur.cpus > 0
<1>1. Word \in Nat \ {0} /\ CPUs \in Nat
  BY Constants
<1>2. \A x, y \in Nat : Minus(x, y) \in Nat
  BY <1>1 DEF Minus
<1>3. /\ cur.read \in Nat /\ cur.used \in Nat /\ cur.total \in Nat /\ cur.starts \in Nat
      /\ cur.cpus \in Nat /\ pre.used \in Nat /\ pre.read \in Nat
  <2>1. Past(cur) /\ Reading(cur)
    BY FrameIsPast, FrameIsReading
  <2> QED
    BY <1>1, <2>1 DEF Past, Reading
<1>4. cpuDelta \in Nat /\ systemDelta \in Nat
  <2>1. cur.read * CPUs \in Nat /\ pre.read * CPUs \in Nat
    BY <1>1, <1>3
  <2>2. Minus(cur.read * CPUs, pre.read * CPUs) \in Nat
    BY <1>2, <2>1, Zenon
  <2> QED
    BY <1>2, <1>3, <2>2, Zenon
<1>5. MemoryUsage(cur.used) \in Nat
  BY <1>2, <1>3, Constants DEF MemoryUsage
<1>6. cpuDelta * cur.cpus \in Nat
  BY <1>3, <1>4
<1> HIDE DEF cpuDelta, systemDelta
<1> QED
  BY <1>3, <1>4, <1>5, <1>6 DEF Measured, Samples, cpuDelta, systemDelta

LEMMA RatedCollect == ASSUME Inv, Truthful, Rated, NEW m \in Monitors, Collect(m) PROVE Rated'
<1> DEFINE pre == monitor[m].frame
           cur == IF pre.read > 0 THEN Frame ELSE pre
           s == Measured(pre, cur)
           p == monitor[m].previous
<1>1. /\ UNCHANGED <<now, container, used, total, starts, printed, file>> /\ At(m, "asked")
      /\ (pre.read > 0 => now > pre.read)
      /\ monitor' = [monitor EXCEPT ![m].pc = "write", ![m].frame = None, ![m].sample = s]
  BY DEF Collect, world, disk
<1>2. /\ Past(pre) /\ Reading(pre) /\ Counters /\ total \in Nat /\ InLoop(m)
      /\ p # None => Past(p) /\ p.total <= pre.total /\ (pre.read > 0 => p.read <= pre.read)
  BY <1>1 DEF Truthful, Rated, Holds, InLoop, At
<1>3. cur = pre \/ cur = Frame
  OBVIOUS
<1>4. s \in Samples
  BY <1>2, <1>3, SampleType
<1>5. s.read = cur.read /\ s.used = cur.used /\ s.total = cur.total /\ s.starts = cur.starts
  BY DEF Measured
<1>6. Past(s)
  <2>1. Past(cur)
    BY <1>2, <1>3, FrameIsPast
  <2> HIDE DEF s, cur
  <2> QED
    BY <1>5, <2>1 DEF Past
<1>7. p # None => Later(p, s)
  <2> SUFFICES ASSUME p # None PROVE Later(p, s)
    OBVIOUS
  <2>1. CASE pre.read > 0
    <3>1. cur = Frame /\ Frame.total = total /\ Frame.starts = starts
      BY <2>1 DEF Frame
    <3>2. p.read < now
      BY <1>1, <1>2, <2>1 DEF Past, Counters
    <3>3. s.read = Frame.read /\ s.used = Frame.used /\ s.total = total /\ s.starts = starts
      BY <1>5, <3>1
    <3> HIDE DEF s, p
    <3> QED
      BY <1>2, <3>2, <3>3, NowIsLater
  <2>2. CASE ~(pre.read > 0)
    <3>1. s.read = 0 /\ s.used = 0 /\ s.total = pre.total
      BY <1>2, <1>5, <2>2 DEF Past
    <3> HIDE DEF s, p
    <3>2. p.read \in Nat /\ p.used \in Nat /\ 0 - p.read <= 0
      BY <1>2 DEF Past
    <3>3. Delta(p, s) = 0
      BY <3>1, <3>2 DEF Delta, DeltaRate
    <3>4. p.total \in Nat /\ pre.total \in Nat /\ p.total <= pre.total
      BY <1>2 DEF Past
    <3> QED
      BY <3>1, <3>3, <3>4 DEF Later
  <2> QED
    BY <2>1, <2>2
<1> HIDE DEF s
<1>8. \A o \in Monitors \ {m} : monitor'[o] = monitor[o]
  BY <1>1 DEF Inv, Shape
<1>9. monitor'[m].pc = "write" /\ monitor'[m].sample = s /\ monitor'[m].previous = p
  BY <1>1 DEF Inv, Shape, Fields
<1>10. InLoop(m)'
  BY <1>9 DEF InLoop
<1>11. Holds(m)'
  <2>1. \A t : Past(t)' <=> Past(t)
    BY <1>1 DEF Past
  <2> QED
    BY <1>2, <1>4, <1>6, <1>7, <1>9, <2>1 DEF Holds, At, Later, Delta
<1> QED
  BY <1>1, <1>2, <1>8, <1>9, <1>10, <1>11, RatedQuietTurn

LEMMA RatedWriteRow == ASSUME Inv, Rated, NEW m \in Monitors, WriteRow(m) PROVE Rated'
<1> DEFINE s == monitor[m].sample
           p == monitor[m].previous
           line == Row(m)
           out == Line(m)
           k == Len(file) + 1
<1>1. /\ UNCHANGED <<now, container, used, total, starts>> /\ At(m, "write")
      /\ file' = Append(file, line) /\ printed' = out
      /\ monitor' = [monitor EXCEPT ![m].pc = "select", ![m].previous = s, ![m].sample = None]
  BY DEF WriteRow, world
<1>2. line.kind = "row" /\ line.by = m /\ line.sample = s
  BY DEF Row
<1>3. out.by = m /\ out.sample = s /\ out.bytes = IF p = None THEN 0 ELSE Delta(p, s)
  BY DEF Line, Rates, Delta
<1>4. /\ s \in Samples /\ s # None /\ Past(s) /\ InLoop(m)
      /\ p # None => Later(p, s)
      /\ p = None => RowsOf(m) = {}
      /\ p # None => \E i : LastOf(i, RowsOf(m)) /\ file[i].sample = p
  <2>1. Holds(m) /\ Remembers(m) /\ InLoop(m)
    BY <1>1 DEF Rated, InLoop, At
  <2> QED
    BY <1>1, <2>1, Constants DEF Holds, Remembers
<1>5. \A o \in Monitors \ {m} : monitor'[o] = monitor[o]
  BY <1>1 DEF Inv, Shape
<1>6. monitor'[m].pc = "select" /\ monitor'[m].previous = s
  BY <1>1 DEF Inv, Shape, Fields
<1> HIDE DEF s, p, line, out
<1>7. /\ RowsOf(m)' = RowsOf(m) \cup {k} /\ LastOf(k, RowsOf(m)')
      /\ k \notin RowsOf(m) /\ file'[k] = line
      /\ \A i \in RowsOf(m) : file'[i] = file[i]
  BY <1>1, <1>2, RowAdded
<1> HIDE DEF k
<1>8. Holds(m)'
  <2>1. \A t : Past(t)' <=> Past(t)
    BY <1>1 DEF Past
  <2> QED
    BY <1>4, <1>6, <2>1 DEF Holds, At
<1>9. Remembers(m)'
  BY <1>2, <1>4, <1>6, <1>7 DEF Remembers, At, InLoop
<1>10. RatesTrue'
  <2> DEFINE earlier == RowsOf(m)' \ {k}
  <2>1. earlier = RowsOf(m) /\ k \in RowsOf(m)' /\ file'[k].sample = s
    BY <1>2, <1>7
  <2>2. earlier = {} => out.bytes = 0
    BY <1>3, <1>4, <2>1 DEF LastOf
  <2>3. ASSUME NEW i \in earlier, LastOf(i, earlier)
        PROVE  /\ out.bytes <= s.total - file'[i].sample.total
               /\ s.starts = file'[i].sample.starts /\ s.read > 0 /\ file'[i].sample.read > 0 =>
                    out.bytes = s.total - file'[i].sample.total
    <3>1. p # None
      BY <1>4, <2>1, <2>3
    <3>2. PICK j : LastOf(j, RowsOf(m)) /\ file[j].sample = p
      BY <1>4, <3>1
    <3>3. i = j
      <4>1. RowsOf(m) \subseteq Nat
        BY LenProperties DEF RowsOf, Inv, Shape
      <4> QED
        BY <2>1, <2>3, <3>2, <4>1 DEF LastOf
    <3>4. file'[i].sample = p
      BY <1>7, <2>1, <2>3, <3>2, <3>3
    <3> QED
      BY <1>3, <1>4, <3>1, <3>4 DEF Later
  <2> HIDE DEF earlier
  <2>4. /\ LastOf(k, RowsOf(m)') /\ file'[k].sample = out.sample
        /\ earlier = {} => out.bytes = 0
        /\ \A i \in earlier : LastOf(i, earlier) =>
             /\ out.bytes <= file'[k].sample.total - file'[i].sample.total
             /\ file'[k].sample.starts = file'[i].sample.starts /\ file'[k].sample.read > 0
                  /\ file'[i].sample.read > 0 =>
                  out.bytes = file'[k].sample.total - file'[i].sample.total
    BY <1>3, <1>7, <2>1, <2>2, <2>3
  <2>5. RowsOf(printed.by)' = RowsOf(m)' /\ printed' = out
    BY <1>1, <1>3
  <2>6. Borne(out, RowsOf(m)', file')
    BY <2>1, <2>4 DEF Borne, earlier
  <2> QED
    BY <2>5, <2>6 DEF RatesTrue
<1>11. \E piece : file' = Append(file, piece) /\ (piece.kind # "row" \/ piece.by = m)
  BY <1>1, <1>2
<1> QED
  BY <1>1, <1>5, <1>8, <1>9, <1>10, <1>11, RatedTurn

LEMMA RatedInit == Init => Rated
<1> SUFFICES ASSUME Init PROVE Rated
  OBVIOUS
<1>1. DOMAIN file = {}
  BY EmptySeq, LenProperties DEF Init
<1>2. \A m \in Monitors : monitor[m].pc = "off" /\ monitor[m].previous = None
  BY DEF Init, Process
<1>3. \A m \in Monitors : Holds(m) /\ Remembers(m)
  BY <1>1, <1>2 DEF Holds, Remembers, At, InLoop, RowsOf
<1> QED
  BY <1>3 DEF Init, Rated, RatesTrue

LEMMA RatedStep == Inv /\ Truthful /\ Rated /\ [Next]_vars => Rated'
<1> SUFFICES ASSUME Inv, Truthful, Rated, [Next]_vars PROVE Rated'
  OBVIOUS
<1>1. CASE UNCHANGED vars
  <2>1. UNCHANGED <<now, container, used, total, starts, file, monitor, printed>>
    BY <1>1 DEF vars, world, disk
  <2> QED
    <3>1. \A m \in Monitors : Holds(m)'
      BY <2>1 DEF Rated, Holds, Past, Later, Delta, At, InLoop
    <3>2. \A m : RowsOf(m)' = RowsOf(m)
      BY <2>1 DEF RowsOf
    <3>3. \A m \in Monitors : Remembers(m)'
      BY <2>1, <3>2 DEF Rated, Remembers, At, InLoop
    <3>4. RowsOf(printed.by)' = RowsOf(printed.by)
      BY <2>1 DEF RowsOf
    <3>5. RatesTrue'
      BY <2>1, <3>4 DEF Rated, RatesTrue
    <3> QED
      BY <2>1, <3>1, <3>3, <3>5 DEF Rated
<1>2. CASE Second \/ ContainerStops \/ ContainerStarts
  BY <1>2, RatedWorld
<1>3. ASSUME NEW m \in Monitors, Start(m) \/ Main(m) \/ Answer(m) \/ Signal(m) \/ Kill(m)
      PROVE  Rated'
  BY <1>3, RatedBefore, RatedGivenUp, RatedSignal, RatedAsk, RatedCollect, RatedWriteRow
     DEF Main, Answer
<1> QED
  BY <1>1, <1>2, <1>3 DEF Next

(* The rates of main.go (94-102, 123-146) compare the last two rows that   *)
(* the monitor wrote: whatever restarts, stops, failures and lost rows lie *)
(* between, they never claim more than the container moved, and in one     *)
(* life of it they are exact.                                              *)
THEOREM RatesAreTrue == Spec => []RatesTrue
<1>1. Rated => RatesTrue
  BY DEF Rated
<1> QED
  BY <1>1, RatedInit, RatedStep, TruthfulInit, TruthfulStep, InvAlways, PTL DEF Spec
=============================================================================
