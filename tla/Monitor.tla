------------------------------- MODULE Monitor ------------------------------
(***************************************************************************)
(* BuChoiPark/metric/src: the monitor that samples a container through     *)
(* Docker, appends a row to a CSV file and prints rates.  Several monitors *)
(* may write to one file, one after the other (a restart) or at once.      *)
(*                                                                         *)
(* One number stands for all that Docker measures of a container (CPU      *)
(* time, block I/O, network bytes, memory); a new start of the container   *)
(* begins at zero again.  Monitors are killed, are told to stop, and meet  *)
(* failures of the daemon and of the disk, at any point.                   *)
(***************************************************************************)
EXTENDS Integers, Sequences

CONSTANTS
  Monitors,    \* processes, each of which runs once
  Word,        \* 2^64: counters are unsigned
  CPUs,        \* online_cpus: what the host's counter gains per second
  Loads,       \* what the container may use in each second
  Inactive,    \* memory.stats["inactive_file"]
  MaxTime,     \* bound on the clock, in polling intervals
  MaxEvents,   \* bound on failures, signals, kills, and what befalls the container
  None

(* What CollectOnce returns, and whether the container restarted between   *)
(* the two readings that it compares.                                      *)
Samples ==
  [read : Nat, used : Nat, total : Nat, starts : Nat, memory : Nat, busy : Nat, capacity : Nat,
   restarted : BOOLEAN]

ASSUME MonitorAssumption ==
  /\ Loads \in [1 .. MaxTime -> SUBSET (0 .. CPUs)]
  /\ CPUs \in Nat \ {0} /\ MaxTime \in Nat /\ MaxEvents \in Nat /\ Inactive \in Nat
  /\ Word \in Nat /\ Word > CPUs * MaxTime
  /\ None \notin Samples

VARIABLES
  now,        \* the clock
  container,  \* running, stopped, or gone with its id
  used,       \* what Docker counts of it
  total,      \* history: the same over all its lives
  starts,     \* history: its lives
  exists,     \* is there an output file
  file,       \* what was appended to it
  monitor,    \* the state of each process
  printed,    \* the last line of printSample
  doubtful,   \* history: the header may be missing, late or twice
  events      \* history: how many of them happened

world == <<now, container, used, total, starts>>
disk == <<exists, file, doubtful>>
vars == <<world, disk, monitor, printed, events>>

Header == [kind |-> "header"]
Torn(m) == [kind |-> "torn", by |-> m]  \* part of a line, without its end
Row(m) == [kind |-> "row", by |-> m, sample |-> monitor[m].sample]

(* pc is the place in main; frame is precpu_stats of the request under     *)
(* way, sample what CollectOnce returned, broken the error that csv.Writer *)
(* keeps, ticked what is in ticker.C, cancelled ctx.                       *)
Process(place) ==
  [pc |-> place, isNewFile |-> FALSE, cancelled |-> FALSE, ticked |-> FALSE,
   frame |-> None, sample |-> None, previous |-> None, broken |-> FALSE]

Init ==
  /\ now = 1 /\ container = "running" /\ used = 0 /\ total = 0 /\ starts = 1
  /\ exists = FALSE /\ file = <<>> /\ doubtful = FALSE
  /\ monitor = [m \in Monitors |-> Process("off")]
  /\ printed = None /\ events = 0

At(m, place) == monitor[m].pc = place
Alive(m) == monitor[m].pc \notin {"off", "ended"}

(* The deferred Close has nothing to write: each row is flushed, or lost.  *)
End(m) == monitor' = [monitor EXCEPT ![m] = Process("ended")]

Event == events < MaxEvents /\ events' = events + 1

-----------------------------------------------------------------------------
(* The container, the clock and the ticker.                                *)

InLoop(m) == monitor[m].pc \in {"select", "asked", "write"}

Second ==
  /\ now < MaxTime /\ \E m \in Monitors : ~At(m, "off")
  /\ now' = now + 1
  /\ \E busy \in IF container = "running" THEN Loads[now] ELSE {0} :
       used' = used + busy /\ total' = total + busy
  /\ monitor' = [m \in Monitors |->
       [monitor[m] EXCEPT !.ticked = @ \/ InLoop(m)]]
  /\ UNCHANGED <<container, starts, disk, printed, events>>

ContainerStops ==
  /\ container = "running" /\ Event
  /\ container' \in {"stopped", "gone"}
  /\ UNCHANGED <<now, used, total, starts, disk, monitor, printed>>

ContainerStarts ==
  /\ container # "gone" /\ Event
  /\ container' = "running" /\ used' = 0 /\ starts' = starts + 1
  /\ UNCHANGED <<now, total, disk, monitor, printed>>

-----------------------------------------------------------------------------
(* main up to its loop: NewDockerCollector, ResolveContainer, NewCSVWriter. *)
Start(m) ==
  /\ At(m, "off")
  /\ monitor' = [monitor EXCEPT ![m] = Process("version")]
  /\ UNCHANGED <<world, disk, printed, events>>

(* An error is as good as an answer, but this request is not bound to ctx. *)
Version(m) ==
  /\ At(m, "version")
  /\ monitor' = [monitor EXCEPT ![m].pc = "resolve"]
  /\ UNCHANGED <<world, disk, printed, events>>

Resolve(m) ==
  /\ At(m, "resolve") /\ ~monitor[m].cancelled
  /\ \/ container # "gone" /\ monitor' = [monitor EXCEPT ![m].pc = "stat"] /\ UNCHANGED events
     \/ container = "gone" /\ End(m) /\ UNCHANGED events
     \/ End(m) /\ Event
  /\ UNCHANGED <<world, disk, printed>>

ResolveCancelled(m) ==
  /\ At(m, "resolve") /\ monitor[m].cancelled
  /\ End(m)
  /\ UNCHANGED <<world, disk, printed, events>>

(* The header is written on every start.                                   *)
StatNever(m) ==
  /\ At(m, "stat")
  /\ monitor' = [monitor EXCEPT ![m].pc = "open", ![m].isNewFile = TRUE]
  /\ UNCHANGED <<world, disk, printed, events>>

Stat(m) ==
  /\ At(m, "stat")
  /\ monitor' = [monitor EXCEPT ![m].pc = "open", ![m].isNewFile = ~exists]
  /\ UNCHANGED <<world, disk, printed, events>>

Open(m) ==
  /\ At(m, "open")
  /\ \/ /\ exists' = TRUE
        /\ monitor' = [monitor EXCEPT
             ![m].pc = IF monitor[m].isNewFile THEN "header" ELSE "select", ![m].isNewFile = FALSE]
        /\ doubtful' = (doubtful \/ \E o \in Monitors \ {m} : At(o, "open") \/ At(o, "header"))
        /\ UNCHANGED events
     \/ End(m) /\ Event /\ UNCHANGED <<exists, doubtful>>
  /\ UNCHANGED <<world, file, printed>>

(* A write that fails may have written a part.                             *)
FailedWrite(m) == file' \in {file, Append(file, Torn(m))}

WriteHeader(m) ==
  /\ At(m, "header")
  /\ \/ /\ file' = Append(file, Header)
        /\ monitor' = [monitor EXCEPT ![m].pc = "select"]
        /\ UNCHANGED <<doubtful, events>>
     \/ FailedWrite(m) /\ End(m) /\ Event /\ doubtful' = TRUE
  /\ UNCHANGED <<world, exists, printed>>

-----------------------------------------------------------------------------
(* CollectOnce.  Docker reads the counters when it gets the request, and a *)
(* second later again; of a container that does not run it has nothing.    *)
Frame ==
  LET running == container = "running" IN
  [read |-> IF running THEN now ELSE 0, used |-> IF running THEN used ELSE 0,
   cpus |-> IF running THEN CPUs ELSE 0, total |-> total, starts |-> starts]

Ask(m) ==
  /\ At(m, "select") /\ monitor[m].ticked
  /\ monitor' = [monitor EXCEPT ![m].pc = "asked", ![m].ticked = FALSE, ![m].frame = Frame]
  /\ UNCHANGED <<world, disk, printed, events>>

Minus(x, y) == (x - y) % Word  \* of two uint64

(* The inactive page cache is taken off unseen.                            *)
MemoryUsageUnchecked(usage) == Minus(usage, Inactive)

MemoryUsage(usage) == IF Inactive < usage THEN Minus(usage, Inactive) ELSE usage

(* cpuPercent is 100 * busy / capacity.                                    *)
Measured(pre, cur) ==
  LET cpuDelta == Minus(cur.used, pre.used)
      systemDelta == Minus(cur.read * CPUs, pre.read * CPUs)
      valid == cpuDelta > 0 /\ systemDelta > 0 /\ cur.cpus > 0 IN
  [read |-> cur.read, used |-> cur.used, total |-> cur.total, starts |-> cur.starts,
   memory |-> MemoryUsage(cur.used),
   busy |-> IF valid THEN cpuDelta * cur.cpus ELSE 0,
   capacity |-> IF valid THEN systemDelta ELSE 1,
   restarted |-> cur.starts # pre.starts]

Collect(m) ==
  LET pre == monitor[m].frame IN
  /\ At(m, "asked") /\ ~monitor[m].cancelled /\ container # "gone"
  /\ pre.read > 0 => now > pre.read
  /\ monitor' = [monitor EXCEPT
       ![m].pc = "write", ![m].frame = None,
       ![m].sample = Measured(pre, IF pre.read > 0 THEN Frame ELSE pre)]
  /\ UNCHANGED <<world, disk, printed, events>>

(* An error of the daemon, the transport, or in the answer; a 404; ctx,    *)
(* which alone ends a request that hangs: the client has no timeout.       *)
GiveUp(m) ==
  /\ At(m, "asked")
  /\ monitor' = [monitor EXCEPT ![m].pc = "select", ![m].frame = None]
  /\ UNCHANGED <<world, disk, printed>>

(* The request is made without ctx.                                        *)
CollectUncancelled(m) == FALSE /\ GiveUp(m) /\ UNCHANGED events

CollectFails(m) == GiveUp(m) /\ Event
CollectNotFound(m) == container = "gone" /\ GiveUp(m) /\ UNCHANGED events
CollectCancelled(m) == monitor[m].cancelled /\ GiveUp(m) /\ UNCHANGED events

-----------------------------------------------------------------------------
(* writer.Write, calculateRates, printSample.                              *)

(* A counter that began again is not recognised.                           *)
DeltaRateUnchecked(current, prior, seconds) ==
  IF seconds <= 0 THEN 0 ELSE Minus(current, prior)

(* A rate times its seconds.                                               *)
DeltaRate(current, prior, seconds) ==
  IF current < prior \/ seconds <= 0 THEN 0 ELSE Minus(current, prior)

Rates(m) ==
  LET cur == monitor[m].sample
      prior == monitor[m].previous IN
  IF prior = None THEN 0 ELSE DeltaRate(cur.used, prior.used, cur.read - prior.read)

Line(m) == [by |-> m, sample |-> monitor[m].sample, bytes |-> Rates(m)]

WriteRow(m) ==
  /\ At(m, "write") /\ ~monitor[m].broken
  /\ file' = Append(file, Row(m))
  /\ printed' = Line(m)
  /\ monitor' = [monitor EXCEPT
       ![m].pc = "select", ![m].previous = monitor[m].sample, ![m].sample = None]
  /\ UNCHANGED <<world, exists, doubtful, events>>

(* Each write is tried, whatever became of the one before.                 *)
DiscardAndRetry(m) ==
  /\ At(m, "write")
  /\ monitor' = [monitor EXCEPT ![m].pc = "select", ![m].sample = None]
  /\ UNCHANGED <<world, exists, doubtful, printed>>

(* csv.Writer keeps its first error: all later rows fail at once.          *)
Discard(m) ==
  /\ At(m, "write")
  /\ monitor' = [monitor EXCEPT ![m].pc = "select", ![m].broken = TRUE, ![m].sample = None]
  /\ UNCHANGED <<world, exists, doubtful, printed>>

WriteFails(m) == ~monitor[m].broken /\ Discard(m) /\ FailedWrite(m) /\ Event
WriteRefused(m) == monitor[m].broken /\ Discard(m) /\ UNCHANGED <<file, events>>

-----------------------------------------------------------------------------
Signal(m) ==
  /\ Alive(m) /\ ~monitor[m].cancelled /\ Event
  /\ monitor' = [monitor EXCEPT ![m].cancelled = TRUE]
  /\ UNCHANGED <<world, disk, printed>>

Stop(m) ==
  /\ At(m, "select") /\ monitor[m].cancelled
  /\ End(m)
  /\ UNCHANGED <<world, disk, printed, events>>

Kill(m) ==
  /\ Alive(m) /\ Event
  /\ End(m)
  /\ doubtful' = (doubtful \/ At(m, "header"))
  /\ UNCHANGED <<world, exists, file, printed>>

(* The program's own steps, and those that wait for the daemon.            *)
Main(m) ==
  \/ ResolveCancelled(m) \/ Stat(m) \/ Open(m) \/ WriteHeader(m)
  \/ Ask(m) \/ CollectCancelled(m)
  \/ WriteRow(m) \/ WriteFails(m) \/ WriteRefused(m) \/ Stop(m)

Answer(m) ==
  Version(m) \/ Resolve(m) \/ Collect(m) \/ CollectNotFound(m) \/ CollectFails(m)

Next ==
  \/ Second \/ ContainerStops \/ ContainerStarts
  \/ \E m \in Monitors : Start(m) \/ Main(m) \/ Answer(m) \/ Signal(m) \/ Kill(m)

Spec == Init /\ [][Next]_vars

(* The process runs, and select takes any of its ready cases some time.    *)
(* The daemon may leave any request unanswered for ever.                   *)
FairSpec == Spec /\ \A m \in Monitors : WF_vars(Main(m)) /\ SF_vars(Stop(m))

-----------------------------------------------------------------------------
RowsOf(m) == {k \in DOMAIN file : file[k].kind = "row" /\ file[k].by = m}
LastOf(k, rows) == k \in rows /\ \A j \in rows : j <= k

(* No row claims more than all CPUs, or more memory than was in use: the   *)
(* unsigned differences of docker_collector.go (76-86, 148) wrap only when *)
(* the container restarts between Docker's two readings.                   *)
RowsBelievable ==
  \A k \in DOMAIN file :
    file[k].kind = "row" =>
      LET s == file[k].sample IN
      /\ s.busy <= s.capacity * CPUs \/ s.restarted
      /\ s.memory <= s.used

(* What a printed line says, held against the rows of its monitor.         *)
Borne(line, rows, contents) ==
  \E k \in rows :
    LET earlier == rows \ {k}
        last == contents[k].sample IN
    /\ LastOf(k, rows) /\ last = line.sample
    /\ earlier = {} => line.bytes = 0
    /\ \A i \in earlier : LastOf(i, earlier) =>
         LET prior == contents[i].sample IN
         /\ line.bytes <= last.total - prior.total
         /\ last.starts = prior.starts /\ last.read > 0 /\ prior.read > 0 =>
              line.bytes = last.total - prior.total

(* A printed rate speaks of the last two rows of its monitor in the file:  *)
(* never of more bytes than the container moved between them, whatever     *)
(* restarts, stops and lost rows lie between, and of exactly those if it   *)
(* ran in one life (main.go 94-102, 123-146).                              *)
RatesTrue ==
  printed # None => Borne(printed, RowsOf(printed.by), file)

(* Unless a header's write was cut off, or another monitor opened the file *)
(* beside it, the file begins with its header and holds no other, however  *)
(* often the monitor is started again (csv_writer.go 25-62).               *)
HeaderOnce ==
  ~doubtful =>
    \A k \in DOMAIN file : file[k].kind = "header" <=> k = 1

(* A line that was torn by a failed write is the last thing its monitor    *)
(* wrote: what it samples later is lost, but never glued to a torn line.   *)
(* Only the first row of another monitor may be (csv_writer.go 85-92).     *)
TornLineIsLast ==
  \A i, k \in DOMAIN file :
    file[i].kind = "torn" /\ i < k /\ file[k].kind # "header" => file[k].by # file[i].by

(* A signal ends the monitor, even while the daemon leaves its request     *)
(* unanswered or the disk is full (main.go 47, 84-86); only the first      *)
(* request, for the version, holds it (docker_collector.go 33).            *)
StopsOnSignal ==
  \A m \in Monitors :
    monitor[m].cancelled /\ ~At(m, "version") ~> At(m, "ended")
=============================================================================
