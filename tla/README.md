# Verification of the BuChoiPark file server

TLA+ models, model-checking runs and machine-checked proofs for this
repository: a file server (Kotlin, Spring Boot, SQLite) behind OpenResty, a
container monitor, and the Go benchmark that loads it.

In this document `FileController.kt`, `FileService.kt`, `FileRepository.kt` and
`WebMvcAsyncConfig.kt` are the files of that name in
`BuChoiPark/src/main/kotlin/com/buchoipark/demo/`; a bare line number refers to the file
named before it.

- [1. The system](#1-the-system)
- [2. The modules, and how they correspond to the code](#2-the-modules-and-how-they-correspond-to-the-code)
- [3. The runs](#3-the-runs)
- [4. Fairness](#4-fairness)
- [5. The proofs](#5-the-proofs)
- [6. Where the code and its documents disagree](#6-where-the-code-and-its-documents-disagree)
- [7. Other observations](#7-other-observations)
- [8. What is not modelled](#8-what-is-not-modelled)
- [9. Plan](#9-plan)
- [10. Running the checks](#10-running-the-checks)

## 1. The system

```
 benchmark.go ──HTTP──▶ OpenResty (Lua) ──proxy──▶ FileController ──▶ FileService ──▶ FileRepository ──▶ SQLite
                          │ download.lua                │ two queues       │                             (files)
                          └──── reads the file ─────────┼──────────────────┴──▶ files under app.storage.dir
 metric/src (monitor) ──Docker API──▶ containers        └── MVC executor: StreamingResponseBody
```

| Component | State | Operations | Works with |
|---|---|---|---|
| **Download admission and queue** (`FileController.kt` 32–76, 143–316) | `downloadSemaphore`, `downloadQueuedCount`, `downloadQueueBytesLimiter`, `downloadQueue`, `downloadDrainInProgress`; per request `active`, a `DeferredResult`, a response body | `downloadFile`, `drainDownloadQueue`, `pollNextQueuedDownload`, `completeDownload`, `cancelQueuedRequest`, the body's `finally` | handler threads, container threads (timeout, error), MVC executor |
| **Upload admission and queue** (361–545) | the same for uploads, and `uploadInFlightLimiter`, `uploadQueueLock` | `uploadFile`, `drainUploadQueue`, `pollNextQueuedUploadReady`, `completeUpload`, `cancelQueuedUpload` | executes other requests' uploads in the draining handler |
| **InFlightByteLimiter** (605–640) | one `AtomicLong` | `tryAcquire`, `release` | both queues |
| **FixedWindowRateLimiter** (565–603) | map of client key to window start and count | `allow`, `resolveClientKey` | guards `downloadFile` |
| **File store** (`FileService.kt`, `FileRepository.kt`) | table `files`, files on disk | upload, metadata, delete, delete folder, move, move folder, download info, listing | called by all of the above; no transactions |
| **Folder listing** (`FileService.kt` 83–131) | – | entries of a folder from a `LIKE 'prefix%'` query | used by clients to verify moves and deletes |
| **HTTP validation** (`FileController.kt`) | – | blank and missing parameters, 404, 429 | in front of the file store |
| **Nginx/Lua front end** (`nginx/lua`, `nginx/conf.d`) | request timers only | `download.lua` asks for metadata and opens the file itself; `upload.lua` forwards | by-passes the download queue |
| **Load generator: benchmark** (`loadtest/src/benchmark.go`) | `allUploaded`, results; per scenario a `WaitGroup` and a channel; per upload a pipe | six scenarios, one after the other | the server, over HTTP |
| **Load generator: test files** (`create-test-files.go`; `generateTestFiles` of `benchmark.go`, 171–260) | files on the local disk, which the two programs share; the list of hashes | `main`, `genFile`; `generateTestFiles`, `generateFile`, `hashFile` | the disk; the benchmark uploads the files and compares downloads with the hashes |
| **Container monitor** (`metric/src`) | output file, previous sample, the first error that `csv.Writer` keeps, ticker, `ctx` | `NewDockerCollector`, `ResolveContainer`, `CollectOnce`; `NewCSVWriter`, `Write`; the loop of `main` with rates and signal | Docker API; other monitors, through the file |
| **Configuration, deployment, e2e scripts** | – | – | limits become CONSTANTS |

### What is hard here, and what has to be right

*Queues.* Requests are handled by many threads that share a semaphore, a
counter, a byte budget, a queue and a flag, *without one lock around them*.
An entry is at the same time the business of the thread that queued it, of
the drain that polls it and of its timeout callback. Right means: permits, counts and
bytes are conserved on every path; nobody is served twice or after being
cancelled; the queue stays within its limits and in order; no request is
forgotten by all drains; every client gets an answer.

*File store.* A row and its file are changed in separate steps, and an exception or the
end of the process may come between any two. Right means: no row leads to a
file that is not whole; no file is orphaned unless something failed; a
deleted file stays deleted and its deletion is announced once; nobody deletes
another user's files.

*Limiters.* Compare-and-set loops must lose no update and never exceed the
limit; the rate limiter reads the clock outside its lock, so late calls carry
old times.

*Benchmark.* Hundreds of goroutines, a `WaitGroup` and a channel that nobody
reads until all are done; uploads whose body is produced by a second
goroutine; verifications that depend on what earlier scenarios did and on
late effects of failed requests. Right means: it ends, counts every result,
and its verdicts are true.

*Test files.* Two programs create the same files, skip what they find in full size,
and may die in the middle of one, run at once, or use different seeds. Right
means: a hash that the benchmark lists is that of the file it uploads.

*Monitor.* Counters are unsigned and start again with the container, the
daemon and the disk may fail at any point, a `csv.Writer` remembers its first
error, and restarted or concurrent monitors append to one file. Right means: no row and
no rate claims what did not happen, the file keeps its form, and a signal
ends the monitor.

`PROJECT.json` lists these hazards one by one, with the line at which each
bites and the properties that watch it.

## 2. The modules, and how they correspond to the code

| Module | Models | Kind |
|---|---|---|
| `Budget` | the arithmetic of the byte limiter | operators |
| `ByteBudget` | what the limiter promises: reserve and give back in one step | abstract specification |
| `ByteLimiter` | `tryAcquire` and `release` with their compare-and-set loops | component |
| `DownloadService` | what clients are promised of downloads | abstract specification |
| `DownloadQueue` | the download path | component |
| `UploadQueue` | the upload path | component |
| `RateLimiter` | `FixedWindowRateLimiter` | component |
| `DownloadAdmission` | the two limiters one behind the other, as a download passes them | composition |
| `FolderPaths` | paths, `LIKE`, listing, path rewriting | operators |
| `FileStore` | `FileService` and `FileRepository`, with crashes | component |
| `Benchmark` | `benchmark.go` | component, over `FolderPaths` |
| `TestFiles` | `create-test-files.go` and `generateTestFiles` | component |
| `Monitor` | `metric/src` | component |
| `LimiterProofs` | theorems about `ByteLimiter`, `RateLimiter` and `DownloadAdmission` | proofs |
| `DownloadQueueProofs`, `UploadQueueProofs`, `FileStoreProofs`, `BenchmarkProofs`, `MonitorProofs`, `TestFilesProofs` | theorems about the component of that name | proofs |
| `DataLemmas` | what the proofs need of queues and of sums over finite sets | lemmas |
| `MC*` | small instances | model checking |

`ByteLimiter` implements `ByteBudget` (checked and proved); the two queues use the
byte limiters through the same atomic operators of `Budget`. `DownloadQueue`
implements `DownloadService` (checked, and proved). `FileStore` and `Benchmark` share
`FolderPaths`.

### DownloadQueue

One handler thread per request (`pc`), one container thread per request for
its callbacks (`cb`), and the executor's bodies (`stream`). **Every access to
a shared object is one step**, so all interleavings of the real threads at
that granularity are explored. `next` is the local `nextQueuedRequest`, `depth` the nesting
of drains on the thread's stack, `entry` is `QueuedDownloadRequest.active` together with
who cleared it: `claimed` by a drain, `cancelled` by a callback, `leaked` when the
callback then found the entry already polled.

- `EarlyAnswer`, `Admit`, `CheckCount`, `TryFast`, `FastDeliver`: lines 151–180
  (404, 429, the fast path).
- `Reserve`, `CountUp`, `CountDown`, `Unreserve`, `Refuse`, `Offer`: 182–211.
- `DrainEnter`, `Acquire`, `Poll`, `Claim`, `DecCount`, `FreeBytes`, `EmptyRelease`,
  `Exit`, `RecheckCount`, `RecheckPermits`: 228–267.
- `Deliver`, `Dispatch`, `GiveBack`, `NestedDrain`: `completeDownload`, 269–305.
- `CancelClaim`, `CancelRemove`, `CancelDec`, `CancelFree`, `CallbackAnswer`: 202–226.
- `StartBody`, `FinishBody`, `CancelBody`: the executor; 276–287.
- `StackOverflow`: the recursion of 251 and 304 does not end before the stack
  does; which frame fails is abstracted (the recursive call itself), the
  `finally` blocks on the way out run.

Spring and Tomcat are modelled from how the code uses them: callbacks run only
after the handler returned; `setResult` is accepted once; an accepted body is
handed to the executor by whoever comes second, `setResult` or the handler's
return; a body that waits for a busy executor may be cancelled by the async
timeout and then never runs. Two pairs of events that the state cannot tell apart are
one action each: 404 and 429 (`EarlyAnswer`), and a timeout and an error of the connection
(`ContainerEvent`), after either of which the request is over for the client.

### UploadQueue

The same shape, with the lock of `pollNextQueuedUploadReady` and two resources
per upload (permit and in-flight bytes). `Lock`, `Look`, `PollPermit`, `PollBytes`, `Undo`, `Take`,
`BackPermit`, `BackBytes` are the lines 483–505 and their four exits; `Store`, `Succeed`,
`Fail`, `FreeInFlight`, `FreePermit`, `NestedDrain` are `completeUpload`. `dropped` counts the permits
that line 400 takes and never returns.

A drain whose head fits the permits but not the bytes in flight puts the permit
back, clears its flag, finds a free permit and something in the queue, and calls itself
again (475–480): it recurses until the bytes are there or its stack is gone
(`StackOverflow`, bounded by `StackLimit`).

### ByteLimiter and RateLimiter

`AcquireRead`, `AcquireCas`, `AcquireRetry` (and the same for `release`) separate
`get()` from `compareAndSet`. In `RateLimiter` a call reads the clock (`ReadClock`), finds its
counter (`Find`) and only then enters the synchronized block (`Restart` or
`Count`); time passes in between.

`DownloadAdmission` lets each download pass both, as lines 158–193 do: `RateStep` is a step of
`allow`, `Reserve` calls `tryAcquire` for a download that was admitted, `GiveBack` releases what it has
reserved, and `InLimiter` is a step inside the loops. The rate limit is taken to be enabled, as it is by
default; the uploads' limiters are more instances of `ByteLimiter`.

### FileStore

`rows` is the table, `disk` how much of each file is written. One step per SQL
statement and per file operation, because nothing else is atomic: the pool
has one connection, taken and given back per statement, and there are no
transactions. `Throw` fails any request at any step, `Crash` ends all of them;
neither cleans up. Two history variables name the two ways in which
`deleteFolder` tears rows and files apart: `slipped` (deleted with the
folder's rows, but not in the list of files to remove) and `escaped` (in that list, but moved out
before its row was deleted).

### Benchmark

`step` and `main` say where `main()` is, `worker` where each goroutine is; `wg`, `results` and
`capacity` are the `WaitGroup` and the channel, `pipe` the body of each
multipart upload (`open`, `copied`, `ended`, or `failed` by `CloseWithError`). The
server is abstracted to its rows: a request takes effect and is answered, is refused, or
fails *although it took effect*; an upload may be stored long after its
client gave up (`late`, `StoreLate`). A single file's `DELETE` has the two steps of
`FileService.deleteFile` (look up, delete), since only these requests of the benchmark race
for the same rows. `began` are rows an earlier run left behind.

A verdict takes as many steps as it makes requests: `ListOld` lists the folder that must be empty,
`ListNew` after a move the folder that was moved to, and `ReportMove`, `ReportDeleteFiles` and
`ReportDeleteFolder` append the result. An upload may be stored late between any two of them;
`arrived` (history) collects those. The listing of the parent folder after a folder delete (922–930) is only logged and
is left out. The change of a `DELETE` or `PATCH` of a whole folder has happened when the request is
answered or fails; only uploads are stored late.

The tables of cases in `benchmark.go` are constants. `TablesAssumption` says how the code's own
tables fit each other, with what the cases make of them: where a file is in the end (`Home`), and
which delete case finds it there (`FilesIn`, `FilesUnder`).

### TestFiles

A file is a sequence of chunks, a chunk is a seed and a position, and a hash is the
sequence of what went into the hasher. `Start` begins a run of either program
(`Loaders` are those of the benchmark); `Skip`, `Reuse` and `Refuse` are the
three outcomes of `os.Stat`; `Create` truncates (`os.Create`); `Write` and `EndWrite` are `genFile` and
`generateFile`, `Read` and `EndRead` are `hashFile`; `Die` is `log.Fatal` or a kill, after which
what was written stays. Two runs in one file each write at their own offset, so a
truncation by the other leaves a hole (`Put`). `together` names the runs that overlapped
another; the properties say where that matters.

### Monitor

`Start`, `Version`, `Resolve`, `Stat`, `Open` and `WriteHeader` lead to the loop of `main`; `Ask` and
`Collect` are the two readings that Docker takes for one request, a second apart;
`CollectFails`, `CollectNotFound` and `CollectCancelled` are its errors; `WriteRow`, `WriteFails` and `WriteRefused` are
`CSVWriter.Write` with the error that `csv.Writer` keeps, and the rates printed after it;
`Signal`, `Stop` and `Kill` end a monitor. One number stands for all counters (CPU time,
bytes, memory): what the code does with them is the same unsigned subtraction,
guarded in different ways, all of which are modelled (`Measured`, `MemoryUsage`, `DeltaRate`). The world's
actions are `Second`, `ContainerStops` and `ContainerStarts`. `doubtful` becomes true when a header's
write is cut off or two monitors open the file at once.

## 3. The runs

| Run | Instance | Distinct states | What it shows |
|---|---|---|---|
| `DownloadAdmission` | 3 downloads of 2 clients, limit 1, windows of 2, time up to 4; 2 bytes, sizes 0 and 1 | 661,000 | bound per window; refusals are justified; windows only move forward; byte limit kept, calls return again and again, no update is lost: implements `ByteBudget` |
| `DownloadQueue` | 4 requests (a fifth while both permits are with bodies), 2 permits, queue of 2, 3 bytes, 1 executor thread | 252,510 | conservation of permits, slots and bytes; limit of the queue; one fate per request; the nested drain does nothing; no lost wake-up; refines the FIFO service `DownloadService`; every request is answered |
| `UploadQueue` | 3 uploads (one larger than the in-flight limit), or 2 that are both larger; 2 permits, queue of 2 | 617,577 | conservation of permits (`PermitsConserved`) and of places, queued and in-flight bytes (`ReservationsConserved`); one fate, and the poll takes what it looked at (`UploadHasOneFate`); FIFO; no lost wake-up; every upload is answered |
| `FileStore` | 2 requests at once, 2 ids, 2 users, 2 folders that look alike | 787,024 | rows and files stay together up to named races and failures; see below |
| `Benchmark` | 7 files, 4 folder shapes, 1 possible leftover, 1 request or read that goes wrong | 108,572 | results counted, downloads match, clean runs succeed and leave nothing, verdicts are true, it ends |
| `TestFiles` | 3 runs, 2 of them benchmarks, 2 files of 2 chunks, 2 seeds | 979,250 | hashes are those of what is on the disk; one seed may be shared; what is complete is used again |
| `Monitor` | 2 monitors, 4 seconds, 2 failures or other events | 678,246 | rows and rates are true, one header, torn lines are last, a signal ends it |
| `UploadPermitReturned` | 2 uploads | violated | a permit is lost for good |
| `FolderDeleteReachesOut` | 1 user, 2 folders | violated | deleting one folder deletes another's files |
| `BodyPermitReturned` | 3 downloads, 2 permits, 1 executor thread | violated | a body cancelled before it runs keeps its permit for good |
| `CompletionDrains` | 3 downloads, 1 permit | violated | the end of a body leaves a free permit beside a queued download |
| `ParentMoveVerified` | the tables of `Benchmark`, nothing goes wrong | violated | the move of a parent folder is not verified |

Between them the passing runs take every action of every module and each disjunct
of its next-state relation.

**Bounds, and why they are enough.** The queues' races have at most four
parties: a handler that queues, a drain that polls, a callback that cancels, and the body
or upload that returns a resource. Four downloads (three uploads) let all of
them be different threads while a permit is still contended; two permits let
one be free while the other is held; a queue of two places fills up
and refuses. The byte sizes are chosen so that the queue is full by bytes in
some behaviours and by count in others, and so that an upload can be larger than the
in-flight limit, which is the case that makes a head wait for ever.
Both queue runs restrict the arrivals by a state constraint (`Arrivals` of the MC modules): a
fifth download comes only while one body runs and another waits for the executor, because only then
three downloads meet a queue for two; and the second upload that is too large comes only beside the
first one. The constraint cuts off nothing but arrivals, ends of bodies and cancellations of bodies, none of which
is fair, so it does not touch what the liveness properties assume. `StackLimit = 1` allows one nested drain and then the overflow; larger
limits only repeat the same recursion. `PoolThreads = 1` makes bodies wait for the
executor. In `FileStore` two requests suffice because the hazards are pairs (delete
against upload, move or delete), and the two ids let a folder hold two files, of
which one is torn off; `f` and `g` look alike to `LIKE`. `DownloadAdmission`'s `MaxTime = 4` spans
two windows of two ticks and the edge between them; with a limit of one, two calls of one client are
the one that opens a window and the one that comes too much or around its edge, and the third is a
call of the proxy itself; three threads in the loops are two that lose their compare-and-set to
the third. The theorems about both limiters hold for all values.
In `Benchmark` each of the four folder shapes of the tables in
`benchmark.go` (moved then deleted; emptied file by file; moved with a
subfolder; deleted with a subfolder) occurs once, with two files where goroutines race; two
troubles (`MaxTroubles = 2`, 1,746,524 states) were also checked once without finding
anything else. In `TestFiles` two files let a run be at one while another is at
the other, two chunks let a run die inside a file, and three runs let one prepare, one
die and one find the rest. In `Monitor` four seconds make three samples and so two
rates, two events pair each failure with a restart, a signal or a kill, and two monitors are one
that runs and one that replaces or joins it; `Word = 16` is above every true value (an
assumption of the module) and far below a wrapped difference.

Requests, ids, runs, monitors and plans are finite, so a model may come to its end:
those cfgs say `CHECK_DEADLOCK FALSE`. Symmetry is
used in `FileStore` only, among its requests and among its users; that run checks no liveness.

**FileStore in detail.** `RowHasFile`: a row of `uploadFile` has its whole file at every
moment and after every crash, except files in `escaped`. `FileHasRow`: a file
without a row is being handled by a request, was left by one that failed or
died, or is in `slipped`. So the two windows of `deleteFolder` and failures
are the *only* ways to lose the correspondence. `NoPartialDownload` covers downloads that
looked up their row long ago; `DeletedStaysDeleted` a move that
started before the delete; `DeletesAnnouncedOnce` two deletes of one file, or of a
file and its folder.

**Lost wake-ups.** For uploads, `NoLostWakeup` says that once all handlers have
returned, uploads wait only while no permit is free: a drain whose head does not
fit looks again until it fits. (After an overflow nothing is claimed: the handler is not
one that returned.) For downloads it says that a request waits beside a free
permit only if a response body released that permit, or a drain ran out of stack, after the last
drain looked (`freed`). That a body releases a permit and wakes nobody is not how the documents
describe it: `CompletionDrains` is the unqualified property, and is violated (section 6).

**What the conservation laws admit.** `PermitsConserved`, `SlotsConserved` and `BytesConserved` name every
owner, and two of the owners are not meant to exist: a body that was lost (`BodyPermits`) and an entry that
leaked. So these invariants say that there is no *other* loss, and none twice. The
lost body contradicts a comment, and `BodyPermitReturned` is its run; the leaked entry
contradicts no text (section 7).

**Monitor in detail.** `RowsBelievable` bounds CPU and memory of a row by what the container
could have used, unless it restarted between the two readings of one request.
`RatesTrue` compares each printed rate with the bytes that really moved between the last
two rows *in the file*, over restarts, stops and lost rows.

**Benchmark in detail.** `CleanRunSucceeds` says that every listing, delete and move of a folder that holds
its files itself is verified; that the document promises it of every move is
`CleanMovesVerified`, which is violated (section 6). `VerdictsHonest` is the property that needs
leftovers and late uploads: whenever a move or delete case is reported as verified, the only rows below the old
folder, however deep, are uploads that were stored late and after that folder was
listed (`arrived`): `main` cannot know of those, and must overlook no others. "Below"
is meant literally: a listing leaves out what only the pattern matched (section 7), so a verdict says
nothing about rows whose folder merely looks like this one to `LIKE`.

Every property has a mutant in `PROJECT.json`: an operator of the module
that changes one definition the way a plausible bug would, under which the
run must fail.

## 4. Fairness

- `DownloadAdmission`: each thread that is in a call of the byte limiter keeps taking steps (weak
  fairness per thread). The property is the lock-free one: while threads are inside a call, *some* call returns.
  Nothing is assumed of `allow`.
- `DownloadQueue`, `UploadQueue`: handler threads and callbacks that can take a step
  do, and the container's timeout fires for a request that stays unanswered
  (`ContainerEvent`; every `DeferredResult` is given a timeout, lines 156 and 382, so the
  event comes in any case, be it by a timeout or by an error). Nothing
  is assumed of clients, or of the end of a download: a body may
  stream for ever. The upload lock needs no fairness of its own in the checked instance.
- `Benchmark`: Go's scheduler runs `main` and every goroutine; every request
  ends, because `httpClient.Timeout` ends it if nothing else does (108). `StoreLate`
  and failures are not fair.
- `Monitor`: the process takes its own steps (weak fairness of `Main`), and `select`
  takes the cancelled context some time although the ticker is ready again and again (strong
  fairness of `Stop`; Go chooses at random among ready cases). The daemon's answers are *not*
  fair: a request may hang for ever, and the signal must end it.
- `FileStore`, `TestFiles`: safety only; a request or run may be held up
  anywhere.

## 5. The proofs

All theorems hold for every value of the constants that satisfies the named
assumptions (`DownloadAssumption`, `UploadAssumption`, `LimiterAssumption`, `RateAssumption`, `AdmissionAssumption`,
`StoreAssumption`, `MonitorAssumption`, `TestFilesAssumption`, `BenchmarkAssumption`): finite sets of
requests, calls and ids, and limits and sizes in `Nat` (the callers pass
`coerceAtLeast(0)`). `CleanRunsSucceed` alone also uses `TablesAssumption` (below).

**`LimiterProofs`** — of the byte limiter `ByteTypeCorrect`, `BudgetKept` (the counter never exceeds the limit) and
`LimiterRefinesBudget`; of the rate limiter `RateTypeCorrect`, `WindowsBounded`, `RefusalsJustified` and `WindowsKeptApart`;
of the two together `AdmissionUsesBoth` (each step of the composition is a step of one limiter and a stutter of the other) and
`AdmissionWithinLimits`, which follows.

For bytes, the inductive invariant relates a thread's remembered `current` and `next` to the label it
is at; a successful compare-and-set then adds exactly what fits, and is the
linearization point of the refinement: every other step of the loops is a stutter.

For windows, it says that a counter is the number of calls admitted in its present window, up to the
limit (`CountTrue`), that no call was counted in a window later than the present one (`Ordered`), so that a
restarted window begins empty, and that no call carries a time of the future (`ClockRead`).

**`DownloadQueueProofs`** — `TypeCorrect`, `PermitsAreConserved`, `SlotsAreConserved`, `BytesAreConserved`,
`QueueIsBounded`, `OneFate`, `NestedDrainDoesNothing`, `NoWakeupIsLost`, `ServiceIsImplemented`. The
invariant is

    Inv == CountersOK /\ ControlOK /\ Wiring /\ PermitsConserved /\ SlotsConserved

`Wiring` says who owns what: at most one thread is in the region that
`downloadDrainInProgress` guards (`OneDrainer`); a request that is not queued yet is known
to nobody else (`Fresh`); `next` is set exactly while a drain handles an entry
(`NextInUse`); a polled entry is out of the queue (`Polled`) and a claimed one
belongs to the drain (`Claimed`); what is in the queue is there once and is active
or being removed (`InQueue`, `Distinct`); a cancelling callback owns its entry (`Cancelling`);
and bodies belong to served requests (`Undispatched`, `Served`). It is needed because
the conservation laws count *sets* of owners: a step that returns a permit or
lowers the counter is correct only if the thread that takes it is the sole owner at that
moment. Three more invariants are proved on top of `Inv`: `BytesHeld` (the byte counter is the
sum of the sizes of its owners), the bound on the queue (those who
passed the comparison are counted, so no more than the limit can enter), and `FlagHeld` with `Attended`
(a set flag has a thread behind it, and as long as somebody waits beside a permit that no
body released, somebody drains or is about to look again).

`ServiceIsImplemented` is the refinement: each step of a handler, drain, callback or body is one step of
`DownloadService` or changes nothing that clients see (`ServiceStep`). The mapping reads the
standing of a request off its body, its entry and its result, and takes the order of arrival
from the history `offers`. `Queueing` says that this order is kept in the queue and between the queue and the
entry that was polled (`Ordered`) and that nobody who waits is anywhere else (`Found`), so that
what a drain claims is the first of those who wait. `Fates` says that an entry is claimed by one
drain at a time until its request is answered (`InDrain`) and that who waits has no answer
(`Unanswered`). That a permit in a thread's hands leaves room for a body, and that a reservation
leaves room in the line, is `PermitsConserved` and the bound on the queue.

**`UploadQueueProofs`** — `PermitsAreConserved`, `ReservationsAreConserved`, `OneFate`, `InOrder`,
`NoWakeupIsLost`. The invariant is

    Inv == Shape /\ OneOwner /\ OneHandler /\ (\A r : Knows(r)) /\ Queueing /\ Fate /\ PermitsConserved

The lock has one owner, no upload is in the hands of two threads, each thread knows
what its label says of its upload, and the queue is in order of arrival. On top of it
`Cancelling`, `SlotsHeld`, `LimitKept`, `BytesHeld` and `FlightHeld` give the conservation of places
and bytes: the upload in a thread's hands changes from the head of the queue, which it only looks
at, to one that it has taken, and what is owed changes with it. `FlagHeld` and `Attended` are as
for downloads, except that whoever executes an upload of its own drains afterwards.

**`FileStoreProofs`** — `RowsHaveFiles`, `FilesHaveRows`, `DownloadsAreWhole`, `DeletedForGood`, `DeletesAreAnnouncedOnce`.
The invariant is

    Inv == Shape /\ OneUploadPerId /\ Orphans /\ (\A id : Sound(id)) /\ (\A r : Uploads(r) /\ Found(r))

An upload has its id to itself and a file as far as its label says; what anybody
found in a row has, or had, a row for ever, and a file that has or had a row is never
partial. `Told` adds that whoever deleted rows owes an answer that says so, until it gives it
or fails. The proof makes no assumption about which names look alike to `LIKE`.

**`MonitorProofs`** — `OneHeader`, `TornIsLast`, `RowsAreBelievable`, `RatesAreTrue`. The invariant `Inv` adds that a monitor whose write
failed stays silent (`TornAreSilent`), and, unless the file is `doubtful`, that only one
monitor is about to open a new file (`Opening`).

The numbers need two more invariants. `Truthful` bounds what the container can have used since
Docker's first reading by the time that has passed, if it is still the same life
(`Reading`), so that the unsigned difference of `CollectOnce` neither wraps nor exceeds the CPUs.
`Rated` relates everything a monitor holds to the bytes that really moved (`Past`): in the same
life the counter has grown by what moved, in a later life at least what the counter says moved
now. Then the rate between two such samples is true (`Later`). `Remembers` says that
`previous` is the last row the monitor has in the file, even if later rows were lost, which is what ties
the printed rate to the file. Assumed of the constants: a word holds all that the CPUs can
use (`Word > CPUs * MaxTime`), and `None` is not a sample.

**`TestFilesProofs`** — `TypeCorrect`, `HashesAreTrue`, `NothingIsCreatedTwice`, `SharingIsSafe`. `Inv` says
what a run that goes on by itself has done so far (`Alone`) and that after a complete run nobody
writes any more (`Kept`). `SharingIsSafe` needs an invariant of its own (`Shared`): as
long as all runs use one seed, each chunk of a file that somebody has passed is
written, or a run is on its way to write it.

**`BenchmarkProofs`** — `TypeCorrect`, `SendNeverWaits`, `ResultsAreCounted`, `DownloadsAreWhole`, `VerdictsAreHonest`,
`CleanRunsSucceed`. The invariant is

    Inv == TypeOK /\ Round /\ Counting /\ Bodies /\ Ledger

`Round` says who takes part: the goroutines that were started and those to be started are `capacity` many,
and outside a round there are none. `Counting` is
the heart of the three concurrent scenarios: `wg` is the number of goroutines that are neither unborn
nor gone, and the channel holds exactly the results of those that have sent. Hence a goroutine that wants
to send finds room (`SendNeverWaits`), and when `wg` is zero the channel holds one result per job, so the
counts add up (`ResultsAreCounted`). `Bodies` says that only a file that was read to its end is answered by 200, and that only
those are downloaded, so no answer is `bad`. `Ledger` keeps what was already reported.
`VerdictsAreHonest` has an invariant of its own (`Verdict`): when the listings have passed so far, the rows below the
old folder are among those stored late since. It begins to hold with `ListOld`, because whatever lies below a folder, at any
depth, is an entry of its listing or in a folder that is (`EmptyListing`), and it is kept because
from then on to the report a late upload is the only step that adds a row.

`CleanRunsSucceed` has an invariant of its own, on top of `Inv`:

    Tidy == Clean => Orderly

`Orderly` says that nothing is late or left over (`Quiet`); that each file is exactly where the cases that are
past have put it, with the answered goroutines of the round that is under way (`Places`); that the jobs of a round
are the files of its case (`Jobs`), a `DELETE` names the path of its own file or has found that file's row
(`Targets`), and what `main` holds between request and verification fits (`Stages`); and that all
reports so far are successes. The proof first shows how the plan is laid out (`PlanLaidOut`: which
elements of `Plan` are which case of which scenario), so that "the cases before this one" is a comparison
of numbers. It assumes of the tables (`TablesAssumption`) what lines 80–91, 657–663, 740–744 and 884–892 satisfy:
every local file is uploaded, and lies in a folder without folders in it; no move carries a file that another
has carried, or one to where files are; the number of files of a move is that of the folder's direct files,
unless it holds folders; no two files end at one path; every delete case finds a file that no
earlier one removes, and every file is found by one. TLC evaluates the assumption on the
instance of the run, a small table of the same form.

**`DataLemmas`.** Sums over finite sets are folds, and the library's induction theorems take an
operator as a parameter, which the provers cannot instantiate. So the lemmas
(`SumRemove`, `SumAdd`, `SumSame`, `SumSplit`, `SumType`) are proved by a least counterexample: of
the subsets for which a sum would not exist or would be wrong, take one of least cardinality
(`LeastOf`, `SmallestSet`), and remove an element.

**Model-checked only.** Everything that needs fairness (`EveryRequestAnswered`, `SomeCallReturns`, `StopsOnSignal`,
`BenchmarkEnds`): the provers have no rule for `WF` and `ENABLED` here. Every other property of a passing run is a theorem.

## 6. Where the code and its documents disagree

1. **Lost upload permit** (`UploadPermitReturned`, `FileController.kt` 400). When the permit is taken
   and the in-flight bytes are refused, the permit is not given back;
   `memo/bdg.md:303` says permit and bytes are returned.
2. **Folder delete reaches out** (`FolderDeleteReachesOut`, `FileRepository.kt` 34).
   The path is a `LIKE` pattern without `ESCAPE`: deleting `/a_b` deletes `/axb`, too.
   `loadtest/prd.md:347` speaks of the folder and what is below it.
3. **Lost body permit** (`BodyPermitReturned`, `FileController.kt` 285). The comment in line 284 says that the
   permit is returned without fail, whether the body ends normally, by timeout or by the client. A
   body that is cancelled while it waits for the executor never runs its `finally`. With the shipped
   numbers (80 permits, 16 core threads in `application.yml`) bodies do wait.
4. **Completion without drain** (`CompletionDrains`, `FileController.kt` 285). The body's `finally` releases the
   permit and does not drain, although `memo/bdg.md:303` says so. The request waits
   until the next arrival or its timeout.
5. **Parent move never verified** (`ParentMoveVerified`, `benchmark.go` 688). The code compares the number of moved
   files with the number of direct entries of the new folder, which for the parent folder are its
   child folders. `loadtest/prd.md:130` says that the listing of the new path shows the number of files moved, and
   line 128 lists the parent folder among the moves.

## 7. Other observations

These are in the models, and the properties are stated around them. No document
says anything else clearly enough to be a run of its own.

- *An upload too large for the bytes in flight* makes the drain that finds it at the head of
  the queue recurse until its stack is gone (475–480), again and again, until it times out.
- *Leaked counts.* A callback clears `active` before it removes the entry (216–221, 446–452). If a
  drain polls the entry in between, nobody lowers count and bytes
  again. `SlotsConserved` and `BytesConserved` say that this is the only drift. Once the
  counter has drifted, the fast path (177) is closed for good, and the recheck
  (249–252) recurses while a permit is free, until the stack ends.
- *Torn folder deletes* (`FileService.kt` 53–63). What comes into a folder between
  the listing and the `DELETE` loses its row and keeps its bytes on disk; what
  leaves the folder in between keeps its row and loses its bytes.
- *Stored, but answered 503.* The timeout of an upload may fire while another thread
  stores it. 200 implies stored (`UploadHasOneFate`), not the converse.
- *moveFolder* has no user and moves every user's rows below the path; `docs/README.md`
  speaks of isolation by user. `moveFile` answers 200 even if its row is gone by then.
- *Listing* drops rows that only the pattern matched, because `removePrefix` leaves their
  leading `/` and the name before it is blank.
- *Dates.* `uploaded_at` is ordered as text; `Instant.toString` has a variable number of
  digits, so the latest by text need not be the latest by time.
- *Raw uploads* are refused whatever they contain, because `file` is null (`FileController.kt` 392): the
  benchmark's raw mode cannot work.
- *Benchmark verdicts can be too strict.* Leftovers of an earlier run and late uploads make
  verifications fail although the server is right; `prd.md` lists parent folders, too,
  the code only the folders that hold the files.
- *Summary.* The success rate that `printSummary` prints (`benchmark.go` 1116–1173) takes no account of
  hash mismatches and failed verifications, which are printed beside it.
- *Seeds.* `prd.md:51` says that the same seed gives the same content; files of
  the right size that another seed made are kept (`PreparedIsReused` needs it,
  `ListedAsStored` holds all the same).
- *Monitor.* The version request (`docker_collector.go` 33) is not bound to `ctx`, so a signal does not
  end a monitor that hangs there (`StopsOnSignal` excludes it). After a kill
  between `Open` and the header's flush the file never gets a header, and two
  monitors started at once may write two (`doubtful`). The first row of the next monitor
  is glued to a line that the one before left torn. A container that restarts between
  the two readings of one request may give any CPU percentage (`restarted`).

## 8. What is not modelled

- *Statistics and printing* of the benchmark, display formats of the monitor: sequential, no
  state that anything depends on.
- *Lua hooks*: report requests from timers; the endpoint does nothing with them.
  `download.lua` is in `FileStore` as a download that skips the check of existence.
- *Validation*: blank parameters; only the checks a state could tell are guards.
- *Widths*: `Long` overflow of byte counters would need sizes that no file has; sizes are
  never negative. Executor rejection needs more than 264 bodies, and 80 permits bound them.
- *Clock set back* in the rate limiter, and growth of its map (585): visible
  in the code, no exploration needed.
- *Characters* of paths: a path is a sequence of names, `LIKE` a relation between names; a `%` that
  would match across a `/`, and `substr` against UTF-16 lengths, are left out.
- *Scripts, Docker and configuration files*: no logic of their own.

## 9. Plan

Done: every component with logic of its own is modelled and checked, and every
safety property of a passing run is proved.

What is left: an abstract specification of the store, in which a row and its file are one
object, implemented by `FileStore` outside its two races.

## 10. Running the checks

    tlc -config DownloadQueue.cfg MCDownloadQueue
    tlapm DownloadQueueProofs.tla

Each run's module and cfg are named in `PROJECT.json`. A run takes between a second and three
minutes, `DownloadQueueProofs`, `UploadQueueProofs` and `BenchmarkProofs` a few minutes each.
