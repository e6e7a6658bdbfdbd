# A verification of imchlite

imchlite indexes a photo and video library: it walks the library, checksums
every new file, and runs the processing steps of every asset (metadata,
thumbnail, clip embedding, ocr text), while it serves a timeline and a search
over the result. This directory holds TLA+ models of its concurrent core, the
TLC runs that check them on small instances, and TLAPS proofs for every
instance. `tlc -config X.cfg M` checks a run and `tlapm M.tla` a proof module;
PROJECT.json lists every run, theorem, modelled source line and known hazard.

## 1. The system

| Component | Source | State | Operations |
|---|---|---|---|
| task queue | internal/queue/queue.go | heap, sequence number, in-flight count, closed flag, idle channel, condition variable | Push, Pop, Done, Idle, Close, Len |
| worker pool, main | main.go, internal/tasks/process.go | worker goroutines, wait group, signal context | start, Worker, run, EnqueuePendingTasks, shutdown |
| disk lock | internal/disk/disk.go | RWMutex, slot channel, holders, waiters | Do, DoExclusive, Watch |
| library walk | internal/tasks/index.go | snapshot of `files`, pending batch, seen paths | IndexLibrary, walkLibrary |
| processing steps | internal/tasks/{checksum,metadata,thumbnail,clip,ocr}.go | none of their own | one task each |
| repositories | internal/repository | tables files, assets, asset_clip_embeddings, asset_ocr_boxes | upserts, links, statuses, queries |
| progress state | internal/tasks/taskstate.go | atomic counters and flags | Complete, fail, Status |
| metadata extraction | internal/clients/exiftool | one `exiftool -stay_open` child per worker | New, ProbeMetadata, ReverseGeocode, Close |
| sidecars | internal/tasks/metadata_sidecars.go | a cache of directory indexes | Google, Immich, Snapchat, iCloud |
| API, server | internal/api | HTTP server | timeline, search, facets, preview, status |
| migrations | internal/database | schema_version | Open, Migrate |
| caches, downloads | internal/cachedir, internal/clients/hfmodel | unpacked archives, model files | Ensure, Download |
| model runtime | internal/clients/onnxruntime, vec1 | loaded library, one global inference mutex | Load, Wait, Run, Close |
| clip, ocr | internal/ai | sessions | Embed, Read, WaitLoad, Close |
| ffmpeg | internal/clients/ffmpeg | thumbnail files | Thumbnail, ThumbnailFromReader, Preview, Decode |
| frontend | frontend/src | query cache, route state | timeline pages, viewer prefetch |

How they interact. `main` creates the queue, pushes the index task and starts
one goroutine per worker. A worker pops a task, runs it and calls Done. The
index task holds the disk exclusively while it walks; every other task reads
the library through `Disk.Do`. Tasks push tasks: the walk pushes checksum
tasks and re-enqueues the pending steps of known assets, a checksum task that
created an asset pushes its steps, and a thumbnail task pushes the clip task.
Nothing but the database and the thumbnail files survives the process: the
status columns of `assets` are the durable memory of what is left to do. A
signal cancels one context, which every statement, child process and wait
observes; main then closes the queue and waits for the workers.

What is hard. Workers race on the queue, on the disk lock and on assets with
equal content. The process can be killed between any two statements. The user
edits the library while it is walked and read, so the stat of a file, its
checksum and its later reads may see different files. A step may be held by a
queued snapshot, a running worker and the recovery of the next run at once.
Around that core are small machines of their own: a child process that is
talked to over pipes and may die or answer with lines that are too long; a
database of any earlier release that several processes may upgrade, each of
which may die on the way; directories that racing processes unpack and
download; capture times that five sources overwrite; a viewer that steps
through pages another component loads. The components' correctness properties
are the ones the runs check (section 3).

## 2. The modules

| Module | Models | Notes |
|---|---|---|
| Queue | queue.go | operators on the queue's state: each the effect of one critical section |
| WorkerPool | main.go, process.go around the queue | workers, main, the signal; EXTENDS Queue |
| PriorityFifo | the promise of the queue | abstract specification |
| WorkerPoolRefinement | WorkerPool implements PriorityFifo | refinement mapping |
| WorkerPoolProofs | theorems about WorkerPool | |
| Disk | disk.go | one action per access to the mutexes and the channel |
| ReadersWriters | the promise of the disk lock that the code keeps | abstract specification |
| DiskProofs | theorems about Disk | |
| Pipeline | index.go, the tasks, the repositories, several runs of the program | takes the queue and the lock at their abstract word |
| PipelineProofs | theorems about Pipeline | |
| RecoveryProofs | what the second undisturbed run leaves (Pipeline) | EXTENDS PipelineProofs |
| Lifecycle | main.go, server.go, onnxruntime.go, the background loads | the end of the process: who is released, in which order, under whom |
| LifecycleProofs | theorems about Lifecycle | |
| Paging | Query, QuerySimilar, the handler of GET /api/assets | a client that scrolls while the indexer goes on |
| Progress | taskstate.go and what counts in it | Status is one action per load |
| Exiftool | exiftool.go, and processMetadata as its caller | the child, its two pipes, its deaths, Close |
| Metadata | ProbeMetadata, the sidecars, applyCityCountry | one action per function, over the sources of time and place |
| Migrations | migrations.go, migration008.go | every release's database, processes that race and die |
| CacheDir | cachedir.go, hfmodel.go | one action per system call |
| AtomicDir | the promise of a cache directory | abstract specification |
| ServicesProofs | theorems about Metadata, Exiftool, CacheDir and Migrations, and about all of MCServices | EXTENDS MCServices and ClientProofs |
| OcrRegions | connectedRegions | the flood fill, pixel by pixel |
| OcrRecognize | recognize, recognizeBatch | batches and the decoding of their output |
| Ranking | `slices.Sort`, ORDER BY: a set in order | for every module that sorts; without recursion, so that it can be proved about |
| RankingProofs | theorems about Ranking | |
| ClientProofs | theorems about Paging, Viewer, Progress, OcrRegions, OcrRecognize | what a client is shown |
| Viewer | asset.$checksum.tsx, search.ts, the sentinel of _timeline.tsx | the effect, its dependencies, the one fetch at a time |
| MCWorkerPool, MCDisk, MCPipeline, MCLifecycle | instances for TLC | initial libraries, kinds of tasks |
| MCServices | instance of Paging, Progress, Viewer, Metadata, Exiftool, CacheDir, Migrations, OcrRegions, OcrRecognize | they share no state: a behaviour moves one of them, its `focus` |

Definitions named "Bug form" directly before a definition are plausible
mistakes in the code the definition models. No specification uses them; each
property of each run fails when its bug form takes the definition's place.

**Queue and WorkerPool.** `items`, `nextSeq`, `inflight`, `closed`, `idle`
and the condition variable's waiters are the fields of `Queue[T]`. A critical
section under `q.mu` is one step; `Cond.Wait` releases the mutex, so a waiting
worker is a member of `waiting` until a Signal picks it or Broadcast picks all.
A task is a value that may spawn others (constant Spawns), so pushes race with
Close. The heap is a set with the order of `Less`: the operations of
container/heap give a least element, and no property sees the array's layout.

**Disk.** `pc` of a caller walks through the lines of Do, DoExclusive and hold;
Go's RWMutex keeps new readers out once a writer has announced itself; the
channel d.sem is the set of callers that occupy a slot. The bookkeeping
(`holders`, `waiting`) is updated in the critical sections of the code, apart
from the locks it describes. ReadersWriters says who may hold the lock: a walk
alone, readers up to the slots, no walk once the shutdown began. disk.go:50-52
promises the same of a reader whose context is done before it has a slot; the
code does not keep that (section 5), so ReadersWriters lets such a reader in.

**Pipeline.** A file version is a content and a stat that no other version
shares; an asset is its checksum, which is the content it was computed from.
A step is one statement or transaction, one read of the library, one pass of
ffmpeg or one Push. `Start`, `Stop`, `Cancel` and `Crash` give any number of
runs (up to MaxRuns), each with any `--retry-failed` in Retries; a crash loses
`queue`, `walk` and `job` and keeps the database and `thumbs`. The edits of the
user (WriteFile, MoveFile, RemoveFile) happen between and during the runs.
GiveUp is every error return that leaves a step pending: canceled context,
failed statement, unreadable directory. A stat of the walk may fail too
(VisitUnread); the walk then goes on without the file, which `walk.unread`
remembers for NoFalseOffline. `calm` and `disturbed` are
history variables: how many runs were begun since the last edit, signal, crash,
failed statement, failed stat or model that did not load, and whether the library was ever
edited while the program ran.

**Lifecycle.** `main` is the line main waits at: "serve", "wait" (the select of
--index-only), "join" (wg.Wait), or the deferred Close it is about to make, in
the reverse order of the defer statements. `closed` is what was released.
Workers and requests are reduced to their use of what main releases: a task is
a step that needs its worker's exiftool or a model, waits for its load, runs it
once or twice (the probe and the geocoding of a metadata step; the detection
and the texts of an ocr step) and stores an outcome. The mutex of the exiftool,
or `gpu`, the one mutex of all sessions, is held for a run and free between
two. A request runs the tokenizer of the textual model, which has no mutex, and
then its session. Models load in
goroutines; a failed runtime also kills the process at any later moment.
Shutdown's own wait for the requests is not in the state because nothing waits
for it.

**Paging.** `local` and `utc` are the two time columns of assets, `listed` what
the conditions of a query select; Null is SQL's null, with its order (last) and
its comparisons (never true). FetchPage is one request: the repository's query
and the handler's decision about the next cursor, each with its own clamp of
the limit. The cursor is computed from the scanned asset, where null has become
0, and compared with the columns, where it has not. `steady` is a history
variable: the assets that were listed and unchanged since the first page, the
only ones of which pages promise anything.

**Progress.** The counters are those of TaskState. The walk and the tasks are
reduced to the way each file takes through them (`place`), with the two counters
of a skipped file in their two steps; `at` is the next atomic load of a request
that runs Status. `ran` is a history variable.

**Exiftool.** `mu`, `counter` and `scanner` are the fields of the client, the
last one reduced to whether it still reads; `stdin` and `stdout` are the pipes,
with a bounded number of requests and lines. A request is the arguments of one
`run`; of an answer the first line, the last line and `{readyN}` are kept. The
worker (`calling`) probes file after file, and geocodes those with coordinates
and no city; `status` is what processMetadata stores. Close may come under the
worker, as it does when the server fails. What exiftool and the scanner do is
external (the child answers in order; a line over 64 KB ends the scanner).

**Metadata.** `file` holds what each source knows, `stage` the function that
comes next; `localTime`, `utcTime` and `zone` are the fields LocalDateTime,
DateTime and TimeZone, with 0 for "none" as in the code. A wall clock is the
instant at which Greenwich would show it, so that the code's arithmetic is
ordinary subtraction. Tags the code reads alike are one tag. Coordinates and
cities are named after the source they come from.

**Migrations.** `db` is the committed database, `tx` what an open transaction
sees. The schema is the set of objects some statement needs, creates or drops;
the data is what the migrations rewrite. A statement that cannot succeed
(`Applicable`) rolls the transaction back. `original` and `applied` are history
variables, and so is `overlapped`: two processes were in Migrate at one time.
Migration 8 decodes each vector to the right bytes, other bytes, or none, and
compares a sample of them.

**CacheDir and AtomicDir.** `target` is the directory under its final name,
`staging` and `temp` what Ensure and Download are working on; a file is
missing, cut, bad or whole. Failures, deaths and wrong bodies may come anywhere.
AtomicDir says what is left of that for everybody else: absent, or whole.

**OcrRegions, OcrRecognize.** The loops of ocr.go over pixels and over crops.
The recognizer network is external: it gives some class sequence for each crop,
and they arrive in one flat output.

**Viewer.** `loaded` is the concatenation of the query's pages, `lastDeps` the
dependencies with which React ran the effect last. The server's list changes
while pages are fetched; `always` is a history variable, the assets that were
listed all the time. A page is the continuation after a cursor, which is what
Paging checks of the API; undated assets (finding 1) are not among the viewer's.

## 3. The runs

| Run | Question |
|---|---|
| pool | Is no wakeup lost, and "idle" the end of the work? Does the queue implement priority-then-FIFO (nothing lost, nothing twice), does a signal always end the process, and `--index-only` by itself? |
| disk | Does the lock implement its promise (the walk alone, the slots respected, no walk let in after a signal), is the log of Watch exact, does every call return? |
| pipeline_crash | Failures, retries, crashes at any step: do statuses, embeddings, texts and thumbnails agree, and is no step held twice? |
| pipeline_edits | Edits between and during crashing runs: do rows tell the truth about the files, is only a file that is gone or unreadable marked offline, and do two quiet runs repair everything? |
| pipeline_settles | Does every run empty its queue? |
| pipeline_replaced (violated) | Is a moved file always linked to its own content? Not when a file was replaced while it was indexed. |
| lifecycle | Is nothing released under a worker, does `--index-only` end complete, and does the process always end? |
| lifecycle_serve (violated) | Does a step interrupted by the end of the process stay pending? Not when the server failed. |
| lifecycle_graceful (violated) | Does a shutdown let the requests finish? Nothing waits for them. |
| services | Nine questions, one for each component below. |
| paging_undated (violated) | Does a scroll show every asset once? Not the undated ones. |
| capture_zoned (violated) | Does a CreationDate with an offset give its wall clock and its instant? Neither. |

What services asks, with the properties:

| Component | Question | Properties |
|---|---|---|
| Paging | Do the pages of a scroll join, without gaps and repetitions, while the library changes, and do they end? | PagesComplete, PagesOrdered, PagingEnds |
| Progress | Do the counters add up, is the phase true, does it only go forward, is the rate that of tasks, and does a client see the end? | CountersExact, PhaseHonest, PhaseForward, EtaCountsTasks, StatusSettles |
| Viewer | Do Next and Prev skip no asset that was listed all the time, and is Next offered sooner or later, although fetches fail? | StepsSkipNothing, NextIsOffered |
| Metadata | Do five functions that look at each other's results come to the one order of precedence of the comments, but for two cases (section 5), and are city and country of one place? | MetadataByPriority |
| Exiftool | Does every file get its own answer, does none fail but for a lost scanner or child, and does every call return, Close too? | AnswersMatch, RunsReturn |
| CacheDir | Is the directory absent or whole for everybody, and does who loses the race use the winner's, unless it cannot stat it? | ImplementsAtomicDir, LosersReuse |
| Migrations | Does the version claim only what was committed? Do statuses and embeddings survive every upgrade, and can it always go on? | VersionHonest, UpgradeSafe |
| OcrRegions | Are the regions the components of the mask, on every mask of three by three pixels? | RegionsAreComponents |
| OcrRecognize | Is every text that of its own crop, and no batch too wide, for three crops of any of three widths? | BatchesRight |

Bounds. Two workers suffice for every race of the pipeline, which are between
two holders of one asset or one file, and with two workers of the pool a
wakeup can go to one while the other takes the item; the theorems of section 4
cover any number. Two paths give copies, moves and swaps. Three runs are a
disturbed run and two quiet ones, which is what recovery needs (see findings).
MaxStamp bounds the edits of a behaviour: none in pipeline_crash, whose subject
is failures, two in pipeline_edits and pipeline_replaced (which is enough to move a file and
put another in its place), one elsewhere. BatchSize 1 makes the walk
flush while it goes on, and 2 (pipeline_replaced) at its end. MaxPushes bounds the tasks of the pool at four: a running one, two
queued ones whose order matters, and one pushed late. The lifecycle has two
workers (one may be in a step while the other is gone), one step that needs
exiftool and one that needs a model, each with a second run or without (one of
clip is one of ocr without), and one request; the violated runs need one
worker. More batches of texts would be more second runs. Paging has three assets with two times each (one before 1970, one
with only an instant) and pages of one or two, so a scroll takes up to four
requests and every tie and every null meets a page boundary (MaxShown is never
reached, as PagingEnds shows); Progress has two
files, one for each of two ways that overlap. The viewer has four assets on
pages of two, two changes of the library and one failing fetch: a change before
and one behind the cursor, and a failure at the end of what is loaded. Metadata
takes every set of present sources (one value each: what counts is who is
there), with and without an offset. Exiftool has two files, of any of four
kinds, and pipes that hold one request and one line, so that both sides block.
CacheDir has two processes and two files, one of them downloaded, and one
death; Migrations two processes, two assets and a sample of one vector, so that
a wrong vector can be in the sample or beside it, and every version to start
from. Masks of three by three pixels have an inner pixel, two row ends and
regions that meet at corners. Three crops with widths 2, 3 and 5 against a
bound of 8 make batches of one, two and three crops, cut by either condition.
CHECK_DEADLOCK is off in the pipeline, lifecycle and services
runs because the program really stops there; the pool says so with
its action Terminated, so that a worker stuck before the end is a deadlock.

Fairness. Workers and main are goroutines: weak fairness of their steps is the
Go scheduler's. External programs, statements and reads are assumed to return.
For the disk lock strong fairness of a waiting caller is what Go provides: a
channel hands a slot to the sender that waits longest, a RWMutex lets the
readers that queued behind a writer in before the next writer, and sync.Mutex
has a starvation mode. The lifecycle needs only weak fairness of each kind of
goroutine (main, the loads, some worker, some request, the goroutine of
Shutdown): after a signal finitely many uses compete for the session mutex. Its
"a run ends" includes that exiftool answers, which one whose scanner is lost may
not do (section 5).
In services the client goes on to scroll and to poll, as the frontend does;
React runs an effect whose dependencies changed and a fetch answers or fails,
and the exiftool child goes on while it lives. Migrations, CacheDir, Metadata
and the OCR loops have no fairness: nothing is claimed of their end.
Signals, crashes, edits and starts have no fairness.

## 4. The proofs

TLAPS checks, for every number of workers, readers, slots, tasks, files, rows,
pixels and crops:

**WorkerPoolProofs.** Type correctness with `inflight = Cardinality(Busy)`
(InflightCorrect); a closed idle channel means nothing is queued or running
(IdleCorrect) and it stays so (IdleIsFinal); no lost wakeup (NoLostWakeup);
Close wakes every worker (CloseWakesAll); an item is queued, running or
finished but never twice (TasksRunOnce). The argument for "no lost wakeup"
counts: while some worker waits (`waiting` is not empty), there are at least as
many awake workers outside a task (`Awake`) as items in the queue; Push adds
one to both sides, Pop takes one from both. IdleCorrect needs that `inflight`
is exact, so the two are proved in this order. And the queue implements
PriorityFifo (QueueIsFifo): a new entry has a greater sequence number than all
others, so it joins the end of its lane, and the top of the heap is the head of
the first lane that is not empty. This is Fifo!Spec; that the steps come at all
(the fairness in ServesFifo) is for the run to check.

**DiskProofs.** The walk is alone and slots are respected (DiskExclusion), the
lock implements ReadersWriters (DiskImplements; for readers after the shutdown
see Disk in section 2), the log of Watch is exact
(WatchCorrect), and the types hold (TypeCorrect). The inductive invariant ties
`pc` to the lock state: who is between RLock and RUnlock is in `rlocked`, who is
between send and receive is in `sem`, and a writer past Lock excludes all
readers past RLock. The same invariant gives that the lock never deadlocks (NeverStuck): were every caller waiting, nobody
would hold a slot, so no reader would wait for one, so nobody would hold the
read lock, so no writer would wait for it, and then the lock would be free.

**PipelineProofs.** Five inductive invariants:

- TypeInv (TypeCorrect): the types, with what a worker holds at each step of
  its task, and the walk alone but for tasks that wait to read.
- ClaimInv (OneTaskCorrect, FinishedIsFinal): a step of an asset can be claimed
  by a queued task, by a worker and by what a worker has still to push (its
  outbox), and at most one of them has a claim. A thumbnail task claims the clip
  step too until it has pushed it, which is why this push and the recovery of
  the walk never meet. What has a claim is still due in the row, so a result is
  only ever stored over a pending status, or a failed one with --retry-failed.
- ResultInv (ResultsCorrect, ThumbnailCorrect): embeddings, boxes and thumbnail
  files agree with the statuses after every statement, and so after every crash.
  The claim is what keeps a second worker from storing in between.
- QueueInOrder (QueueServes): the queue of Pipeline is a sorted sequence, which
  is what lets it stand for PriorityFifo: the head is the oldest of the most
  urgent tasks, and a push lands at the end of its lane, behind all of at least
  its priority and before all others. Counting those of at least its priority,
  as Insert does, gives that place only because the queue is in order.
- LinkInv (LinksCorrect, OfflineIsGone): as long as no edit met a run
  (`disturbed`; finding 2 is what an edit can do), rows, waiting checksum tasks
  and the walk's snapshot and batch agree with the library: what the walk has
  not visited is as in the snapshot, what it has visited and not seen is gone or
in `walk.unread`.
  No two versions share a stat, so a row with the stat of a file is about it.

**RecoveryProofs.** RecoveryCorrect is SecondRunCompletes: what the second
undisturbed run in a row leaves, for any library and any workers. `Load` is the
set of tasks the process has still to do, queued, run or in an outbox; Flow says
for every step what leaves it and what joins it. On it stand, each with the help
of those before it:

- StoreInv, RowInv, CalmInv: what a worker is about to store is an outcome and
  never pending, a linked row is linked to a row of the assets, and a calm run
  is loaded and has no signal;
- FilesInv: in a calm run every path that the walk has visited has a row with
  the stat of the file, which is linked or whose checksum task is in the load.
  A checksum task leaves the load only with the file linked, since no edit, stop
  or failure to read comes between;
- DoneInv: so the second walk begins with a table that is as it should be, reads
  it into its snapshot, changes nothing and enqueues no checksum task;
- HeldInv: after the recovery of the walk, every step of an online asset that is
  pending is claimed by a task of the load, which leaves it only with the status
  written. A thumbnail task stands for the clip step too, until it pushes it.

An idle queue is an empty load, which leaves nothing pending. One calm run is not
enough, for the reason in the first remark of section 5.

**LifecycleProofs.** Nothing is released under a worker unless the server
failed (ReleaseAfterJoin); a step whose model failed to load is never stored as
done or failed (FailedLoadSafe); `--index-only` ends complete (IndexOnlyDone);
types, and who may hold the session mutex (TypeCorrect). Sessions run one at a
time and nothing is closed while it is used (SessionsExclusive), even on the way
past the join that finding 3 is about: who runs a session is the holder of the
mutex (SessionInv), which Close needs free. The tokenizer is no part of that:
it is freed under a request (TokenizeFreed). And as long as the server has not
failed, outcomes are only stored by workers that met nothing closed
(OnlyTheServerBreaks), so finding 3 has no other cause.

ReleaseAfterJoin rests on "main is at a deferred Close" implying that all
workers left, which no worker step undoes; FailedLoadSafe on every worker past
WaitLoad having a model that is ready, and models only becoming ready;
IndexOnlyDone on every pending step being queued or in the hands of a worker
that will store it, unless its model failed or the context was done, together
with idle meaning that neither is there.

**RankingProofs.** What sorting means, which the prover cannot get from TLC's
sorting operators: in a finite set with a strict total order, counting the
elements below gives every element its own rank (RankGrows, RanksOnto), so
Ranked lists every element once and in order (RankedSorts); a greatest element
is appended, the least is the head (RankedAppend, RankedTail).

**ClientProofs.**

- pages show everything (PagesShowAll) and join in order (PagesJoin), whatever
  is indexed between them: a steady asset that has a place was shown or is
  past the cursor (CompleteInv), and what was shown is at or before it
  (OrderedInv). Both orders are total because the id decides ties;
- Next and Prev skip nothing (StepsCorrect): what is loaded is in order and has
  all of `always` up to the next cursor, or all when there is none (ViewerInv),
  because a page is what follows its cursor without a gap (PageFollows);
- CountersCorrect, PhaseCorrect, EtaCorrect and PhaseNeverGoesBack about the
  progress: the loads of Status are compared with the counters of the moment.
  Those read first are at most, and those read last at least, what makes the
  phase true;
- the regions of a mask are its components (RegionsCorrect): the seed's cluster
  (the region so far and the stack) is connected, visited and closed but for
  the stack, and every finished region is closed under neighbours. The lemmas
  about rows and columns show that the arithmetic on pixel numbers never takes
  the next row's first pixel for a neighbour;
- batches change nothing (BatchesCorrect): the classes of the crop at place b
  of a batch are at (b - 1) * steps + 1 to b * steps of the output
  (OutputOfCrop), decoding a part is decoding it alone (DecodePart), and the
  crops before `start` in the order of widths are in one place of one batch.

**ServicesProofs.** The order of precedence for all times and offsets
(PriorityCorrect): the invariant gives the reference value after each function,
restricted to the sources applied so far. Where the code departs from the
comments' order (GpsPassedOver, WallBesideGoogle) it gives the value the code
takes; the property leaves these cases out by name. And no file is given another one's
answer by exiftool (AnswersCorrect), for any files and pipe sizes: as long as
the scanner reads, outside of a scan nothing is in a pipe but a request to quit;
during one, what was read, what is in stdout and what the child has still to
write are in this order the answer to the one request of this number, or its
beginning once the child is dead. After a long line the rest stays in the pipe,
which is harmless only because the scanner never reads again.

The version claims only what was committed, even when
processes race (VersionCorrect); without overlap, statuses and embeddings
survive and no process gets stuck (UpgradeCorrect). The invariant is that the
database, and the one an open transaction sees, is the data of a release
(DataOf) with the schema of its version, and that at most one process is in
Migrate, with the right version in mind. Ensure implements AtomicDir
(EnsureIsAtomic), and who loses the race gets the directory
(LosersGetTheDirectory) unless it fails to stat it: a file in a staging directory is whole unless its
process is failing, hence the directory that is renamed is whole.

Last come the components together. ServicesSpec starts each of the nine in one
of its own initial states (StartsAll), and each of its steps is a step of one
component that leaves the variables of the others alone (StepsOne), so it
implies the specification of each (EachItsSpec). Hence the types of all hold
(ServicesTyped, for which CacheTypes, MigrationTypes and RecognizeTypes supply
what the other invariants do not contain: a transaction with something done in
it is a database of a version that is not the latest, OpenInv), and so do all
the safety properties that the run checks, for every value of every constant
(ServicesCorrect).

Assumptions: only those named in the modules. They say that sets of workers,
callers, paths and ids are finite, that names which stand for "none" are no
values, and that limits are numbers; OcrRecognize assumes of the network only
that it gives every crop of a batch the same number of classes. Some theorems
state properties that no run repeats. SharedOrExclusive of the lock and
InflightIsBusy, NobodySleepsClosed and RunOnce of the queue would fail together
with a refinement or a deeper property of a run; QueueInOrder and QueueStep of
Pipeline, SomebodyCanGo of Disk, OneSessionUser, ClosedUnused and
InterruptedUnlessFailed of Lifecycle, and the type invariants of single modules
are stated in the proof modules only.

Model-checked only: every liveness property (out of the prover's reach, as is
ENABLED). Every invariant and action property of the passing runs has a
theorem. Nothing here computes by recursion, so no
induction over data is missing: sorting and decoding are defined by ranks and
indexes (Ranking), which is what made their theorems possible.

## 5. Findings

1. internal/repository/asset_repository.go:564 compares the cursor with a
   capture time that may be null. Undated assets come last in the timeline, and
   only those on the first page that reaches them are ever shown; a cursor from
   an undated asset moreover repeats the assets from before 1970
   (paging_undated). PagesComplete and PagesOrdered are the properties the
   code does have.
2. internal/tasks/index.go:236-237 reuses the asset of an inode that "already
   holds known, unchanged content". A file that is moved away and replaced
   between its stat and its checksum (as editors that keep a backup do) joins
   the inode of the original to the new content. In the next run the walk finds
   the original under its new name, links it through the inode to the asset of
   the new content, and never checksums it again (pipeline_replaced).
3. src/main.go:220 returns when the server fails (a port in use), past
   queue.Close and wg.Wait: the deferred calls close exiftool and the models
   under the workers, whose steps are then stored as failed, against
   metadata.go:25-27 (lifecycle_serve).
4. internal/api/server.go:69 promises a graceful shutdown. Serve returns at once
   when Shutdown is called and RunServer does not wait for it; its deferred
   cancel ends the grace period, whose five seconds began with the server
   anyway. Requests lose the database and the model (lifecycle_graceful). The
   tokenizer of the model is freed without a mutex (clip_textual.go:123-126)
   and may be in use then, which is undefined: TokenizeFreed.

5. internal/clients/exiftool/exiftool.go:251-252 says that CreationDate "carries
   the wall clock together with its UTC offset, so it fills both columns". Line
   257 stores the instant as the wall clock and line 258 subtracts the offset
   from the instant once more, so both columns are off by the offset
   (capture_zoned). CaptureByPriority therefore leaves such files out.

Remarks that no run turns into a violation, because no sentence of the
repository is plainly broken or because the case is outside a property:

- main.go:198-199 takes an idle queue for finished work. A run that dies
  between the insertion of an asset and the link of its file leaves an asset
  without an online file; the next run links it after the recovery has looked,
  so its steps wait for the run after that. SecondRunCompletes is the property
  the code does have.
- disk.go:50-52 promises that `fn` is not run when ctx is done before a slot is
  acquired. The select (63-69) picks at random when a slot is free too, and
  without a limit ctx is not looked at, so `fn` is run. ImplementsPromise claims
  nothing about it: TakeSlot goes on after the signal as in the code, and
  ReadersWriters allows it. The callers tolerate it because their work fails on
  the same context.
- A file whose stat or inode cannot be read (index.go:218-221), for whatever
  passing reason, is left out of seenPaths, and the walk that goes on marks it
  offline although it is there (331-343); the next run that reads it brings it
  back. NoFalseOffline exempts such files by name.
- Such a file also stays counted as discovered only,
  so the phase is "processing" for the rest of the run; StatusSettles names it.
- A tag longer than 64 KB ends the scanner of a worker for good
  (exiftool.go:119): all its later probes fail and are stored as failed, against
  metadata.go:24-25, which has failed mean "the file cannot be probed". Nobody
  reads stdout any more, so the child ends up blocked on it, then a worker on
  stdin with the mutex and a slot of the disk, and then Close, whose three
  seconds begin only after its own write. AnswersMatch and RunsReturn hold up
  to that point and name it.
- Metadata: the comment at exiftool.go:306-310 has SonyDateTime2 and DateTimeUTC
  "kept after" GPSDateTime, but for a video that has both the switch at 296-302
  takes the later tag first (GpsPassedOver); metadata_sidecars.go:71-72 calls
  the time of the Google sidecar authoritative, but it sets only the instant and
  the embedded wall clock, which the timeline prefers, stays (WallBesideGoogle).
  The reference order of MetadataByPriority is that of the comments, and leaves
  out these two cases. The day from a Snapchat name stays even when iCloud knows
  the instant; a sidecar that moves the place keeps the city of the
  embedded coordinates; a geocoding for a missing country overwrites the city
  tag too; the second 0 of 1970 is "unknown". An index of sidecars is kept per
  directory until the process ends, so a sidecar written later is not seen.
- Migrations: the version is read before, and not in, the transaction of a
  migration (migrations.go:287). Two processes that start at once can commit
  migrations 1, 2 or 7 again and set the version back, after which migration 3
  or 8 fails for ever, and a late migration 5 drops the table of migration 8.
  UpgradeSafe therefore asks that they do not overlap. Migration 8 compares
  100 vectors: with more, a wrong decoding may pass.
- A cache directory is named without a version but for the one of ONNX Runtime,
  so a new release goes on with the old exiftool, ffmpeg, vec1 or model. A
  process that dies leaves its staging directory (`litter`). Nothing is synced,
  so a loss of power may leave a directory that is not whole.
- A viewer opened by URL on an asset that is not loaded has neither Next nor
  Prev. A fetch that keeps failing is repeated by the effect without a pause
  beyond the retry's. An asset that a page repeats (finding 1) makes Next come
  back to its first occurrence.

## 6. What was planned, and what is left

Done: the queue and its pool, the lock, the pipeline, the end of the process,
paging, progress, and with them the small machines: exiftool, the capture time,
migrations, caches and downloads, the loops of the OCR, the viewer. There are
theorems for each of them, up to the recovery by a second run. What is left is
liveness, which stays with TLC, and the parts of section 7.

## 7. Not modelled

- How a sidecar is found: the title index of Google Takeout with its truncated
  and numbered names, the rows of iCloud. It is string matching, which a model
  would spell out character by character.
- Excluded paths (internal/utils/exclude.go) and the directories of the walk: a
  path is visited or not. The batches, the snapshot and what follows are in.
- Filters, facets, the single asset, previews, the parsing of parameters: they
  read, and every one of them is one statement.
- Boxes, scores and image scaling of the OCR, the preprocessing of clip, the
  networks: floating point. The choice of the device and its fallback.
- ffmpeg's Preview and Decode, which leave no state.
- Rendering and forms of the frontend. Its state that could go wrong, the
  shared pages, is in Viewer.
- The vendored programs and libraries (exiftool, ffmpeg, vec1, ONNX Runtime).
  The C headers under internal/clients/onnxruntime/include are the vendor's and
  hold declarations only: no definition translates a line of them.
- SQLite's own transactions (taken as atomic, and a lock as held until the end)
  and the Go runtime (its mutexes, channels and condition variables are taken at
  their documentation). A loss of power.
