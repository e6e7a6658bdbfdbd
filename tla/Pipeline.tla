------------------------------ MODULE Pipeline ------------------------------
(***************************************************************************)
(* The indexing pipeline, internal/tasks with internal/repository: the     *)
(* walk of the library, the tasks of the workers, the files and assets     *)
(* tables and the thumbnail files they maintain, over several runs of the  *)
(* program with signals and crashes between any two steps, while somebody  *)
(* edits the library.                                                      *)
(*                                                                         *)
(* A step is one database statement or transaction, one read of the        *)
(* library under the disk lock, one pass of ffmpeg, or one Push.  The      *)
(* queue is taken as PriorityFifo states it (WorkerPool implements it) and *)
(* the disk lock as ReadersWriters does (Disk implements it): a sorted     *)
(* sequence, and "no other read while the walk runs".  An asset is its     *)
(* checksum, and a checksum is the content it was computed from.           *)
(***************************************************************************)
EXTENDS Naturals, Sequences, FiniteSets

CONSTANTS Paths,      \* the library paths
          Contents,   \* file contents, which are also the checksums
          Videos,     \* the contents that are videos
          Workers,    \* the worker goroutines
          None,       \* no value: a missing file, row, asset or task
          InitFs,     \* the library before the first run
          BatchSize,  \* upsertBatchSize
          StepsFail,  \* steps and statements may fail for reasons of their own
          Retries,    \* the values of --retry-failed that runs may have
          MaxStamp,   \* bound of the model: versions of library files
          MaxRuns     \* bound of the model: runs of the program

Steps == {"metadata", "thumbnail", "clip", "ocr"}
Kinds == Steps \cup {"index", "checksum"}
Status == {"pending", "ok", "failed", "skipped"}

\* A version of a file: its content and its stat (inode, size and mtime),
\* which no other version shares.
Version == [content : Contents, stamp : 1..MaxStamp]
FileRow == [asset : Contents \cup {None}, stamp : 1..MaxStamp, offline : BOOLEAN]
AssetRow == [Steps -> Status]

\* A queued task.  The asset of a task is a snapshot of the row: of its
\* statuses the thumbnail task reads that of clip, and the clip task that of
\* the thumbnail ("seen").
Task == [kind : Kinds, path : Paths \cup {None}, asset : Contents \cup {None},
         seen : Status]

ASSUME PipelineAssumption ==
  /\ Videos \subseteq Contents
  /\ None \notin Paths \cup Contents \cup Task \cup Version \cup FileRow \cup AssetRow
  /\ InitFs \in [Paths -> Version \cup {None}]
  /\ \A p, q \in {r \in Paths : InitFs[r] # None} :
       /\ InitFs[p].stamp <= Cardinality(Paths)
       /\ InitFs[p].stamp = InitFs[q].stamp => p = q
  /\ BatchSize \in Nat \ {0}
  /\ StepsFail \in BOOLEAN
  /\ Retries \subseteq BOOLEAN
  /\ MaxStamp \in Nat /\ MaxRuns \in Nat
  /\ IsFiniteSet(Paths) /\ Cardinality(Paths) <= MaxStamp

VARIABLES
  fs,         \* the library: the version at each path
  stamp,      \* the newest version
  files,      \* table files, by path
  assets,     \* table assets, by checksum: the status of each step
  embeddings, \* table asset_clip_embeddings: the assets with a row
  boxes,      \* table asset_ocr_boxes: the assets that were read
  thumbs,     \* the thumbnail files: "none", "partial", "whole"
  run,        \* the number of the run, 0 before the first
  up,         \* the program runs
  ctxDone,    \* its context is canceled
  retry,      \* its --retry-failed flag
  loaded,     \* its models load
  queue,      \* its task queue
  walk,       \* the state of its library walk
  job,        \* what each of its workers does
  calm,       \* history: runs begun since the last disturbance, up to 2
  disturbed   \* history: the library was edited while the program ran

db == <<files, assets, embeddings, boxes>>
env == <<fs, stamp>>
process == <<run, up, ctxDone, retry, loaded>>
history == <<calm, disturbed>>
vars == <<env, db, thumbs, process, queue, walk, job, history>>

----------------------------------------------------------------------------
\* Tasks and the queue

Priority == [index |-> 5, checksum |-> 4, metadata |-> 3,
             thumbnail |-> 2, clip |-> 1, ocr |-> 0]

IndexTask == [kind |-> "index", path |-> None, asset |-> None, seen |-> "pending"]
ChecksumTask(p) == [kind |-> "checksum", path |-> p, asset |-> None, seen |-> "pending"]
StepTask(k, a, p, s) == [kind |-> k, path |-> p, asset |-> a, seen |-> s]

\* Push: behind every queued task of at least its priority.
Insert(q, t) ==
  LET n == Cardinality({i \in DOMAIN q : Priority[q[i].kind] >= Priority[t.kind]})
  IN  SubSeq(q, 1, n) \o <<t>> \o SubSeq(q, n + 1, Len(q))

\* Bug form: failed steps run again in every run.
ShouldRunFailed(s) == s \in {"pending", "failed"}
ShouldRun(s) == s = "pending" \/ (retry /\ s = "failed")

Idle == [task |-> None, step |-> "idle", path |-> None, got |-> None,
         result |-> "pending", outbox |-> {}]
\* The state of a walk; "unread" is history: the files whose stat failed.
NoWalk == [snapshot |-> <<>>, todo |-> {}, batch |-> {}, seen |-> {}, unread |-> {}]

\* The walk holds the disk exclusively until its task pushes nothing more.
WalkSteps == {"snapshot", "visit", "flush", "repush"}
DiskFree == \A w \in Workers : job[w].step \notin WalkSteps

Set(w, j) == job' = [job EXCEPT ![w] = j]
Goto(w, there) == job' = [job EXCEPT ![w].step = there]
Finish(w) == job' = [job EXCEPT ![w] = Idle]

At(w, kinds, step) ==
  /\ job[w].step = step
  /\ job[w].task.kind \in kinds

Online(p) == files[p] # None /\ ~files[p].offline
LiveFiles(c) == {p \in Paths : Online(p) /\ files[p].asset = c}

Init ==
  /\ fs = InitFs
  /\ stamp = Cardinality(Paths)
  /\ files = [p \in Paths |-> None]
  /\ assets = [c \in Contents |-> None]
  /\ embeddings = {} /\ boxes = {}
  /\ thumbs = [c \in Contents |-> "none"]
  /\ run = 0 /\ up = FALSE /\ ctxDone = FALSE /\ retry = FALSE /\ loaded = TRUE
  /\ queue = <<>>
  /\ walk = NoWalk
  /\ job = [w \in Workers |-> Idle]
  /\ calm = 0 /\ disturbed = FALSE

----------------------------------------------------------------------------
\* The user's edits of the library.  A move keeps the version of the file.

MayEdit == stamp < MaxStamp
Edited ==
  /\ stamp' = stamp + 1
  /\ calm' = 0
  /\ disturbed' = (disturbed \/ up)
  /\ UNCHANGED <<db, thumbs, process, queue, walk, job>>

WriteFile(p, c) ==
  /\ MayEdit
  /\ fs' = [fs EXCEPT ![p] = [content |-> c, stamp |-> stamp + 1]]
  /\ Edited

\* Each edit takes a stamp, so that their number is bounded.
MoveFile(p, q) ==
  /\ MayEdit
  /\ p # q /\ fs[p] # None
  /\ fs' = [fs EXCEPT ![p] = None, ![q] = fs[p]]
  /\ Edited

RemoveFile(p) ==
  /\ MayEdit
  /\ fs[p] # None
  /\ fs' = [fs EXCEPT ![p] = None]
  /\ Edited

Edit ==
  \/ \E p \in Paths, c \in Contents : WriteFile(p, c)
  \/ \E p, q \in Paths : MoveFile(p, q)
  \/ \E p \in Paths : RemoveFile(p)

----------------------------------------------------------------------------
\* The process

\* main queues the index task and starts the workers.
Start(r, l) ==
  /\ ~up /\ run < MaxRuns
  /\ up' = TRUE /\ ctxDone' = FALSE /\ run' = run + 1
  /\ retry' = r /\ loaded' = l
  /\ queue' = <<IndexTask>>
  /\ calm' = IF ~l THEN 0 ELSE IF calm = 2 THEN 2 ELSE calm + 1
  /\ UNCHANGED <<env, db, thumbs, walk, job, disturbed>>

Cancel ==
  /\ up /\ ~ctxDone
  /\ ctxDone' = TRUE
  /\ calm' = 0
  /\ UNCHANGED <<env, db, thumbs, run, up, retry, loaded, queue, walk, job, disturbed>>

Quiet == queue = <<>> /\ \A w \in Workers : job[w] = Idle

\* The workers drained the queue and main returns.
Stop ==
  /\ up /\ Quiet
  /\ up' = FALSE
  /\ UNCHANGED <<env, db, thumbs, run, ctxDone, retry, loaded, queue, walk, job, history>>

\* The process dies: its memory is lost, the database and the files stay.
Crash ==
  /\ up /\ ~Quiet
  /\ up' = FALSE
  /\ queue' = <<>> /\ walk' = NoWalk
  /\ job' = [w \in Workers |-> Idle]
  /\ calm' = 0
  /\ UNCHANGED <<env, db, thumbs, run, ctxDone, retry, loaded, disturbed>>

----------------------------------------------------------------------------
\* The worker loop

FirstStep(t) ==
  CASE t.kind = "index" -> "snapshot"
    [] t.kind = "checksum" -> "read"
    [] t.kind = "metadata" -> IF t.path = None THEN "live" ELSE "read"
    [] t.kind = "thumbnail" -> "live"
    [] t.kind = "clip" -> IF t.seen = "failed" THEN "store" ELSE "load"
    [] t.kind = "ocr" -> IF t.asset \in Videos THEN "store" ELSE "live"

\* What the store step writes when nothing of the task has run yet: the clip
\* step of a failed thumbnail fails, the ocr step of a video is skipped.
FirstResult(t) ==
  CASE t.kind = "clip" /\ t.seen = "failed" -> "failed"
    [] t.kind = "ocr" /\ t.asset \in Videos -> "skipped"
    [] OTHER -> "pending"

\* Worker and run: the next task is popped; a canceled context drops it.
Pop(w) ==
  /\ up /\ job[w] = Idle /\ queue # <<>>
  /\ queue' = Tail(queue)
  /\ LET t == Head(queue)
     IN  IF ctxDone
           THEN UNCHANGED job
           ELSE Set(w, [Idle EXCEPT !.task = t, !.step = FirstStep(t),
                                    !.path = t.path, !.result = FirstResult(t)])
  /\ UNCHANGED <<env, db, thumbs, process, walk, history>>

\* The steps that are database statements, or the walk's directory reads.
StatementSteps == {"snapshot", "visit", "lookup", "insert", "link", "live", "store"}

\* The task returns an error and its status stays pending: a canceled
\* context makes every statement, every wait for a model or for the disk and
\* every external program fail; without it a statement may fail, the walk,
\* or the read of a file that is checksummed.
GiveUp(w) ==
  /\ \/ ctxDone /\ job[w].step \in StatementSteps \cup {"read", "load", "make", "made"}
     \/ StepsFail /\ (job[w].step \in StatementSteps \/ At(w, {"checksum"}, "read"))
  /\ Finish(w)
  /\ walk' = IF job[w].task.kind = "index" THEN NoWalk ELSE walk
  /\ calm' = 0
  /\ UNCHANGED <<env, db, thumbs, process, queue, disturbed>>

\* One Push of the running task.  (A new asset's tasks wait until the file is
\* linked.)
PushOne(w) ==
  /\ job[w].step \in {"push", "flush", "repush"}
  /\ \E t \in job[w].outbox :
       /\ queue' = Insert(queue, t)
       /\ job' = [job EXCEPT ![w].outbox = @ \ {t}]
  /\ UNCHANGED <<env, db, thumbs, process, walk, history>>

EndPush(w) ==
  /\ job[w].step \in {"push", "flush", "repush"} /\ job[w].outbox = {}
  /\ IF job[w].step = "flush" THEN Goto(w, "visit") ELSE Finish(w)
  /\ walk' = IF job[w].step = "repush" THEN NoWalk ELSE walk
  /\ UNCHANGED <<env, db, thumbs, process, queue, history>>

----------------------------------------------------------------------------
\* indexTask: IndexLibrary and walkLibrary, under the exclusive disk lock

TakeSnapshot(w) ==
  /\ At(w, {"index"}, "snapshot") /\ ~ctxDone
  /\ walk' = [NoWalk EXCEPT !.snapshot = files, !.todo = Paths]
  /\ Goto(w, "visit")
  /\ UNCHANGED <<env, db, thumbs, process, queue, history>>

\* Bug form: a changed file keeps the asset its path had.
KnownAssetsByPath(v) ==
  {None} \cup {walk.snapshot[q].asset :
                 q \in {r \in Paths : walk.snapshot[r] # None /\ fs[r] = v}}

\* The asset an indexed file may reuse: that of a known row of the same
\* version (the file was moved).  The map has one row per inode, which may
\* be one of another version, and then there is none.
KnownAssets(v) ==
  {None} \cup {walk.snapshot[q].asset :
                 q \in {r \in Paths : walk.snapshot[r] # None /\ walk.snapshot[r].stamp = v.stamp}}

Unchanged(p) ==
  /\ walk.snapshot[p] # None
  /\ walk.snapshot[p].stamp = fs[p].stamp
  /\ ~walk.snapshot[p].offline

\* visitFile, when the file is gone before its stat.
VisitGone(p) ==
  /\ fs[p] = None
  /\ walk' = [walk EXCEPT !.todo = @ \ {p}]
  /\ UNCHANGED queue

\* visitFile, when the stat or the inode of a file that is there cannot be
\* read: the error is only logged, and the file is not seen either.
VisitUnread(p) ==
  /\ fs[p] # None
  /\ walk' = [walk EXCEPT !.todo = @ \ {p}, !.unread = @ \cup {p}]
  /\ UNCHANGED queue

\* Bug form: a file found unchanged is not remembered as seen.
VisitKnownUnseen(p) ==
  /\ fs[p] # None /\ Unchanged(p)
  /\ walk' = [walk EXCEPT !.todo = @ \ {p}]
  /\ queue' = IF walk.snapshot[p].asset = None THEN Insert(queue, ChecksumTask(p)) ELSE queue
\* Bug form: a file found unchanged is taken as checksummed.
VisitKnownLinked(p) ==
  /\ fs[p] # None /\ Unchanged(p)
  /\ walk' = [walk EXCEPT !.todo = @ \ {p}, !.seen = @ \cup {p}]
  /\ UNCHANGED queue
\* visitFile, when the row is up to date: checksummed if a run has not got
\* to it yet.
VisitKnown(p) ==
  /\ fs[p] # None /\ Unchanged(p)
  /\ walk' = [walk EXCEPT !.todo = @ \ {p}, !.seen = @ \cup {p}]
  /\ queue' = IF walk.snapshot[p].asset = None THEN Insert(queue, ChecksumTask(p)) ELSE queue

\* visitFile, when the file is new, modified, moved or back online.
VisitNew(p) ==
  /\ fs[p] # None /\ ~Unchanged(p)
  /\ \E a \in KnownAssets(fs[p]) :
       LET row == [asset |-> a, stamp |-> fs[p].stamp, offline |-> FALSE]
       IN  walk' = [walk EXCEPT !.todo = @ \ {p}, !.seen = @ \cup {p},
                                !.batch = @ \cup {[path |-> p, row |-> row]}]
  /\ UNCHANGED queue

\* The directories list the paths in any order the inodes give.
Visit(w, p) ==
  /\ At(w, {"index"}, "visit") /\ ~ctxDone
  /\ p \in walk.todo /\ Cardinality(walk.batch) < BatchSize
  /\ \/ (VisitGone(p) \/ VisitKnown(p) \/ VisitNew(p)) /\ UNCHANGED calm
     \/ VisitUnread(p) /\ calm' = 0
  /\ UNCHANGED <<env, db, thumbs, process, job, disturbed>>

\* flush: one transaction upserts the batch, then its tasks are pushed.
Flush(w) ==
  /\ At(w, {"index"}, "visit") /\ ~ctxDone
  /\ walk.batch # {}
  /\ walk.todo = {} \/ Cardinality(walk.batch) >= BatchSize
  /\ files' = [p \in Paths |->
                 IF \E b \in walk.batch : b.path = p
                   THEN (CHOOSE b \in walk.batch : b.path = p).row
                   ELSE files[p]]
  /\ walk' = [walk EXCEPT !.batch = {}]
  /\ job' = [job EXCEPT ![w].step = "flush",
               ![w].outbox = {ChecksumTask(b.path) : b \in {x \in walk.batch : x.row.asset = None}}]
  /\ UNCHANGED <<env, assets, embeddings, boxes, thumbs, process, queue, history>>

Missing == {p \in Paths : /\ walk.snapshot[p] # None /\ ~walk.snapshot[p].offline
                          /\ p \notin walk.seen}

\* MarkOffline, one chunk of ids at a time, after a complete walk only.
MarkOffline(w) ==
  /\ At(w, {"index"}, "visit") /\ ~ctxDone
  /\ walk.todo = {} /\ walk.batch = {} /\ Missing # {}
  /\ \E chunk \in SUBSET Missing \ {{}} :
       /\ files' = [p \in Paths |-> IF p \in chunk THEN [files[p] EXCEPT !.offline = TRUE]
                                                   ELSE files[p]]
       /\ walk' = [walk EXCEPT !.seen = @ \cup chunk]
  /\ UNCHANGED <<env, assets, embeddings, boxes, thumbs, process, queue, job, history>>

\* EnqueuePendingTasks for one asset: the steps that should run, but the clip
\* step only when the thumbnail step does not.
PendingTasks(c) ==
  {StepTask(k, c, None, IF k = "thumbnail" THEN assets[c]["clip"] ELSE assets[c]["thumbnail"]) :
     k \in {s \in Steps : /\ ShouldRun(assets[c][s])
                          /\ s = "clip" => ~ShouldRun(assets[c]["thumbnail"])}}

\* GetAssetsWithPendingTasks: only those with an online file.
Recoverable == {c \in Contents : assets[c] # None /\ LiveFiles(c) # {}}

\* IndexLibrary after the walk, still under the exclusive lock.
Recover(w) ==
  /\ At(w, {"index"}, "visit") /\ ~ctxDone
  /\ walk.todo = {} /\ walk.batch = {} /\ Missing = {}
  /\ job' = [job EXCEPT ![w].step = "repush",
               ![w].outbox = UNION {PendingTasks(c) : c \in Recoverable}]
  /\ UNCHANGED <<env, db, thumbs, process, queue, walk, history>>

----------------------------------------------------------------------------
\* checksumTask

\* The file is read under the disk lock; if it is gone the task fails.
ReadChecksum(w) ==
  /\ At(w, {"checksum"}, "read") /\ DiskFree
  /\ IF fs[job[w].path] = None
       THEN Finish(w)
       ELSE job' = [job EXCEPT ![w].step = "lookup", ![w].got = fs[job[w].path].content]
  /\ UNCHANGED <<env, db, thumbs, process, queue, walk, history>>

LookupAsset(w) ==
  /\ At(w, {"checksum"}, "lookup") /\ ~ctxDone
  /\ Goto(w, IF assets[job[w].got] = None THEN "insert" ELSE "link")
  /\ UNCHANGED <<env, db, thumbs, process, queue, walk, history>>

\* The row insertAsset creates.
NewAsset == [s \in Steps |-> "pending"]
\* metadata, thumbnail and ocr tasks of the new asset
FirstTasks(p, c) ==
  {StepTask("metadata", c, p, "pending"), StepTask("thumbnail", c, None, "pending"),
   StepTask("ocr", c, None, "pending")}

\* Bug form: the winner of the race is not told from the loser.
InsertAssetAlwaysCreated(w) ==
  /\ At(w, {"checksum"}, "insert") /\ ~ctxDone
  /\ assets' = [assets EXCEPT ![job[w].got] = IF @ = None THEN NewAsset ELSE @]
  /\ job' = [job EXCEPT ![w].step = "link",
               ![w].outbox = FirstTasks(job[w].path, job[w].got)]
  /\ UNCHANGED <<env, files, embeddings, boxes, thumbs, process, queue, walk, history>>
\* insertAsset: on a conflict another worker created the asset first, and
\* that worker pushes the tasks.  (The asset is then read back by checksum;
\* assets are never deleted, so the read finds it.)
InsertAsset(w) ==
  /\ At(w, {"checksum"}, "insert") /\ ~ctxDone
  /\ LET c == job[w].got
         created == assets[c] = None
     IN  /\ assets' = IF created THEN [assets EXCEPT ![c] = NewAsset] ELSE assets
         /\ job' = [job EXCEPT ![w].step = "link",
                      ![w].outbox = IF created THEN FirstTasks(job[w].path, c) ELSE {}]
  /\ UNCHANGED <<env, files, embeddings, boxes, thumbs, process, queue, walk, history>>

\* LinkAsset, by the id of the row the walk upserted.
LinkAsset(w) ==
  /\ At(w, {"checksum"}, "link") /\ ~ctxDone
  /\ files' = [files EXCEPT ![job[w].path].asset = job[w].got]
  /\ Goto(w, "push")
  /\ UNCHANGED <<env, assets, embeddings, boxes, thumbs, process, queue, walk, history>>

----------------------------------------------------------------------------
\* metadataTask, thumbnailTask, clipTask and ocrTask

Asset(w) == job[w].task.asset

\* LiveFileForChecksum: without an online file the task returns an error and
\* its step stays pending.
FindFile(w) ==
  /\ At(w, {"metadata", "thumbnail", "ocr"}, "live") /\ ~ctxDone
  /\ \/ /\ LiveFiles(Asset(w)) = {}
        /\ Finish(w)
     \/ \E p \in LiveFiles(Asset(w)) :
          job' = [job EXCEPT ![w].path = p,
                    ![w].step = CASE job[w].task.kind = "metadata" -> "read"
                                  [] job[w].task.kind = "thumbnail" -> "make"
                                  [] job[w].task.kind = "ocr" -> "load"]
  /\ UNCHANGED <<env, db, thumbs, process, queue, walk, history>>

\* Bug form: the step keeps waiting for a model that failed to load.
WaitLoadForever(w) ==
  /\ At(w, {"clip", "ocr"}, "load") /\ ~ctxDone
  /\ loaded /\ Goto(w, "read")
  /\ UNCHANGED <<env, db, thumbs, process, queue, walk, history>>
\* WaitLoad: a model that failed to load leaves the step pending.
WaitLoad(w) ==
  /\ At(w, {"clip", "ocr"}, "load") /\ ~ctxDone
  /\ IF loaded THEN Goto(w, "read") ELSE Finish(w)
  /\ UNCHANGED <<env, db, thumbs, process, queue, walk, history>>

Outcomes(readable) == (IF readable THEN {"ok"} ELSE {"failed"})
                        \cup (IF StepsFail THEN {"failed"} ELSE {})

\* The source is read under the disk lock: the library file for metadata and
\* ocr, the thumbnail file for clip; then it is probed, read or embedded.
ReadSource(w) ==
  /\ At(w, {"metadata", "clip", "ocr"}, "read") /\ DiskFree
  /\ \E r \in Outcomes(IF job[w].task.kind = "clip" THEN thumbs[Asset(w)] = "whole"
                                                    ELSE fs[job[w].path] # None) :
       job' = [job EXCEPT ![w].step = "store", ![w].result = r]
  /\ UNCHANGED <<env, db, thumbs, process, queue, walk, history>>

\* ffmpeg opens the thumbnail file of the asset and writes into it ...
MakeThumbnail(w) ==
  /\ At(w, {"thumbnail"}, "make") /\ DiskFree
  /\ IF fs[job[w].path] = None
       THEN /\ job' = [job EXCEPT ![w].step = "store", ![w].result = "failed"]
            /\ UNCHANGED thumbs
       ELSE /\ Goto(w, "made")
            /\ thumbs' = [thumbs EXCEPT ![Asset(w)] = "partial"]
  /\ UNCHANGED <<env, db, process, queue, walk, history>>

\* Bug form: the exit status of ffmpeg is ignored.
EndThumbnailIgnored(w) ==
  /\ At(w, {"thumbnail"}, "made")
  /\ \E r \in Outcomes(TRUE) :
       /\ job' = [job EXCEPT ![w].step = "store", ![w].result = "ok"]
       /\ thumbs' = [thumbs EXCEPT ![Asset(w)] = IF r = "ok" THEN "whole" ELSE @]
  /\ UNCHANGED <<env, db, process, queue, walk, history>>
\* ... and ends, with the file complete or not.
EndThumbnail(w) ==
  /\ At(w, {"thumbnail"}, "made")
  /\ \E r \in Outcomes(TRUE) :
       /\ job' = [job EXCEPT ![w].step = "store", ![w].result = r]
       /\ thumbs' = [thumbs EXCEPT ![Asset(w)] = IF r = "ok" THEN "whole" ELSE @]
  /\ UNCHANGED <<env, db, process, queue, walk, history>>

\* The task the thumbnail task pushes: the clip step, if it should run.
ClipAfter(t, r) ==
  IF ShouldRun(t.seen) THEN {StepTask("clip", t.asset, None, r)} ELSE {}

\* Bug form: the embedding is not stored with the status.
StoreResultNoEmbedding(w) ==
  LET t == job[w].task  r == job[w].result
  IN  /\ job[w].step = "store" /\ ~ctxDone
      /\ assets' = [assets EXCEPT ![t.asset][t.kind] = r]
      /\ embeddings' = embeddings
      /\ boxes' = IF t.kind = "ocr" /\ r = "ok" THEN boxes \cup {t.asset} ELSE boxes
      /\ IF t.kind = "thumbnail"
           THEN job' = [job EXCEPT ![w].step = "push", ![w].outbox = ClipAfter(t, r)]
           ELSE Finish(w)
      /\ UNCHANGED <<env, files, thumbs, process, queue, walk, history>>
\* The outcome is stored: SetMetadataStatus or UpdateMetadata,
\* SetThumbnailStatus, SetClipStatus or InsertClipEmbedding, SetOCRStatus or
\* ReplaceOCRBoxes; the last of each pair is one transaction.
StoreResult(w) ==
  LET t == job[w].task  r == job[w].result
  IN  /\ job[w].step = "store" /\ ~ctxDone
      /\ assets' = [assets EXCEPT ![t.asset][t.kind] = r]
      /\ embeddings' = IF t.kind = "clip" /\ r = "ok" THEN embeddings \cup {t.asset} ELSE embeddings
      /\ boxes' = IF t.kind = "ocr" /\ r = "ok" THEN boxes \cup {t.asset} ELSE boxes
      /\ IF t.kind = "thumbnail"
           THEN job' = [job EXCEPT ![w].step = "push", ![w].outbox = ClipAfter(t, r)]
           ELSE Finish(w)
      /\ UNCHANGED <<env, files, thumbs, process, queue, walk, history>>

----------------------------------------------------------------------------
Work(w) ==
  \/ Pop(w) \/ PushOne(w) \/ EndPush(w)
  \/ TakeSnapshot(w) \/ (\E p \in Paths : Visit(w, p)) \/ Flush(w) \/ MarkOffline(w) \/ Recover(w)
  \/ ReadChecksum(w) \/ LookupAsset(w) \/ InsertAsset(w) \/ LinkAsset(w)
  \/ FindFile(w) \/ WaitLoad(w) \/ ReadSource(w)
  \/ MakeThumbnail(w) \/ EndThumbnail(w) \/ StoreResult(w)

Next ==
  \/ Edit
  \/ \E r \in Retries, l \in BOOLEAN : Start(r, l)
  \/ Cancel \/ Stop \/ Crash
  \/ \E w \in Workers : Work(w) \/ GiveUp(w)

Spec == Init /\ [][Next]_vars

\* Workers are scheduled and their reads and statements return; nothing
\* makes a statement fail, except that a canceled one does not block.
FairSpec ==
  /\ Spec
  /\ \A w \in Workers : WF_vars(Work(w)) /\ WF_vars(ctxDone /\ GiveUp(w))

----------------------------------------------------------------------------
WalkType == [snapshot : {<<>>} \cup [Paths -> FileRow \cup {None}], todo : SUBSET Paths,
             batch : SUBSET [path : Paths, row : FileRow], seen : SUBSET Paths,
             unread : SUBSET Paths]
JobSteps == WalkSteps \cup {"idle", "read", "lookup", "insert", "link", "push", "live",
                            "load", "make", "made", "store"}
JobType == [task : Task \cup {None}, step : JobSteps, path : Paths \cup {None},
            got : Contents \cup {None}, result : Status, outbox : SUBSET Task]

TypeOK ==
  /\ fs \in [Paths -> Version \cup {None}]
  /\ stamp \in 0..MaxStamp
  /\ files \in [Paths -> FileRow \cup {None}]
  /\ assets \in [Contents -> AssetRow \cup {None}]
  /\ embeddings \subseteq Contents /\ boxes \subseteq Contents
  /\ thumbs \in [Contents -> {"none", "partial", "whole"}]
  /\ run \in 0..MaxRuns /\ calm \in 0..2
  /\ {up, ctxDone, retry, loaded, disturbed} \subseteq BOOLEAN
  /\ queue \in Seq(Task)
  /\ walk \in WalkType
  /\ job \in [Workers -> JobType]

\* The tasks of this process for one step of one asset, wherever they are:
\* queued, about to be pushed, or being run.
Holders(k, c) ==
  {<<"queue", i>> : i \in {n \in DOMAIN queue : queue[n].kind = k /\ queue[n].asset = c}}
    \cup {<<"worker", w>> : w \in {v \in Workers :
            \/ job[v].task # None /\ job[v].task.kind = k /\ job[v].task.asset = c
            \/ \E t \in job[v].outbox : t.kind = k /\ t.asset = c}}

\* "No checksum task can have created an asset yet, so no metadata task is
\* enqueued twice" (IndexLibrary), and the same for every other step: two
\* workers never run one step of one asset, even when they checksum copies
\* of one file at the same time.
OneTaskPerStep ==
  \A k \in Steps, c \in Contents : Cardinality(Holders(k, c)) <= 1

\* What the search and the viewer rely on: a clip step is ok exactly when the
\* embedding is stored, an ocr step exactly when the text is.
ResultsMatchStatus ==
  \A c \in Contents :
    /\ c \in embeddings <=> assets[c] # None /\ assets[c]["clip"] = "ok"
    /\ c \in boxes <=> assets[c] # None /\ assets[c]["ocr"] = "ok"

\* An asset shown with a thumbnail has a complete thumbnail file, and one
\* that can be searched by content has a thumbnail: no crash while ffmpeg
\* writes, and no later run, puts a torn file behind an ok status.
ThumbnailBehindStatus ==
  \A c \in Contents :
    assets[c] # None =>
      /\ assets[c]["thumbnail"] = "ok" => thumbs[c] = "whole"
      /\ assets[c]["clip"] = "ok" => assets[c]["thumbnail"] = "ok"

\* A step that finished stays finished: no later task, retry or restart
\* takes an ok or skipped step back, and a failed one only changes in a run
\* with --retry-failed.
FinishedStays ==
  [][\A c \in Contents, s \in Steps :
       assets[c] # None /\ assets'[c] # assets[c] =>
         /\ assets[c][s] \in {"ok", "skipped"} => assets'[c][s] = assets[c][s]
         /\ assets[c][s] = "failed" /\ ~retry => assets'[c][s] = "failed"]_vars

\* "This inode already holds known, unchanged content (the file was moved)"
\* (visitFile): a row that agrees with the file on disk is linked to its
\* content, whatever is edited and moved, and no file is shown as another.
MovedFileKeepsContent ==
  \A p \in Paths :
    fs[p] # None /\ files[p] # None /\ files[p].stamp = fs[p].stamp
      => files[p].asset \in {None, fs[p].content}

\* The same as long as no file was edited while the program ran: edits and
\* moves between runs and crashes in the middle of a walk mix nothing up.
LinksFaithful == ~disturbed => MovedFileKeepsContent

\* A file that is there is not taken offline, however a walk was cut short or
\* failed, except by the walk that could not read its stat: visitFile drops
\* such a file like one that is gone, and MarkOffline takes it offline.
NoFalseOffline ==
  [][\A p \in Paths :
       ~disturbed /\ Online(p) /\ ~Online(p)' => fs[p] = None \/ p \in walk.unread]_vars

\* Every file on disk is indexed and linked, and nothing is left to do for
\* the assets of online files.
AllProcessed ==
  /\ \A p \in Paths : fs[p] # None => Online(p) /\ files[p].stamp = fs[p].stamp
  /\ \A p \in Paths : Online(p) =>
       /\ files[p].asset # None
       /\ \A s \in Steps : assets[files[p].asset][s] # "pending"

\* Recovery: whatever crashes, signals and edits came before, the second
\* undisturbed run in a row leaves nothing undone when its queue is idle.
SecondRunCompletes == up /\ Quiet /\ calm = 2 => AllProcessed

\* Every run gets through: the queue becomes empty with all workers idle.
RunsSettle == up ~> (Quiet \/ ~up)
============================================================================
