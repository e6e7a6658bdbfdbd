--------------------------- MODULE PipelineProofs ---------------------------
(***************************************************************************)
(* Proofs about Pipeline, for any library, any number of workers, any edits,*)
(* failures, signals and crashes, and any number of runs.                  *)
(*                                                                         *)
(* Four inductive invariants, each used by those after it:                 *)
(*   TypeInv    types, what a worker holds at each step of its task, and   *)
(*              that the walk runs alone but for tasks that wait to read   *)
(*   ClaimInv   one task of the process claims a step of an asset, and a   *)
(*              task that waits is still due: OneTaskPerStep, FinishedStays*)
(*   ResultInv  the tables and the thumbnail files agree with the statuses *)
(*   LinkInv    rows, waiting checksum tasks and the walk agree with the   *)
(*              library: LinksFaithful, NoFalseOffline                     *)
(* and QueueInOrder of the queue, which needs the types only.              *)
(***************************************************************************)
EXTENDS Pipeline, RankingProofs, FiniteSetTheorems, TLAPS

-----------------------------------------------------------------------------
\* What a worker holds

\* The steps a worker is at while it runs a task of kind k.

StepsOf(k) ==
  CASE k = "index" -> WalkSteps
    [] k = "checksum" -> {"read", "lookup", "insert", "link", "push"}
    [] k = "metadata" -> {"live", "read", "store"}
    [] k = "thumbnail" -> {"live", "make", "made", "store", "push"}
    [] k = "clip" -> {"load", "read", "store"}
    [] k = "ocr" -> {"live", "load", "read", "store"}

\* A task names a row of the tables F of files and A of assets.
TaskShape(t, F, A) ==
  /\ t.kind = "checksum" => t.path \in Paths /\ F[t.path] # None
  /\ t.kind \in Steps => t.asset \in Contents /\ A[t.asset] # None

\* The walk pushes checksum tasks, everything else pushes steps of assets.
OutboxShape(j, F, A) ==
  \A t \in j.outbox :
    /\ TaskShape(t, F, A)
    /\ j.task.kind = "index" /\ j.step = "flush" => t.kind = "checksum"
    /\ ~(j.task.kind = "index" /\ j.step = "flush") => t.kind \in Steps

JobShape(j, F, A) ==
  \/ j = Idle
  \/ /\ j.task # None /\ TaskShape(j.task, F, A)
     /\ j.step \in StepsOf(j.task.kind)
     /\ j.task.kind = "checksum" => j.path = j.task.path
     /\ j.task.kind = "checksum" /\ j.step # "read" => j.got \in Contents
     /\ j.task.kind = "metadata" /\ j.step = "read" => j.path \in Paths
     /\ j.task.kind = "ocr" /\ j.step \in {"load", "read"} => j.path \in Paths
     /\ j.task.kind = "thumbnail" /\ j.step = "make" => j.path \in Paths
     /\ j.step \notin {"link", "push", "flush", "repush"} => j.outbox = {}
     /\ OutboxShape(j, F, A)

Shapes ==
  /\ \A i \in DOMAIN queue : TaskShape(queue[i], files, assets)
  /\ \A w \in Workers : JobShape(job[w], files, assets)

Down == ~up => Quiet

\* The index task is queued before anything runs, and one walk runs.
IndexAlone ==
  /\ \A i \in DOMAIN queue : queue[i].kind = "index" => Len(queue) = 1 /\ \A w \in Workers : job[w] = Idle
  /\ \A v, w \in Workers : job[v].step \in WalkSteps /\ job[w].step \in WalkSteps => v = w

\* Until its walk is over, w is alone but for checksum tasks that wait for
\* the disk lock, and the rows of its snapshot are still there.
AloneInWalk(w) ==
  /\ \A i \in DOMAIN queue : queue[i].kind = "checksum"
  /\ \A v \in Workers \ {w} :
       job[v] = Idle \/ (job[v].task.kind = "checksum" /\ job[v].step = "read")
  /\ job[w].step # "snapshot" =>
       /\ walk.snapshot \in [Paths -> FileRow \cup {None}]
       /\ \A p \in Paths : walk.snapshot[p] # None => files[p] # None
Walking ==
  \A w \in Workers : job[w].step \in {"snapshot", "visit", "flush"} => AloneInWalk(w)

\* A task claims its step; a thumbnail task also claims the clip step, whose
\* task it is going to push, until it has.
Claims(t, k, c) == t.asset = c /\ (t.kind = k \/ (t.kind = "thumbnail" /\ k = "clip"))
WorksOn(j, k, c) ==
  /\ j.task # None /\ Claims(j.task, k, c)
  /\ j.task.kind = "thumbnail" /\ k = "clip" => j.step # "push"
Works(w, k, c) == WorksOn(job[w], k, c)

\* One place at most has a claim: a queued task, a worker, or its outbox.
OneClaim(k, c) ==
  /\ \A i, j \in DOMAIN queue : Claims(queue[i], k, c) /\ Claims(queue[j], k, c) => i = j
  /\ \A i \in DOMAIN queue, w \in Workers :
       Claims(queue[i], k, c) => ~Works(w, k, c) /\ \A t \in job[w].outbox : ~Claims(t, k, c)
  /\ \A v, w \in Workers : Works(v, k, c) /\ Works(w, k, c) => v = w
  /\ \A v, w \in Workers : Works(v, k, c) => \A t \in job[w].outbox : ~Claims(t, k, c)
  /\ \A v, w \in Workers : \A t \in job[v].outbox, u \in job[w].outbox :
       Claims(t, k, c) /\ Claims(u, k, c) => v = w /\ t = u
Disjoint == \A k \in Steps, c \in Contents : OneClaim(k, c)

\* ShouldRun of a run with flag R, and a task whose step should run and whose
\* snapshot of the asset is up to date, for the assets A.
MayRun(s, R) == s = "pending" \/ (R /\ s = "failed")
Due(t, A, R) ==
  t.kind \in Steps =>
    /\ A[t.asset] # None /\ MayRun(A[t.asset][t.kind], R)
    /\ t.kind = "thumbnail" => t.seen = A[t.asset]["clip"]
    /\ t.kind = "clip" => t.seen = A[t.asset]["thumbnail"] /\ t.seen \in {"ok", "failed"}
AllDue ==
  /\ \A i \in DOMAIN queue : Due(queue[i], assets, retry)
  /\ \A w \in Workers :
       /\ \A t \in job[w].outbox : Due(t, assets, retry)
       /\ job[w].task # None /\ job[w].step # "push" => Due(job[w].task, assets, retry)

-----------------------------------------------------------------------------
\* Types, and what a worker holds

\* Where a pushed task is put: behind this many.
Place(q, t) == Cardinality({i \in DOMAIN q : Priority[q[i].kind] >= Priority[t.kind]})

\* A pushed task is at its place of the queue and the others keep their order.
LEMMA InsertAt ==
  ASSUME NEW q \in Seq(Task), NEW t \in Task
  PROVE  /\ Place(q, t) \in 0..Len(q)
         /\ Insert(q, t) \in Seq(Task) /\ Len(Insert(q, t)) = Len(q) + 1
         /\ \A i \in 1..Len(q) + 1 :
              Insert(q, t)[i] = IF i <= Place(q, t) THEN q[i]
                                ELSE IF i = Place(q, t) + 1 THEN t ELSE q[i - 1]
<1> DEFINE S == {i \in DOMAIN q : Priority[q[i].kind] >= Priority[t.kind]}
           n == Place(q, t)
<1>0. n = Cardinality(S)  BY DEF Place
<1>1. n \in 0..Len(q)
  <2>1. Len(q) \in Nat /\ DOMAIN q = 1..Len(q)  OBVIOUS
  <2>2. IsFiniteSet(1..Len(q)) /\ Cardinality(1..Len(q)) = Len(q)
    BY <2>1, FS_Interval
  <2>3. S \in SUBSET (1..Len(q))  BY <2>1
  <2> QED  BY <1>0, <2>1, <2>2, <2>3, FS_Subset, FS_CardinalityType
<1> DEFINE A == SubSeq(q, 1, n)
           B == SubSeq(q, n + 1, Len(q))
<1>2. Insert(q, t) = A \o <<t>> \o B
  BY DEF Insert, Place
<1> HIDE DEF n
<1>3. A \in Seq(Task) /\ Len(A) = n /\ \A i \in 1..n : A[i] = q[i]
  BY <1>1
<1>4. /\ B \in Seq(Task) /\ Len(B) = Len(q) - n
      /\ \A i \in 1..Len(q) - n : B[i] = q[n + i]
  BY <1>1
<1> HIDE DEF A, B
<1>5. /\ A \o <<t>> \in Seq(Task) /\ Len(A \o <<t>>) = n + 1
      /\ \A i \in 1..n + 1 : (A \o <<t>>)[i] = IF i <= n THEN q[i] ELSE t
  BY <1>1, <1>3
<1>6. /\ Insert(q, t) \in Seq(Task) /\ Len(Insert(q, t)) = Len(q) + 1
      /\ \A i \in 1..Len(q) + 1 :
           Insert(q, t)[i] = IF i <= n + 1 THEN (A \o <<t>>)[i] ELSE B[i - (n + 1)]
  BY <1>1, <1>2, <1>4, <1>5
<1>7. ASSUME NEW i \in 1..Len(q) + 1
      PROVE  Insert(q, t)[i] = IF i <= n THEN q[i] ELSE IF i = n + 1 THEN t ELSE q[i - 1]
  <2>0. n \in Nat /\ Len(q) \in Nat /\ i \in Nat
    BY <1>1
  <2>1. CASE i <= n + 1
    <3>1. i \in 1..n + 1  BY <2>0, <2>1
    <3>2. (A \o <<t>>)[i] = IF i <= n THEN q[i] ELSE t  BY <3>1, <1>5
    <3>3. Insert(q, t)[i] = (A \o <<t>>)[i]  BY <2>1, <1>6
    <3>4. i <= n \/ (~(i <= n) /\ i = n + 1)  BY <2>0, <2>1
    <3> QED  BY <3>2, <3>3, <3>4
  <2>2. CASE i > n + 1
    <3>1. i - (n + 1) \in 1..Len(q) - n /\ n + (i - (n + 1)) = i - 1
      BY <2>0, <2>2
    <3>2. B[i - (n + 1)] = q[i - 1]
      BY <3>1, <1>4
    <3> QED  BY <2>0, <2>2, <3>2, <1>6
  <2> QED  BY <2>0, <2>1, <2>2
<1> QED  BY <1>1, <1>6, <1>7 DEF n

LEMMA InsertEffect ==
  ASSUME NEW q \in Seq(Task), NEW t \in Task
  PROVE  \E n \in 0..Len(q) :
           /\ Insert(q, t) \in Seq(Task) /\ Len(Insert(q, t)) = Len(q) + 1
           /\ \A i \in 1..Len(q) + 1 :
                Insert(q, t)[i] = IF i <= n THEN q[i] ELSE IF i = n + 1 THEN t ELSE q[i - 1]
BY InsertAt

TypeInv == TypeOK /\ Shapes /\ Down /\ IndexAlone /\ Walking

\* The step of a worker that changes no job but its own and pushes nothing.
LocalStep(w) ==
  /\ job[w] # Idle /\ up
  /\ queue' = queue /\ up' = up
  /\ \A p \in Paths : files[p] # None => files'[p] # None
  /\ \A c \in Contents : assets[c] # None => assets'[c] # None
  /\ \A v \in Workers \ {w} : job'[v] = job[v]

LEMMA LocalShapes ==
  ASSUME TypeInv, TypeOK', NEW w \in Workers, LocalStep(w),
         JobShape(job'[w], files', assets'), job'[w].step \in WalkSteps => job[w].step \in WalkSteps
  PROVE  Shapes' /\ Down' /\ IndexAlone'
<1> USE DEF TypeInv, TypeOK, LocalStep
<1>1. ASSUME NEW t \in Task, TaskShape(t, files, assets) PROVE TaskShape(t, files', assets')
  BY <1>1 DEF TaskShape
<1>2. ASSUME NEW v \in Workers \ {w} PROVE JobShape(job'[v], files', assets')
  <2>1. JobShape(job[v], files, assets) /\ job'[v] = job[v] /\ job[v] \in JobType  BY DEF Shapes
  <2>2. ASSUME NEW t \in job[v].outbox, TaskShape(t, files, assets) PROVE TaskShape(t, files', assets')
    BY <1>1, <2>1, <2>2 DEF JobType
  <2>3. OutboxShape(job[v], files, assets) => OutboxShape(job'[v], files', assets')
    BY <2>1, <2>2 DEF OutboxShape
  <2>4. CASE job[v] = Idle  BY <2>1, <2>4 DEF JobShape, Idle
  <2>5. CASE job[v] # Idle
    <3>1. job[v].task \in Task /\ TaskShape(job[v].task, files, assets)
      BY <2>1, <2>5 DEF JobShape, JobType
    <3> QED  BY <2>1, <2>3, <2>5, <3>1, <1>1 DEF JobShape
  <2> QED  BY <2>4, <2>5
<1>3. Shapes'
  <2>1. ASSUME NEW i \in DOMAIN queue PROVE TaskShape(queue[i], files', assets')
    BY <1>1 DEF Shapes
  <2> QED  BY <1>2, <2>1 DEF Shapes
<1>4. Down'  BY DEF Down
<1>5. IndexAlone'  BY DEF IndexAlone
<1> QED  BY <1>3, <1>4, <1>5

\* No walk is going on while a worker is past the read of a task.
LEMMA LocalWalking ==
  ASSUME TypeInv, NEW w \in Workers, LocalStep(w),
         job[w].step \notin {"snapshot", "visit", "flush", "read"},
         job'[w].step \notin {"snapshot", "visit", "flush"}
  PROVE  Walking'
<1> SUFFICES ASSUME NEW u \in Workers, job'[u].step \in {"snapshot", "visit", "flush"}
             PROVE  FALSE
  BY DEF Walking
<1>1. u # w /\ job[u].step \in {"snapshot", "visit", "flush"}
  BY DEF LocalStep
<1> QED  BY <1>1 DEF TypeInv, Walking, AloneInWalk, LocalStep

\* Such a step keeps TypeInv when it is no step of the walk.
LEMMA LocalInv ==
  ASSUME TypeInv, TypeOK', NEW w \in Workers, LocalStep(w), JobShape(job'[w], files', assets'),
         job[w].step \notin {"snapshot", "visit", "flush"},
         job'[w].step \notin WalkSteps,
         DiskFree \/ job[w].step # "read"
  PROVE  TypeInv'
<1>1. Shapes' /\ Down' /\ IndexAlone'
  BY LocalShapes
<1>2. Walking'
  <2>1. CASE DiskFree
    BY <2>1 DEF DiskFree, Walking, LocalStep, WalkSteps
  <2>2. CASE job[w].step # "read"
    BY <2>2, LocalWalking DEF WalkSteps
  <2> QED  BY <2>1, <2>2
<1> QED  BY <1>1, <1>2 DEF TypeInv

\* What TypeInv says of a running worker.
Runs(w) ==
  /\ up /\ job[w] # Idle /\ job[w] \in JobType
  /\ job[w].task \in Task /\ job[w].task # None
  /\ TaskShape(job[w].task, files, assets) /\ OutboxShape(job[w], files, assets)
  /\ job[w].step \in StepsOf(job[w].task.kind) /\ job[w].step # "idle"
  /\ job[w].task.kind \in Kinds /\ job[w].task.asset \in Contents \cup {None}
  /\ job[w].task.kind = "checksum" =>
       /\ job[w].path = job[w].task.path
       /\ job[w].path \in Paths /\ files[job[w].path] \in FileRow
       /\ job[w].step # "read" => job[w].got \in Contents
  /\ job[w].task.kind \in Steps =>
       job[w].task.asset \in Contents /\ assets[job[w].task.asset] \in AssetRow
  /\ job[w].task.kind = "metadata" /\ job[w].step = "read" => job[w].path \in Paths
  /\ job[w].task.kind = "ocr" /\ job[w].step \in {"load", "read"} => job[w].path \in Paths
  /\ job[w].task.kind = "thumbnail" /\ job[w].step = "make" => job[w].path \in Paths
  /\ job[w].step \notin {"link", "push", "flush", "repush"} => job[w].outbox = {}

LEMMA Running ==
  ASSUME TypeInv, NEW w \in Workers, job[w] # Idle
  PROVE  Runs(w)
<1>1. JobShape(job[w], files, assets) /\ job[w] \in JobType /\ up
  BY DEF TypeInv, TypeOK, Down, Quiet, Shapes
<1>2. job[w].task \in Task /\ TaskShape(job[w].task, files, assets) /\ job[w].task # None
  BY <1>1 DEF JobShape, JobType
<1>3. job[w].step \in StepsOf(job[w].task.kind) /\ job[w].task.kind \in Kinds
  BY <1>1, <1>2 DEF JobShape, Task
<1>4. job[w].step # "idle"
  BY <1>3 DEF StepsOf, Kinds, Steps, WalkSteps
<1>5. job[w].task.kind = "checksum" => files[job[w].path] \in FileRow /\ job[w].path \in Paths
  BY <1>1, <1>2 DEF JobShape, TaskShape, TypeInv, TypeOK
<1>6. job[w].task.kind \in Steps =>
        job[w].task.asset \in Contents /\ assets[job[w].task.asset] \in AssetRow
  BY <1>2 DEF TaskShape, TypeInv, TypeOK
<1> QED  BY <1>1, <1>2, <1>3, <1>4, <1>5, <1>6 DEF JobShape, Task, Runs

LEMMA IdleJob ==
  /\ Idle \in JobType /\ Idle.step = "idle" /\ Idle.task = None /\ Idle.outbox = {}
  /\ (\A F, A : JobShape(Idle, F, A)) /\ Idle.step \notin WalkSteps
BY DEF Idle, JobType, JobSteps, Status, JobShape, WalkSteps

\* The types of everything but the jobs.
DataOK ==
  /\ fs \in [Paths -> Version \cup {None}]
  /\ stamp \in 0..MaxStamp
  /\ files \in [Paths -> FileRow \cup {None}]
  /\ assets \in [Contents -> AssetRow \cup {None}]
  /\ embeddings \subseteq Contents /\ boxes \subseteq Contents
  /\ thumbs \in [Contents -> {"none", "partial", "whole"}]
  /\ run \in 0..MaxRuns /\ calm \in 0..2
  /\ {up, ctxDone, retry, loaded, disturbed} \subseteq BOOLEAN
  /\ queue \in Seq(Task)
  /\ walk \in WalkType

LEMMA Types ==
  /\ TypeOK <=> DataOK /\ job \in [Workers -> JobType]
  /\ TypeOK' <=> DataOK' /\ (job \in [Workers -> JobType])'
BY DEF TypeOK, DataOK

\* A worker goes on to another step of its task, or ends it.
LEMMA StepInv ==
  ASSUME TypeInv, NEW w \in Workers, Runs(w), DataOK',
         NEW j \in JobType, job' = [job EXCEPT ![w] = j], JobShape(j, files', assets'),
         queue' = queue, up' = up, \A p \in Paths : files[p] # None => files'[p] # None,
         \A c \in Contents : assets[c] # None => assets'[c] # None,
         job[w].step \notin {"snapshot", "visit", "flush"}, j.step \notin WalkSteps,
         DiskFree \/ job[w].step # "read"
  PROVE  TypeInv'
<1>1. /\ job'[w] = j /\ \A v \in Workers \ {w} : job'[v] = job[v]
      /\ job' \in [Workers -> JobType]
  BY DEF TypeInv, TypeOK
<1>2. LocalStep(w)
  BY <1>1 DEF LocalStep, Runs
<1> QED  BY <1>1, <1>2, LocalInv, Types

LEMMA FinishInv ==
  ASSUME TypeInv, NEW w \in Workers, Runs(w), DataOK', Finish(w),
         queue' = queue, up' = up, files' = files,
         \A c \in Contents : assets[c] # None => assets'[c] # None,
         walk' = walk \/ job[w].step \in WalkSteps
  PROVE  TypeInv'
<1>1. /\ job'[w] = Idle /\ \A v \in Workers \ {w} : job'[v] = job[v]
      /\ job' \in [Workers -> JobType]
  BY IdleJob DEF TypeInv, TypeOK, Finish
<1>2. LocalStep(w)
  BY <1>1 DEF LocalStep, Runs
<1>3. TypeOK' /\ Shapes' /\ Down' /\ IndexAlone'
  BY <1>1, <1>2, IdleJob, LocalShapes, Types
<1>4. Walking'
  <2> SUFFICES ASSUME NEW u \in Workers, job'[u].step \in {"snapshot", "visit", "flush"}
               PROVE  AloneInWalk(u)'
    BY DEF Walking
  <2>1. u # w /\ job[u] = job'[u]
    BY <1>1, IdleJob DEF WalkSteps
  <2>2. job[w].step \notin WalkSteps
    BY <2>1 DEF TypeInv, IndexAlone, WalkSteps
  <2> QED  BY <1>1, <2>1, <2>2 DEF TypeInv, Walking, AloneInWalk
<1> QED  BY <1>3, <1>4 DEF TypeInv

\* One lemma for each action that leaves the queue and the walk alone.
LEMMA ReadChecksumType == ASSUME TypeInv, NEW w \in Workers, ReadChecksum(w) PROVE TypeInv'
<1> USE DEF ReadChecksum, At
<1>1. Runs(w) /\ DataOK  BY Running, IdleJob, Types DEF TypeInv
<1>2. DataOK'  BY <1>1 DEF DataOK, env, db, process, history
<1>3. CASE Finish(w)
  BY <1>1, <1>2, <1>3, FinishInv DEF db, process
<1> DEFINE j == [job[w] EXCEPT !.step = "lookup", !.got = fs[job[w].path].content]
<1>4. CASE job' = [job EXCEPT ![w] = j] /\ fs[job[w].path] # None
  <2>0. fs[job[w].path].content \in Contents
    BY <1>1, <1>4 DEF Runs, DataOK, Version
  <2>1. j \in JobType
    BY <1>1, <2>0 DEF Runs, JobType, JobSteps
  <2>2. JobShape(j, files', assets') /\ j.step \notin WalkSteps
    BY <1>1, <2>0 DEF Runs, JobShape, JobType, OutboxShape, TaskShape, StepsOf, WalkSteps, Steps, db
  <2> QED  BY <1>1, <1>2, <1>4, <2>1, <2>2, StepInv DEF db, process
<1> QED  BY <1>3, <1>4

LEMMA LookupAssetType == ASSUME TypeInv, NEW w \in Workers, LookupAsset(w) PROVE TypeInv'
<1> USE DEF LookupAsset, At
<1>1. Runs(w) /\ DataOK  BY Running, IdleJob, Types DEF TypeInv
<1>2. DataOK'  BY <1>1 DEF DataOK, env, db, process, history
<1> DEFINE j == [job[w] EXCEPT !.step = IF assets[job[w].got] = None THEN "insert" ELSE "link"]
<1>3. job' = [job EXCEPT ![w] = j]  BY DEF Goto
<1>4. j \in JobType
  BY <1>1 DEF Runs, JobType, JobSteps
<1>5. JobShape(j, files', assets') /\ j.step \notin WalkSteps
  BY <1>1 DEF Runs, JobShape, JobType, OutboxShape, TaskShape, StepsOf, WalkSteps, Steps, db
<1> QED  BY <1>1, <1>2, <1>3, <1>4, <1>5, StepInv DEF db, process

LEMMA InsertAssetType == ASSUME TypeInv, NEW w \in Workers, InsertAsset(w) PROVE TypeInv'
<1> USE DEF InsertAsset, At
<1>1. Runs(w) /\ DataOK  BY Running, IdleJob, Types DEF TypeInv
<1> DEFINE c == job[w].got
           U == IF assets[c] = None THEN FirstTasks(job[w].path, c) ELSE {}
           j == [job[w] EXCEPT !.step = "link", !.outbox = U]
<1>2. DataOK'
  BY <1>1 DEF DataOK, Runs, NewAsset, AssetRow, Status, env, process, history
<1>3. job' = [job EXCEPT ![w] = j]  OBVIOUS
<1>0. assets'[c] # None
  BY <1>1, PipelineAssumption DEF Runs, DataOK, NewAsset, AssetRow, Status
<1>4. \A t \in U : t \in Task /\ t.kind \in Steps /\ t.asset = c /\ c \in Contents
  BY <1>1 DEF Runs, FirstTasks, StepTask, Task, Kinds, Steps, Status
<1>5. j \in JobType
  BY <1>1, <1>4 DEF Runs, JobType, JobSteps
<1>6. JobShape(j, files', assets') /\ j.step \notin WalkSteps
  BY <1>0, <1>1, <1>4 DEF Runs, JobShape, JobType, OutboxShape, TaskShape, StepsOf, WalkSteps, Steps
<1>7. \A a \in Contents : assets[a] # None => assets'[a] # None
  BY <1>0, <1>1 DEF Runs, DataOK
<1> QED  BY <1>1, <1>2, <1>3, <1>5, <1>6, <1>7, StepInv DEF process

LEMMA LinkAssetType == ASSUME TypeInv, NEW w \in Workers, LinkAsset(w) PROVE TypeInv'
<1> USE DEF LinkAsset, At
<1>1. Runs(w) /\ DataOK  BY Running, IdleJob, Types DEF TypeInv
<1> DEFINE p == job[w].path
           row == [files[p] EXCEPT !.asset = job[w].got]
           j == [job[w] EXCEPT !.step = "push"]
<1>2. row \in FileRow /\ p \in Paths /\ row # None
  BY <1>1, PipelineAssumption DEF Runs, FileRow
<1>3. files' = [files EXCEPT ![p] = row]  OBVIOUS
<1>4. files' \in [Paths -> FileRow \cup {None}] /\ \A q \in Paths : files[q] # None => files'[q] # None
  BY <1>1, <1>2, <1>3 DEF DataOK
<1>5. DataOK'
  BY <1>1, <1>4 DEF DataOK, env, process, history
<1>6. job' = [job EXCEPT ![w] = j]  BY DEF Goto
<1>7. j \in JobType
  BY <1>1 DEF Runs, JobType, JobSteps
<1>8. JobShape(j, files', assets') /\ j.step \notin WalkSteps
  BY <1>1, <1>4 DEF Runs, JobShape, JobType, OutboxShape, TaskShape, StepsOf, WalkSteps, Steps
<1> QED  BY <1>1, <1>4, <1>5, <1>6, <1>7, <1>8, StepInv DEF process

LEMMA FindFileType == ASSUME TypeInv, NEW w \in Workers, FindFile(w) PROVE TypeInv'
<1> USE DEF FindFile, At
<1>1. Runs(w) /\ DataOK  BY Running, IdleJob, Types DEF TypeInv
<1>2. DataOK'  BY <1>1 DEF DataOK, env, db, process, history
<1>3. CASE Finish(w)
  BY <1>1, <1>2, <1>3, FinishInv DEF db, process
<1> DEFINE s == CASE job[w].task.kind = "metadata" -> "read"
                  [] job[w].task.kind = "thumbnail" -> "make"
                  [] job[w].task.kind = "ocr" -> "load"
<1>4. ASSUME NEW p \in Paths, job' = [job EXCEPT ![w].path = p, ![w].step = s] PROVE TypeInv'
  <2> DEFINE j == [job[w] EXCEPT !.path = p, !.step = s]
  <2>0. job' = [job EXCEPT ![w] = j]  BY <1>4
  <2>1. s \in StepsOf(job[w].task.kind) /\ s \in {"read", "make", "load"}
    BY DEF StepsOf
  <2> HIDE DEF s
  <2>2. j \in JobType
    BY <1>1, <2>1 DEF Runs, JobType, JobSteps
  <2>3. JobShape(j, files', assets') /\ j.step \notin WalkSteps
    BY <1>1, <2>1 DEF Runs, JobShape, JobType, OutboxShape, TaskShape, WalkSteps, Steps, db
  <2> QED  BY <1>1, <1>2, <2>0, <2>2, <2>3, StepInv DEF db, process
<1> QED  BY <1>3, <1>4 DEF LiveFiles

LEMMA WaitLoadType == ASSUME TypeInv, NEW w \in Workers, WaitLoad(w) PROVE TypeInv'
<1> USE DEF WaitLoad, At
<1>1. Runs(w) /\ DataOK  BY Running, IdleJob, Types DEF TypeInv
<1>2. DataOK'  BY <1>1 DEF DataOK, env, db, process, history
<1>3. CASE Finish(w)
  BY <1>1, <1>2, <1>3, FinishInv DEF db, process
<1> DEFINE j == [job[w] EXCEPT !.step = "read"]
<1>4. CASE job' = [job EXCEPT ![w] = j] /\ job[w].task.kind = "clip"
  <2>1. j \in JobType /\ JobShape(j, files', assets') /\ j.step \notin WalkSteps
    BY <1>1, <1>4 DEF Runs, JobShape, JobType, JobSteps, OutboxShape, TaskShape, StepsOf, WalkSteps, Steps, db
  <2> QED  BY <1>1, <1>2, <1>4, <2>1, StepInv DEF db, process
<1>5. CASE job' = [job EXCEPT ![w] = j] /\ job[w].task.kind = "ocr"
  <2>1. j \in JobType /\ JobShape(j, files', assets') /\ j.step \notin WalkSteps
    BY <1>1, <1>5 DEF Runs, JobShape, JobType, JobSteps, OutboxShape, TaskShape, StepsOf, WalkSteps, Steps, db
  <2> QED  BY <1>1, <1>2, <1>5, <2>1, StepInv DEF db, process
<1> QED  BY <1>3, <1>4, <1>5 DEF Goto

LEMMA ReadSourceType == ASSUME TypeInv, NEW w \in Workers, ReadSource(w) PROVE TypeInv'
<1> USE DEF ReadSource, At
<1>1. Runs(w) /\ DataOK  BY Running, IdleJob, Types DEF TypeInv
<1>2. DataOK'  BY <1>1 DEF DataOK, env, db, process, history
<1>3. PICK r \in {"ok", "failed"} : job' = [job EXCEPT ![w].step = "store", ![w].result = r]
  BY DEF Outcomes
<1> DEFINE j == [job[w] EXCEPT !.step = "store", !.result = r]
<1>4. job' = [job EXCEPT ![w] = j]  BY <1>3
<1>5. j \in JobType
  BY <1>1 DEF Runs, JobType, JobSteps, Status
<1>6. JobShape(j, files', assets') /\ j.step \notin WalkSteps
  BY <1>1 DEF Runs, JobShape, JobType, OutboxShape, TaskShape, StepsOf, WalkSteps, Steps, db
<1> QED  BY <1>1, <1>2, <1>4, <1>5, <1>6, StepInv DEF db, process

LEMMA MakeThumbnailType == ASSUME TypeInv, NEW w \in Workers, MakeThumbnail(w) PROVE TypeInv'
<1> USE DEF MakeThumbnail, At
<1>1. Runs(w) /\ DataOK  BY Running, IdleJob, Types DEF TypeInv
<1>2. DataOK'  BY <1>1 DEF DataOK, env, db, process, history
<1>3. PICK s \in {"store", "made"}, r \in Status :
        job' = [job EXCEPT ![w] = [job[w] EXCEPT !.step = s, !.result = r]]
  <2>1. CASE job' = [job EXCEPT ![w].step = "store", ![w].result = "failed"]
    BY <2>1 DEF Status
  <2>2. CASE Goto(w, "made")
    <3>1. [job[w] EXCEPT !.step = "made"] = [job[w] EXCEPT !.step = "made", !.result = job[w].result]
      BY <1>1 DEF Runs, JobType
    <3> QED  BY <1>1, <2>2, <3>1 DEF Goto, Runs, JobType
  <2> QED  BY <2>1, <2>2
<1> DEFINE j == [job[w] EXCEPT !.step = s, !.result = r]
<1>5. j \in JobType
  BY <1>1 DEF Runs, JobType, JobSteps
<1>6. JobShape(j, files', assets') /\ j.step \notin WalkSteps
  BY <1>1 DEF Runs, JobShape, JobType, OutboxShape, TaskShape, StepsOf, WalkSteps, Steps, db
<1> QED  BY <1>1, <1>2, <1>3, <1>5, <1>6, StepInv DEF db, process

LEMMA EndThumbnailType == ASSUME TypeInv, NEW w \in Workers, EndThumbnail(w) PROVE TypeInv'
<1> USE DEF EndThumbnail, At
<1>1. Runs(w) /\ DataOK  BY Running, IdleJob, Types DEF TypeInv
<1>3. PICK r \in {"ok", "failed"} :
        /\ job' = [job EXCEPT ![w].step = "store", ![w].result = r]
        /\ thumbs' = [thumbs EXCEPT ![Asset(w)] = IF r = "ok" THEN "whole" ELSE @]
  BY DEF Outcomes
<1>2. DataOK'  BY <1>1, <1>3 DEF DataOK, env, db, process, history
<1> DEFINE j == [job[w] EXCEPT !.step = "store", !.result = r]
<1>4. job' = [job EXCEPT ![w] = j]  BY <1>3
<1>5. j \in JobType
  BY <1>1 DEF Runs, JobType, JobSteps, Status
<1>6. JobShape(j, files', assets') /\ j.step \notin WalkSteps
  BY <1>1 DEF Runs, JobShape, JobType, OutboxShape, TaskShape, StepsOf, WalkSteps, Steps, db
<1> QED  BY <1>1, <1>2, <1>4, <1>5, <1>6, StepInv DEF db, process

\* Only steps of assets have a result to store.
LEMMA Storing ==
  ASSUME NEW w \in Workers, Runs(w), job[w].step = "store"
  PROVE  /\ job[w].task.kind \in Steps /\ job[w].task.asset \in Contents
         /\ assets[job[w].task.asset] \in AssetRow
BY DEF Runs, StepsOf, Kinds, Steps, WalkSteps

LEMMA StoreResultType == ASSUME TypeInv, NEW w \in Workers, StoreResult(w) PROVE TypeInv'
<1> USE DEF StoreResult
<1>1. Runs(w) /\ DataOK  BY Running, IdleJob, Types DEF TypeInv
<1> DEFINE t == job[w].task
           c == t.asset
           r == job[w].result
           row == [assets[c] EXCEPT ![t.kind] = r]
           U == ClipAfter(t, r)
           j == [job[w] EXCEPT !.step = "push", !.outbox = U]
<1>2. t.kind \in Steps /\ c \in Contents /\ r \in Status /\ assets[c] \in AssetRow
  BY <1>1, Storing DEF Runs, JobType
<1>3. row \in AssetRow /\ row # None
  BY <1>2, PipelineAssumption DEF AssetRow
<1>4. assets' = [assets EXCEPT ![c] = row]  OBVIOUS
<1>5. /\ assets' \in [Contents -> AssetRow \cup {None}]
      /\ \A a \in Contents : assets[a] # None => assets'[a] # None
  BY <1>1, <1>2, <1>3, <1>4 DEF DataOK
<1>6. DataOK'
  BY <1>1, <1>2, <1>5 DEF DataOK, env, process, history
<1>7. CASE Finish(w)
  BY <1>1, <1>5, <1>6, <1>7, FinishInv DEF process
<1>8. CASE job' = [job EXCEPT ![w] = j] /\ t.kind = "thumbnail"
  <2>1. \A u \in U : u \in Task /\ u.kind \in Steps /\ u.asset = c
    BY <1>2 DEF ClipAfter, StepTask, Task, Kinds, Steps
  <2>2. j \in JobType
    BY <1>1, <2>1 DEF Runs, JobType, JobSteps
  <2>3. assets[c] # None
    BY <1>2, PipelineAssumption
  <2>4. JobShape(j, files', assets') /\ j.step \notin WalkSteps
    BY <1>1, <1>2, <1>5, <1>8, <2>1, <2>3
       DEF Runs, JobShape, JobType, OutboxShape, TaskShape, StepsOf, WalkSteps, Steps
  <2> QED  BY <1>1, <1>5, <1>6, <1>8, <2>2, <2>4, StepInv DEF process
<1> QED  BY <1>7, <1>8

LEMMA InsertRange ==
  ASSUME NEW q \in Seq(Task), NEW t \in Task
  PROVE  /\ Insert(q, t) \in Seq(Task)
         /\ \A i \in DOMAIN Insert(q, t) :
              Insert(q, t)[i] = t \/ \E k \in DOMAIN q : Insert(q, t)[i] = q[k]
<1>1. PICK n \in 0..Len(q) :
        /\ Insert(q, t) \in Seq(Task) /\ Len(Insert(q, t)) = Len(q) + 1
        /\ \A i \in 1..Len(q) + 1 :
             Insert(q, t)[i] = IF i <= n THEN q[i] ELSE IF i = n + 1 THEN t ELSE q[i - 1]
  BY InsertEffect
<1>2. ASSUME NEW i \in DOMAIN Insert(q, t)
      PROVE  Insert(q, t)[i] = t \/ \E k \in DOMAIN q : Insert(q, t)[i] = q[k]
  <2>0. i \in 1..Len(q) + 1 /\ Len(q) \in Nat /\ DOMAIN q = 1..Len(q)  BY <1>1
  <2>1. CASE i <= n
    <3>1. i \in DOMAIN q  BY <2>0, <2>1
    <3> QED  BY <1>1, <2>0, <2>1, <3>1
  <2>2. CASE i = n + 1
    <3>1. ~(i <= n)  BY <2>0, <2>2
    <3> QED  BY <1>1, <2>0, <2>2, <3>1
  <2>3. CASE ~(i <= n) /\ i # n + 1
    <3>1. i - 1 \in DOMAIN q  BY <2>0, <2>3
    <3> QED  BY <1>1, <2>0, <2>3, <3>1
  <2> QED  BY <2>1, <2>2, <2>3
<1> QED  BY <1>1, <1>2

LEMMA EndPushType == ASSUME TypeInv, NEW w \in Workers, EndPush(w) PROVE TypeInv'
<1> USE DEF EndPush
<1>1. Runs(w) /\ DataOK  BY Running, IdleJob, Types DEF TypeInv
<1>2. DataOK'  BY <1>1 DEF DataOK, env, db, process, history, WalkType, NoWalk
<1>3. CASE Finish(w)
  BY <1>1, <1>2, <1>3, FinishInv DEF db, process, WalkSteps
<1>4. CASE job[w].step = "flush" /\ Goto(w, "visit")
  <2> DEFINE j == [job[w] EXCEPT !.step = "visit"]
  <2>1. /\ job'[w] = j /\ \A v \in Workers \ {w} : job'[v] = job[v]
        /\ job' = [job EXCEPT ![w] = j]
    BY <1>4 DEF Goto, TypeInv, TypeOK
  <2>2. j \in JobType
    BY <1>1 DEF Runs, JobType, JobSteps, WalkSteps
  <2>3. job' \in [Workers -> JobType]
    BY <2>1, <2>2 DEF TypeInv, TypeOK
  <2>4. JobShape(j, files', assets')
    BY <1>1, <1>4 DEF Runs, JobShape, JobType, OutboxShape, TaskShape, StepsOf, WalkSteps, Steps, Kinds, db
  <2>5. LocalStep(w)
    BY <1>1, <2>1 DEF LocalStep, Runs, db, process
  <2>6. Shapes' /\ Down' /\ IndexAlone'
    BY <1>1, <1>2, <1>4, <2>1, <2>3, <2>4, <2>5, LocalShapes, Types DEF WalkSteps
  <2>7. AloneInWalk(w)
    BY <1>4 DEF TypeInv, Walking
  <2>8. Walking'
    <3> SUFFICES ASSUME NEW u \in Workers, job'[u].step \in {"snapshot", "visit", "flush"}
                 PROVE  AloneInWalk(u)'
      BY DEF Walking
    <3>1. u = w
      BY <1>4, <2>1 DEF TypeInv, IndexAlone, WalkSteps
    <3> QED  BY <1>1, <1>4, <2>1, <2>7, <3>1 DEF AloneInWalk, Runs, JobType, db
  <2> QED  BY <1>2, <2>3, <2>6, <2>8, Types DEF TypeInv
<1> QED  BY <1>3, <1>4

\* A task joins the queue; the worker that pushes it keeps its place.
LEMMA PushInv ==
  ASSUME TypeInv, NEW w \in Workers, Runs(w), DataOK', NEW t \in Task,
         TaskShape(t, files, assets), t.kind # "index",
         job[w].step \in {"snapshot", "visit", "flush"} => t.kind = "checksum",
         job[w].step \in WalkSteps \cup {"push"},
         queue' = Insert(queue, t), up' = up, UNCHANGED <<files, assets>>,
         walk'.snapshot = walk.snapshot,
         NEW U \in SUBSET job[w].outbox, job' = [job EXCEPT ![w] = [job[w] EXCEPT !.outbox = U]]
  PROVE  TypeInv'
<1> DEFINE j == [job[w] EXCEPT !.outbox = U]
<1>1. /\ job'[w] = j /\ j.step = job[w].step /\ j.task = job[w].task /\ j.outbox = U
      /\ j.path = job[w].path /\ j.got = job[w].got /\ j # Idle
      /\ \A v \in Workers \ {w} : job'[v] = job[v]
  BY IdleJob DEF TypeInv, TypeOK, Runs, JobType
<1>2. j \in JobType
  BY DEF Runs, JobType
<1>3. TypeOK'
  BY <1>1, <1>2, Types DEF TypeInv, TypeOK
<1>4. /\ queue' \in Seq(Task)
      /\ \A i \in DOMAIN queue' : queue'[i] = t \/ \E k \in DOMAIN queue : queue'[i] = queue[k]
  BY InsertRange DEF TypeInv, TypeOK
<1>5. Shapes'
  <2>1. \A i \in DOMAIN queue' : TaskShape(queue'[i], files', assets')
    BY <1>4 DEF TypeInv, Shapes
  <2>2. JobShape(j, files, assets)
    BY <1>1 DEF TypeInv, Shapes, JobShape, OutboxShape, Runs
  <2> QED  BY <1>1, <2>1, <2>2 DEF TypeInv, Shapes
<1>6. Down' /\ IndexAlone'
  <2>1. \A i \in DOMAIN queue : queue[i].kind # "index"
    BY DEF TypeInv, IndexAlone, Runs
  <2> QED  BY <1>1, <1>4, <2>1 DEF TypeInv, IndexAlone, Down, Runs
<1>7. Walking'
  <2> SUFFICES ASSUME NEW u \in Workers, job'[u].step \in {"snapshot", "visit", "flush"}
               PROVE  AloneInWalk(u)'
    BY DEF Walking
  <2>1. job[u].step = job'[u].step /\ AloneInWalk(u)
    BY <1>1 DEF TypeInv, Walking
  <2>2. u = w
    BY <1>1, <2>1 DEF AloneInWalk, Runs, WalkSteps
  <2>3. \A i \in DOMAIN queue' : queue'[i].kind = "checksum"
    BY <1>4, <2>1, <2>2 DEF AloneInWalk
  <2> QED  BY <1>1, <2>1, <2>2, <2>3 DEF AloneInWalk
<1> QED  BY <1>3, <1>5, <1>6, <1>7 DEF TypeInv

LEMMA PushOneType == ASSUME TypeInv, NEW w \in Workers, PushOne(w) PROVE TypeInv'
<1> USE DEF PushOne
<1>1. Runs(w) /\ DataOK  BY Running, IdleJob, Types DEF TypeInv
<1>2. PICK t \in job[w].outbox :
        queue' = Insert(queue, t) /\ job' = [job EXCEPT ![w].outbox = @ \ {t}]
  OBVIOUS
<1>3. t \in Task /\ TaskShape(t, files, assets) /\ t.kind # "index"
      /\ (job[w].step \in {"snapshot", "visit", "flush"} => t.kind = "checksum")
  BY <1>1 DEF Runs, JobType, OutboxShape, StepsOf, Steps, WalkSteps, Kinds
<1>4. DataOK'
  BY <1>1, <1>2, <1>3, InsertRange DEF DataOK, env, db, process, history
<1>5. job[w].outbox \ {t} \in SUBSET job[w].outbox
      /\ job' = [job EXCEPT ![w] = [job[w] EXCEPT !.outbox = job[w].outbox \ {t}]]
  BY <1>2
<1> QED  BY <1>1, <1>2, <1>3, <1>4, <1>5, PushInv DEF WalkSteps, db, process

LEMMA TailRange ==
  ASSUME NEW q \in Seq(Task), q # <<>>
  PROVE  /\ Tail(q) \in Seq(Task) /\ Head(q) \in Task /\ Head(q) = q[1] /\ 1 \in DOMAIN q
         /\ Len(Tail(q)) = Len(q) - 1 /\ Len(q) \in Nat
         /\ DOMAIN q = 1..Len(q) /\ DOMAIN Tail(q) = 1..Len(q) - 1
         /\ \A i \in DOMAIN Tail(q) : i + 1 \in DOMAIN q /\ Tail(q)[i] = q[i + 1]
OBVIOUS

LEMMA FirstSteps ==
  ASSUME NEW t \in Task
  PROVE  /\ t.kind = "index" => FirstStep(t) = "snapshot"
         /\ t.kind = "checksum" => FirstStep(t) = "read"
         /\ t.kind # "index" => FirstStep(t) \notin WalkSteps
BY DEF FirstStep, WalkSteps, Task, Kinds, Steps

LEMMA PopType == ASSUME TypeInv, NEW w \in Workers, Pop(w) PROVE TypeInv'
<1> USE DEF Pop
<1> DEFINE t == Head(queue)
           j == [Idle EXCEPT !.task = t, !.step = FirstStep(t), !.path = t.path, !.result = FirstResult(t)]
<1>1. DataOK /\ queue \in Seq(Task)  BY Types DEF TypeInv, TypeOK
<1>2. /\ t \in Task /\ TaskShape(t, files, assets) /\ t # None /\ t = queue[1] /\ 1 \in DOMAIN queue
      /\ queue' \in Seq(Task)
      /\ \A i \in DOMAIN queue' : i + 1 \in DOMAIN queue /\ queue'[i] = queue[i + 1]
  BY <1>1, TailRange, PipelineAssumption DEF TypeInv, Shapes
<1>3. DataOK'
  BY <1>1, <1>2 DEF DataOK, env, db, process, history
<1>4. \A i \in DOMAIN queue' : TaskShape(queue'[i], files', assets')
  BY <1>2 DEF TypeInv, Shapes, db
<1>5. \A i \in DOMAIN queue' : queue'[i].kind # "index"
  <2> SUFFICES ASSUME NEW i \in DOMAIN queue', queue'[i].kind = "index" PROVE FALSE
    OBVIOUS
  <2>1. i + 1 \in DOMAIN queue /\ i \in Nat /\ i # 0 /\ Len(queue) = 1 /\ DOMAIN queue = 1..1
    BY <1>1, <1>2 DEF TypeInv, IndexAlone
  <2> QED  BY <2>1
<1>6. CASE ctxDone
  BY <1>2, <1>3, <1>4, <1>5, <1>6, Types
     DEF TypeInv, Shapes, Down, Quiet, IndexAlone, Walking, AloneInWalk, process, db
<1>7. CASE ~ctxDone
  <2>1. /\ j.task = t /\ j.step = FirstStep(t) /\ j.path = t.path /\ j.outbox = {} /\ j.got = None
        /\ j.result = FirstResult(t) /\ j \in JobType
    BY <1>2 DEF Idle, FirstStep, FirstResult, JobType, JobSteps, WalkSteps, Status, Task, Kinds, Steps
  <2>2. JobShape(j, files', assets')
    BY <1>2, <2>1 DEF JobShape, OutboxShape, TaskShape, StepsOf, FirstStep, WalkSteps, Steps, Task, Kinds, db
  <2>3. /\ job'[w] = j /\ \A v \in Workers \ {w} : job'[v] = job[v]
        /\ job' \in [Workers -> JobType]
    BY <1>7, <2>1 DEF Set, TypeInv, TypeOK
  <2>4. Shapes'
    BY <1>4, <2>2, <2>3 DEF TypeInv, Shapes, db
  <2>5. Down'
    BY DEF TypeInv, Down, process
  <2>6. IndexAlone'
    <3>1. ASSUME NEW v \in Workers \ {w}, t.kind = "index" PROVE job[v] = Idle
      BY <1>2, <3>1 DEF TypeInv, IndexAlone
    <3>2. j.step \in WalkSteps => t.kind = "index"
      BY <1>2, <2>1, FirstSteps
    <3>3. ASSUME NEW v \in Workers, NEW u \in Workers,
                 job'[v].step \in WalkSteps, job'[u].step \in WalkSteps
          PROVE  v = u
      <4>1. CASE j.step \in WalkSteps
        BY <2>3, <3>1, <3>2, <3>3, <4>1, IdleJob
      <4>2. CASE j.step \notin WalkSteps
        BY <2>3, <3>3, <4>2 DEF TypeInv, IndexAlone
      <4> QED  BY <4>1, <4>2
    <3> QED  BY <1>5, <3>3 DEF IndexAlone
  <2>7. Walking'
    <3> SUFFICES ASSUME NEW u \in Workers, job'[u].step \in {"snapshot", "visit", "flush"}
                 PROVE  AloneInWalk(u)'
      BY DEF Walking
    <3>1. CASE u = w
      <4>0. FirstStep(t) \in {"snapshot", "visit", "flush"} /\ job'[w].step = FirstStep(t) /\ t \in Task
        BY <1>2, <2>1, <2>3, <3>1
      <4>1. t.kind = "index" /\ job'[w].step = "snapshot"
        <5> HIDE DEF t, j, Pop
        <5> QED  BY <4>0, FirstSteps DEF WalkSteps
      <4>2. Len(queue) = 1 /\ \A v \in Workers : job[v] = Idle
        BY <1>2, <4>1 DEF TypeInv, IndexAlone
      <4>3. DOMAIN queue' = {}
        BY <1>1, <1>2, <4>2
      <4> QED  BY <2>3, <3>1, <4>1, <4>2, <4>3 DEF AloneInWalk
    <3>2. CASE u # w
      <4>1. AloneInWalk(u)
        BY <2>3, <3>2 DEF TypeInv, Walking
      <4>2. job'[w].task.kind = "checksum" /\ job'[w].step = "read"
        BY <1>2, <2>1, <2>3, <4>1, FirstSteps DEF AloneInWalk
      <4>3. \A i \in DOMAIN queue' : queue'[i].kind = "checksum"
        BY <1>2, <4>1 DEF AloneInWalk
      <4>4. job'[u] = job[u] /\ walk' = walk /\ files' = files
        BY <2>3, <3>2 DEF db
      <4>5. ASSUME NEW v \in Workers \ {u}
            PROVE  job'[v] = Idle \/ (job'[v].task.kind = "checksum" /\ job'[v].step = "read")
        BY <2>3, <4>1, <4>2 DEF AloneInWalk
      <4> QED  BY <4>1, <4>3, <4>4, <4>5 DEF AloneInWalk
    <3> QED  BY <3>1, <3>2
  <2> QED  BY <1>3, <2>3, <2>4, <2>5, <2>6, <2>7, Types DEF TypeInv
<1> QED  BY <1>6, <1>7

LEMMA GiveUpType == ASSUME TypeInv, NEW w \in Workers, GiveUp(w) PROVE TypeInv'
<1> USE DEF GiveUp
<1>1. Runs(w) /\ DataOK
  BY Running, IdleJob, Types DEF TypeInv, StatementSteps, At
<1>2. DataOK'
  BY <1>1 DEF DataOK, env, db, process, WalkType, NoWalk
<1>3. walk' = walk \/ job[w].step \in WalkSteps
  BY <1>1 DEF Runs, StepsOf
<1> QED  BY <1>1, <1>2, <1>3, FinishInv DEF db, process

\* The snapshot of a walk that goes on is that of the table at its begin.
SnapshotOK(snapshot, F) ==
  /\ snapshot \in [Paths -> FileRow \cup {None}]
  /\ \A p \in Paths : snapshot[p] # None => F[p] # None

\* A step of the walk that pushes nothing, and the tasks it is to push.
WalkStep(w) ==
  /\ Runs(w) /\ job[w].step \in {"snapshot", "visit"}
  /\ DataOK' /\ queue' = queue /\ up' = up /\ assets' = assets
  /\ \A p \in Paths : files[p] # None => files'[p] # None
  /\ SnapshotOK(walk'.snapshot, files')
WalkPushes(s, U, F, A) ==
  /\ s \in {"visit", "flush", "repush"} /\ U \in SUBSET Task
  /\ s = "visit" => U = {}
  /\ \A t \in U : /\ TaskShape(t, F, A)
                  /\ IF s = "flush" THEN t.kind = "checksum" ELSE t.kind \in Steps

LEMMA WalkInv ==
  ASSUME TypeInv, NEW w \in Workers, NEW s, NEW U, WalkStep(w), WalkPushes(s, U, files', assets'),
         job' = [job EXCEPT ![w] = [job[w] EXCEPT !.step = s, !.outbox = U]]
  PROVE  TypeInv'
<1> USE DEF WalkStep, WalkPushes
<1> DEFINE j == [job[w] EXCEPT !.step = s, !.outbox = U]
<1>1. /\ j.step = s /\ j.task = job[w].task /\ j.outbox = U
      /\ job[w].task.kind = "index" /\ j \in JobType
  BY DEF Runs, JobType, JobSteps, WalkSteps, StepsOf, Kinds, Steps
<1>2. JobShape(j, files', assets')
  BY <1>1 DEF Runs, JobShape, OutboxShape, TaskShape, StepsOf, WalkSteps, Steps
<1>3. /\ job'[w] = j /\ \A v \in Workers \ {w} : job'[v] = job[v]
      /\ job' \in [Workers -> JobType]
  BY <1>1 DEF TypeInv, TypeOK
<1> HIDE DEF j
<1>4. LocalStep(w)
  BY <1>3 DEF LocalStep, Runs
<1>5. Shapes' /\ Down' /\ IndexAlone'
  BY <1>2, <1>3, <1>4, LocalShapes, Types DEF WalkSteps
<1>6. Walking'
  <2> SUFFICES ASSUME NEW u \in Workers, job'[u].step \in {"snapshot", "visit", "flush"}
               PROVE  AloneInWalk(u)'
    BY DEF Walking
  <2>1. u = w
    BY <1>3 DEF TypeInv, IndexAlone, WalkSteps
  <2>2. AloneInWalk(w)
    BY DEF TypeInv, Walking
  <2> QED  BY <1>3, <2>1, <2>2 DEF AloneInWalk, SnapshotOK
<1> QED  BY <1>3, <1>5, <1>6, Types DEF TypeInv

\* What is known while the walk visits.
LEMMA Visiting ==
  ASSUME TypeInv, NEW w \in Workers, At(w, {"index"}, "visit")
  PROVE  Runs(w) /\ DataOK /\ SnapshotOK(walk.snapshot, files) /\ job[w].outbox = {}
<1>1. Runs(w) /\ DataOK  BY Running, IdleJob, Types DEF TypeInv, At
<1> QED  BY <1>1 DEF At, TypeInv, Walking, AloneInWalk, SnapshotOK, Runs

LEMMA TakeSnapshotType == ASSUME TypeInv, NEW w \in Workers, TakeSnapshot(w) PROVE TypeInv'
<1> USE DEF TakeSnapshot, At
<1>1. Runs(w) /\ DataOK  BY Running, IdleJob, Types DEF TypeInv
<1>2. DataOK' /\ SnapshotOK(walk'.snapshot, files')
  BY <1>1 DEF DataOK, env, db, process, history, WalkType, NoWalk, SnapshotOK
<1>3. job' = [job EXCEPT ![w] = [job[w] EXCEPT !.step = "visit", !.outbox = {}]]
  BY <1>1 DEF Goto, Runs, JobType
<1>4. WalkStep(w) /\ WalkPushes("visit", {}, files', assets')
  BY <1>1, <1>2 DEF WalkStep, WalkPushes, db, process
<1> QED  BY <1>3, <1>4, WalkInv

LEMMA VisitType ==
  ASSUME TypeInv, NEW w \in Workers, NEW p \in Paths, Visit(w, p) PROVE TypeInv'
<1> USE DEF Visit
<1>1. Runs(w) /\ DataOK /\ SnapshotOK(walk.snapshot, files) /\ job[w].outbox = {}
  BY Visiting
<1>2. walk'.snapshot = walk.snapshot /\ walk' \in WalkType
  <2>1. CASE VisitGone(p) \/ VisitUnread(p) \/ VisitKnown(p)
    <3>1. \/ walk' = [walk EXCEPT !.todo = walk.todo \ {p}]
          \/ walk' = [walk EXCEPT !.todo = walk.todo \ {p}, !.unread = walk.unread \cup {p}]
          \/ walk' = [walk EXCEPT !.todo = walk.todo \ {p}, !.seen = walk.seen \cup {p}]
      BY <2>1 DEF VisitGone, VisitUnread, VisitKnown
    <3>2. /\ walk.seen \cup {p} \in SUBSET Paths /\ walk.todo \ {p} \in SUBSET Paths
          /\ walk.unread \cup {p} \in SUBSET Paths
      BY <1>1 DEF DataOK, WalkType
    <3> HIDE DEF Visit
    <3>3. CASE walk' = [walk EXCEPT !.todo = walk.todo \ {p}]
      BY <1>1, <3>2, <3>3 DEF DataOK, WalkType
    <3>4. CASE walk' = [walk EXCEPT !.todo = walk.todo \ {p}, !.seen = walk.seen \cup {p}]
      BY <1>1, <3>2, <3>4 DEF DataOK, WalkType
    <3>5. CASE walk' = [walk EXCEPT !.todo = walk.todo \ {p}, !.unread = walk.unread \cup {p}]
      BY <1>1, <3>2, <3>5 DEF DataOK, WalkType
    <3> QED  BY <3>1, <3>3, <3>4, <3>5
  <2>2. CASE VisitNew(p)
    <3>1. PICK a \in KnownAssets(fs[p]) :
            walk' = [walk EXCEPT !.todo = @ \ {p}, !.seen = @ \cup {p},
                       !.batch = @ \cup {[path |-> p, row |-> [asset |-> a, stamp |-> fs[p].stamp,
                                                               offline |-> FALSE]]}]
      BY <2>2 DEF VisitNew
    <3>2. fs[p] \in Version
      BY <1>1, <2>2 DEF VisitNew, DataOK
    <3>3. a \in Contents \cup {None}
      <4>1. ASSUME NEW q \in Paths, walk.snapshot[q] # None PROVE walk.snapshot[q].asset \in Contents \cup {None}
        BY <1>1, <4>1 DEF SnapshotOK, FileRow
      <4> QED  BY <4>1 DEF KnownAssets
    <3> DEFINE row == [asset |-> a, stamp |-> fs[p].stamp, offline |-> FALSE]
               b == [path |-> p, row |-> row]
    <3>4. row \in FileRow
      BY <3>2, <3>3 DEF FileRow, Version
    <3>5. b \in [path : Paths, row : FileRow]
      BY <3>4
    <3>6. walk' = [walk EXCEPT !.todo = walk.todo \ {p}, !.seen = walk.seen \cup {p},
                               !.batch = walk.batch \cup {b}]
      BY <3>1
    <3> HIDE DEF row, b
    <3> QED  BY <1>1, <3>5, <3>6 DEF DataOK, WalkType
  <2> QED  BY <2>1, <2>2
<1>3. CASE queue' = queue
  <2>1. DataOK'
    BY <1>1, <1>2, <1>3 DEF DataOK, env, db, process, history
  <2>2. job' = [job EXCEPT ![w] = [job[w] EXCEPT !.step = "visit", !.outbox = {}]]
    BY <1>1 DEF At, Runs, JobType, TypeInv, TypeOK
  <2>3. SnapshotOK(walk'.snapshot, files')
    BY <1>1, <1>2 DEF db
  <2>4. WalkStep(w) /\ WalkPushes("visit", {}, files', assets')
    BY <1>1, <1>3, <2>1, <2>3 DEF WalkStep, WalkPushes, db, process, At
  <2> QED  BY <2>2, <2>4, WalkInv
<1>4. CASE VisitKnown(p) /\ queue' = Insert(queue, ChecksumTask(p))
  <2> DEFINE t == ChecksumTask(p)
  <2>1. t \in Task /\ TaskShape(t, files, assets) /\ t.kind = "checksum"
    BY <1>1, <1>4 DEF ChecksumTask, Task, Kinds, Steps, Status, TaskShape, VisitKnown, Unchanged, SnapshotOK
  <2>2. DataOK'
    BY <1>1, <1>2, <1>4, <2>1, InsertRange DEF DataOK, env, db, process, history
  <2>3. job' = [job EXCEPT ![w] = [job[w] EXCEPT !.outbox = {}]]
    BY <1>1 DEF Runs, JobType, TypeInv, TypeOK
  <2> QED  BY <1>1, <1>2, <1>4, <2>1, <2>2, <2>3, PushInv DEF At, WalkSteps, db, process
<1> QED  BY <1>3, <1>4 DEF VisitGone, VisitUnread, VisitKnown, VisitNew

LEMMA FlushType == ASSUME TypeInv, NEW w \in Workers, Flush(w) PROVE TypeInv'
<1> USE DEF Flush
<1>1. Runs(w) /\ DataOK /\ SnapshotOK(walk.snapshot, files)
  BY Visiting
<1>2. walk.batch \in SUBSET [path : Paths, row : FileRow] /\ walk \in WalkType
  BY <1>1 DEF DataOK, WalkType
<1>3. /\ files' \in [Paths -> FileRow \cup {None}]
      /\ \A p \in Paths : files[p] # None => files'[p] # None
      /\ \A b \in walk.batch : files'[b.path] # None
  <2>1. ASSUME NEW p \in Paths, \E b \in walk.batch : b.path = p
        PROVE  (CHOOSE b \in walk.batch : b.path = p).row \in FileRow
    BY <1>2, <2>1
  <2> QED  BY <1>1, <1>2, <2>1, PipelineAssumption DEF DataOK
<1>4. walk' \in WalkType /\ walk'.snapshot = walk.snapshot
  BY <1>2 DEF WalkType
<1>5. DataOK' /\ SnapshotOK(walk'.snapshot, files')
  BY <1>1, <1>3, <1>4 DEF DataOK, SnapshotOK, env, process, history
<1> DEFINE U == {ChecksumTask(b.path) : b \in {x \in walk.batch : x.row.asset = None}}
<1>6. U \in SUBSET Task /\ \A t \in U : TaskShape(t, files', assets') /\ t.kind = "checksum"
  BY <1>2, <1>3 DEF ChecksumTask, Task, Kinds, Steps, Status, TaskShape
<1>7. job' = [job EXCEPT ![w] = [job[w] EXCEPT !.step = "flush", !.outbox = U]]
  OBVIOUS
<1> HIDE DEF U
<1>8. WalkStep(w) /\ WalkPushes("flush", U, files', assets')
  BY <1>1, <1>3, <1>5, <1>6 DEF WalkStep, WalkPushes, At, process
<1> QED  BY <1>7, <1>8, WalkInv

LEMMA MarkOfflineType == ASSUME TypeInv, NEW w \in Workers, MarkOffline(w) PROVE TypeInv'
<1> USE DEF MarkOffline
<1>1. Runs(w) /\ DataOK /\ SnapshotOK(walk.snapshot, files) /\ job[w].outbox = {}
  BY Visiting
<1>2. PICK chunk \in SUBSET Missing \ {{}} :
        /\ files' = [p \in Paths |-> IF p \in chunk THEN [files[p] EXCEPT !.offline = TRUE] ELSE files[p]]
        /\ walk' = [walk EXCEPT !.seen = @ \cup chunk]
  OBVIOUS
<1>3. \A p \in chunk : p \in Paths /\ files[p] \in FileRow
  BY <1>1 DEF Missing, SnapshotOK, DataOK
<1>4. \A p \in chunk : files'[p] \in FileRow
  BY <1>2, <1>3 DEF FileRow
<1>5. /\ files' \in [Paths -> FileRow \cup {None}]
      /\ \A p \in Paths : files[p] # None => files'[p] # None
  BY <1>1, <1>2, <1>4, PipelineAssumption DEF DataOK
<1>6. walk' \in WalkType /\ walk'.snapshot = walk.snapshot
  BY <1>1, <1>2, <1>3 DEF DataOK, WalkType
<1>7. DataOK' /\ SnapshotOK(walk'.snapshot, files')
  BY <1>1, <1>5, <1>6 DEF DataOK, SnapshotOK, env, process, history
<1>8. job' = [job EXCEPT ![w] = [job[w] EXCEPT !.step = "visit", !.outbox = {}]]
  <2>1. job' = job /\ job[w].step = "visit"
    BY DEF At
  <2>2. job[w] = [job[w] EXCEPT !.step = "visit", !.outbox = {}] /\ job \in [Workers -> JobType]
    BY <1>1, <2>1 DEF Runs, JobType, TypeInv, TypeOK
  <2> HIDE DEF MarkOffline
  <2> QED  BY <2>1, <2>2
<1>9. WalkStep(w) /\ WalkPushes("visit", {}, files', assets')
  BY <1>1, <1>5, <1>7 DEF WalkStep, WalkPushes, At, process
<1> QED  BY <1>8, <1>9, WalkInv

LEMMA RecoverType == ASSUME TypeInv, NEW w \in Workers, Recover(w) PROVE TypeInv'
<1> USE DEF Recover
<1>1. Runs(w) /\ DataOK /\ SnapshotOK(walk.snapshot, files)
  BY Visiting
<1>2. DataOK' /\ SnapshotOK(walk'.snapshot, files')
  BY <1>1 DEF DataOK, SnapshotOK, env, db, process, history
<1> DEFINE U == UNION {PendingTasks(c) : c \in Recoverable}
<1>3. \A t \in U : t \in Task /\ t.kind \in Steps /\ TaskShape(t, files, assets)
  <2> SUFFICES ASSUME NEW c \in Recoverable, NEW t \in PendingTasks(c)
               PROVE  t \in Task /\ t.kind \in Steps /\ TaskShape(t, files, assets)
    OBVIOUS
  <2>1. c \in Contents /\ assets[c] # None /\ assets[c] \in AssetRow
    BY <1>1 DEF Recoverable, DataOK
  <2>2. assets[c]["clip"] \in Status /\ assets[c]["thumbnail"] \in Status
    BY <2>1 DEF AssetRow, Steps
  <2> QED  BY <2>1, <2>2 DEF PendingTasks, StepTask, Task, Kinds, Steps, TaskShape
<1>4. job' = [job EXCEPT ![w] = [job[w] EXCEPT !.step = "repush", !.outbox = U]]
  OBVIOUS
<1> HIDE DEF U
<1>5. WalkStep(w) /\ WalkPushes("repush", U, files', assets')
  BY <1>1, <1>2, <1>3 DEF WalkStep, WalkPushes, At, db, process
<1> QED  BY <1>4, <1>5, WalkInv

LEMMA InitType == Init => TypeInv
<1> SUFFICES ASSUME Init PROVE TypeInv
  OBVIOUS
<1> USE DEF Init
<1>1. DataOK
  <2>1. Cardinality(Paths) \in 0..MaxStamp
    BY PipelineAssumption, FS_CardinalityType
  <2>2. walk \in WalkType
    BY DEF NoWalk, WalkType
  <2>3. run \in 0..MaxRuns /\ calm \in 0..2 /\ queue \in Seq(Task)
    BY PipelineAssumption
  <2>4. fs \in [Paths -> Version \cup {None}] /\ files \in [Paths -> FileRow \cup {None}]
        /\ assets \in [Contents -> AssetRow \cup {None}]
        /\ thumbs \in [Contents -> {"none", "partial", "whole"}]
    BY PipelineAssumption
  <2> QED  BY <2>1, <2>2, <2>3, <2>4 DEF DataOK
<1>2. TypeOK
  BY <1>1, IdleJob, Types
<1>3. Shapes /\ Down /\ IndexAlone /\ Walking
  BY IdleJob DEF Shapes, Down, Quiet, IndexAlone, Walking, WalkSteps
<1> QED  BY <1>2, <1>3 DEF TypeInv

\* The edits of the library touch nothing of the program.
LEMMA EditType == ASSUME TypeInv, Edit PROVE TypeInv'
<1>1. DataOK /\ Edited /\ MayEdit /\ job \in [Workers -> JobType]
  BY Types DEF TypeInv, TypeOK, Edit, WriteFile, MoveFile, RemoveFile
<1>2. fs' \in [Paths -> Version \cup {None}]
  <2>1. stamp + 1 \in 1..MaxStamp
    BY <1>1, PipelineAssumption DEF MayEdit, DataOK
  <2> QED  BY <1>1, <2>1 DEF Edit, WriteFile, MoveFile, RemoveFile, DataOK, Version
<1>3. DataOK'
  BY <1>1, <1>2, PipelineAssumption DEF DataOK, Edited, MayEdit, db, process
<1> QED  BY <1>1, <1>3, Types
         DEF TypeInv, Edited, Shapes, Down, Quiet, IndexAlone, Walking, AloneInWalk, db, process

\* The steps of the process as a whole leave every worker idle or as it was.
LEMMA ProcessType ==
  ASSUME TypeInv, (\E r \in Retries, l \in BOOLEAN : Start(r, l)) \/ Cancel \/ Stop \/ Crash
  PROVE  TypeInv'
<1>0. DataOK /\ job \in [Workers -> JobType]
  BY Types DEF TypeInv, TypeOK
<1>1. CASE \E r \in Retries, l \in BOOLEAN : Start(r, l)
  <2>1. PICK r \in Retries, l \in BOOLEAN : Start(r, l)
    BY <1>1
  <2> USE <2>1 DEF Start
  <2>2. IndexTask \in Task /\ IndexTask.kind = "index"
    BY DEF IndexTask, Task, Kinds, Steps, Status
  <2>3. queue' \in Seq(Task) /\ Len(queue') = 1 /\ DOMAIN queue' = {1} /\ queue'[1] = IndexTask
    BY <2>2
  <2>4. Quiet /\ job' = job
    BY DEF TypeInv, Down
  <2>5. DataOK'
    <3>1. run' \in 0..MaxRuns /\ calm' \in 0..2
      BY <1>0, PipelineAssumption DEF DataOK
    <3>2. {up', ctxDone', retry', loaded', disturbed'} \subseteq BOOLEAN
      BY <1>0, PipelineAssumption DEF DataOK
    <3> QED  BY <1>0, <2>3, <3>1, <3>2 DEF DataOK, env, db
  <2> HIDE DEF Start
  <2>6. Shapes'
    BY <2>2, <2>3, <2>4, IdleJob DEF Shapes, Quiet, TaskShape, Steps
  <2>7. Down' /\ IndexAlone' /\ Walking'
    BY <2>3, <2>4, IdleJob DEF Start, Down, IndexAlone, Walking, Quiet, WalkSteps
  <2> QED  BY <1>0, <2>4, <2>5, <2>6, <2>7, Types DEF TypeInv
<1>2. CASE Cancel
  BY <1>0, <1>2, Types
     DEF Cancel, TypeInv, DataOK, Shapes, Down, Quiet, IndexAlone, Walking, AloneInWalk, env, db
<1>3. CASE Stop
  BY <1>0, <1>3, Types
     DEF Stop, TypeInv, DataOK, Shapes, Down, Quiet, IndexAlone, Walking, AloneInWalk, env, db, history
<1>4. CASE Crash
  <2>1. queue' = <<>> /\ \A w \in Workers : job'[w] = Idle
    BY <1>4 DEF Crash
  <2>2. DataOK' /\ (job \in [Workers -> JobType])'
    <3>1. NoWalk \in WalkType  BY DEF WalkType, NoWalk
    <3>2. {up', ctxDone', retry', loaded', disturbed'} \subseteq BOOLEAN
      BY <1>0, <1>4 DEF Crash, DataOK
    <3>3. queue' \in Seq(Task) /\ calm' \in 0..2
      BY <1>4 DEF Crash
    <3>4. (job \in [Workers -> JobType])'
      BY <1>4, IdleJob DEF Crash
    <3> QED  BY <1>0, <1>4, <3>1, <3>2, <3>3, <3>4 DEF Crash, DataOK, env, db
  <2>3. Shapes' /\ Down' /\ IndexAlone' /\ Walking'
    BY <2>1, IdleJob DEF Shapes, Down, Quiet, IndexAlone, Walking, WalkSteps
  <2> QED  BY <2>2, <2>3, Types DEF TypeInv
<1> QED  BY <1>1, <1>2, <1>3, <1>4

LEMMA WorkType == ASSUME TypeInv, NEW w \in Workers, Work(w) \/ GiveUp(w) PROVE TypeInv'
BY PopType, PushOneType, EndPushType, TakeSnapshotType, VisitType, FlushType, MarkOfflineType,
   RecoverType, ReadChecksumType, LookupAssetType, InsertAssetType, LinkAssetType, FindFileType,
   WaitLoadType, ReadSourceType, MakeThumbnailType, EndThumbnailType, StoreResultType, GiveUpType
   DEF Work

LEMMA StutterType == ASSUME TypeInv, UNCHANGED vars PROVE TypeInv'
BY DEF vars, env, db, process, history, TypeInv, TypeOK, Shapes, Down, Quiet, IndexAlone, Walking,
       AloneInWalk

LEMMA NextType == ASSUME TypeInv, [Next]_vars PROVE TypeInv'
BY EditType, ProcessType, WorkType, StutterType DEF Next

LEMMA TypeInvariant == Spec => []TypeInv
BY InitType, NextType, PTL DEF Spec

\* The variables stay in their types.
THEOREM TypeCorrect == Spec => []TypeOK
<1>1. TypeInv => TypeOK  BY DEF TypeInv
<1> QED  BY <1>1, TypeInvariant, PTL

-----------------------------------------------------------------------------
\* One task for each step of an asset, and only tasks that are due.

OutcomeOK(j) ==
  j.task # None =>
    /\ j.task.kind = "thumbnail" /\ j.step = "store" => j.result \in {"ok", "failed"}
    /\ j.task.kind = "clip" /\ (j.step # "store" \/ j.result = "ok") => j.task.seen # "failed"

\* ffmpeg is never skipped.
Pictured == \A c \in Contents : assets[c] # None => assets[c]["thumbnail"] # "skipped"

ClaimInv == Disjoint /\ AllDue /\ Pictured /\ \A w \in Workers : OutcomeOK(job[w])

\* A worker goes on with its task, or ends it, and claims nothing more.
GoesOn(w, j) ==
  /\ j.task = None \/ (j.task = job[w].task /\ (job[w].step = "push" => j.step = "push"))
  /\ \A t \in j.outbox : t \in job[w].outbox \/ t.kind \notin Steps
  /\ OutcomeOK(j)

LEMMA NoClaim == ASSUME NEW t, t.kind \notin Steps, NEW k \in Steps, NEW c PROVE ~Claims(t, k, c)
BY DEF Claims, Steps

LEMMA LocalClaims ==
  ASSUME TypeOK, ClaimInv, NEW w \in Workers, NEW j, GoesOn(w, j), job' = [job EXCEPT ![w] = j],
         queue' = queue, assets' = assets, retry' = retry
  PROVE  ClaimInv'
<1>1. job'[w] = j /\ \A v \in Workers \ {w} : job'[v] = job[v]
  BY DEF TypeOK
<1>2. ASSUME NEW v \in Workers, NEW k \in Steps, NEW c \in Contents, Works(v, k, c)'
      PROVE  Works(v, k, c)
  BY <1>1, <1>2 DEF Works, WorksOn, GoesOn
<1>3. ASSUME NEW v \in Workers, NEW t \in job'[v].outbox
      PROVE  t \in job[v].outbox \/ t.kind \notin Steps
  BY <1>1, <1>3 DEF GoesOn
<1>4. ASSUME NEW k \in Steps, NEW c \in Contents PROVE OneClaim(k, c)'
  <2>1. OneClaim(k, c)
    BY DEF ClaimInv, Disjoint
  <2>2. \A v \in Workers : \A t \in job'[v].outbox : Claims(t, k, c) => t \in job[v].outbox
    BY <1>3, NoClaim
  <2> QED  BY <1>2, <2>1, <2>2 DEF OneClaim
<1>6. AllDue'
  <2>2. ASSUME NEW v \in Workers, NEW t \in job'[v].outbox PROVE Due(t, assets', retry')
    BY <1>3 DEF ClaimInv, AllDue, Due
  <2>3. ASSUME NEW v \in Workers, job'[v].task # None, job'[v].step # "push"
        PROVE  Due(job'[v].task, assets', retry')
    BY <1>1, <2>3 DEF ClaimInv, AllDue, GoesOn
  <2> QED  BY <2>2, <2>3 DEF ClaimInv, AllDue
<1> QED  BY <1>1, <1>4, <1>6 DEF ClaimInv, Disjoint, GoesOn, Pictured

LEMMA FrameClaims ==
  ASSUME ClaimInv, job' = job, queue' = queue, assets' = assets, retry' = retry
  PROVE  ClaimInv'
BY DEF ClaimInv, Disjoint, OneClaim, Works, WorksOn, Claims, AllDue, OutcomeOK, Pictured

LEMMA ClearClaims ==
  ASSUME \A w \in Workers : job'[w] = Idle, \A i \in DOMAIN queue' : queue'[i].kind \notin Steps,
         Pictured'
  PROVE  ClaimInv'
<1>1. \A k \in Steps, c \in Contents : \A i \in DOMAIN queue' : ~Claims(queue'[i], k, c)
  BY NoClaim
<1> QED  BY <1>1, IdleJob DEF ClaimInv, Disjoint, OneClaim, Works, WorksOn, AllDue, Due, OutcomeOK

\* A Push moves a claim from an outbox into the queue, or is of no step.
LEMMA PushClaims ==
  ASSUME TypeInv, ClaimInv, NEW w \in Workers, NEW t \in Task,
         queue' = Insert(queue, t), assets' = assets, retry' = retry,
         \/ t \in job[w].outbox /\ job' = [job EXCEPT ![w] = [job[w] EXCEPT !.outbox = job[w].outbox \ {t}]]
         \/ t.kind \notin Steps /\ job' = job
  PROVE  ClaimInv'
<1>1. job \in [Workers -> JobType] /\ queue \in Seq(Task)
  BY DEF TypeInv, TypeOK
<1>2. /\ job'[w].task = job[w].task /\ job'[w].step = job[w].step /\ job'[w].result = job[w].result
      /\ \A v \in Workers \ {w} : job'[v] = job[v]
      /\ \A v \in Workers : job'[v].outbox \subseteq job[v].outbox
      /\ t.kind \in Steps => t \in job[w].outbox /\ t \notin job'[w].outbox
  <2>1. CASE t.kind \notin Steps /\ job' = job
    BY <1>1, <2>1
  <2>2. CASE t \in job[w].outbox /\ job' = [job EXCEPT ![w] = [job[w] EXCEPT !.outbox = job[w].outbox \ {t}]]
    <3>1. job[w] \in JobType  BY <1>1
    <3>2. job'[w] = [job[w] EXCEPT !.outbox = job[w].outbox \ {t}] /\ \A v \in Workers \ {w} : job'[v] = job[v]
      BY <1>1, <2>2
    <3> QED  BY <2>2, <3>1, <3>2 DEF JobType
  <2> QED  BY <2>1, <2>2
<1> DEFINE q == Insert(queue, t)
<1>0. queue' = q
  OBVIOUS
<1>10. \E n \in 0..Len(queue) :
        /\ q \in Seq(Task) /\ Len(q) = Len(queue) + 1
        /\ \A i \in 1..Len(queue) + 1 :
             q[i] = IF i <= n THEN queue[i] ELSE IF i = n + 1 THEN t ELSE queue[i - 1]
  BY <1>1, InsertEffect
<1> HIDE DEF q
<1>3. PICK n \in 0..Len(queue) :
        /\ Len(queue') = Len(queue) + 1 /\ queue' \in Seq(Task)
        /\ \A i \in 1..Len(queue) + 1 :
             queue'[i] = IF i <= n THEN queue[i] ELSE IF i = n + 1 THEN t ELSE queue[i - 1]
  BY <1>0, <1>10
<1> DEFINE old(i) == IF i <= n THEN i ELSE i - 1
<1>4. ASSUME NEW i \in DOMAIN queue', i # n + 1
      PROVE  old(i) \in DOMAIN queue /\ queue'[i] = queue[old(i)]
  <2>1. Len(queue) \in Nat /\ n \in Nat /\ n <= Len(queue) /\ i \in 1..Len(queue) + 1
    BY <1>1, <1>3
  <2>2. old(i) \in 1..Len(queue)
    BY <1>4, <2>1
  <2> QED  BY <1>1, <1>3, <1>4, <2>1, <2>2
<1>5. \A i, j \in DOMAIN queue' : i # n + 1 /\ j # n + 1 /\ old(i) = old(j) => i = j
  <2>1. \A i \in DOMAIN queue' : i \in Nat
    BY <1>3
  <2> QED  BY <1>3, <2>1
<1>6. n + 1 \in DOMAIN queue' /\ queue'[n + 1] = t
  <2>1. n + 1 \in 1..Len(queue) + 1 /\ ~(n + 1 <= n)
    BY <1>1, <1>3
  <2> QED  BY <1>3, <2>1
<1> HIDE DEF old
<1>7. ASSUME NEW k \in Steps, NEW c \in Contents PROVE OneClaim(k, c)'
  <2>1. OneClaim(k, c)
    BY DEF ClaimInv, Disjoint
  <2>2. Claims(t, k, c) => t \in job[w].outbox /\ t \notin job'[w].outbox
    BY <1>2, NoClaim
  <2>3. \A v \in Workers : Works(v, k, c)' <=> Works(v, k, c)
    BY <1>2 DEF Works, WorksOn
  <2>4. \A i, j \in DOMAIN queue' : Claims(queue'[i], k, c) /\ Claims(queue'[j], k, c) => i = j
    BY <1>4, <1>5, <1>6, <2>1, <2>2 DEF OneClaim
  <2>5. ASSUME NEW i \in DOMAIN queue', NEW v \in Workers, Claims(queue'[i], k, c)
        PROVE  ~Works(v, k, c) /\ \A u \in job'[v].outbox : ~Claims(u, k, c)
    BY <1>2, <1>4, <1>6, <2>1, <2>2, <2>5 DEF OneClaim
  <2>6. \A u, v \in Workers : Works(u, k, c) /\ Works(v, k, c) => u = v
    BY <2>1 DEF OneClaim
  <2>7. \A u, v \in Workers : Works(u, k, c) => \A x \in job'[v].outbox : ~Claims(x, k, c)
    BY <1>2, <2>1 DEF OneClaim
  <2>8. \A u, v \in Workers : \A x \in job'[u].outbox, y \in job'[v].outbox :
          Claims(x, k, c) /\ Claims(y, k, c) => u = v /\ x = y
    BY <1>2, <2>1 DEF OneClaim
  <2> QED  BY <2>3, <2>4, <2>5, <2>6, <2>7, <2>8 DEF OneClaim
<1>8. AllDue'
  <2>1. Due(t, assets, retry)
    BY <1>2 DEF ClaimInv, AllDue, Due
  <2>2. \A i \in DOMAIN queue' : Due(queue'[i], assets, retry)
    BY <1>4, <1>6, <2>1 DEF ClaimInv, AllDue
  <2>3. ASSUME NEW v \in Workers
        PROVE  /\ \A u \in job'[v].outbox : Due(u, assets, retry)
               /\ job'[v].task # None /\ job'[v].step # "push" => Due(job'[v].task, assets, retry)
    BY <1>2 DEF ClaimInv, AllDue
  <2> QED  BY <2>2, <2>3 DEF AllDue
<1>9. \A v \in Workers : OutcomeOK(job'[v])
  BY <1>2 DEF ClaimInv, OutcomeOK
<1> QED  BY <1>7, <1>8, <1>9 DEF ClaimInv, Disjoint, Pictured

LEMMA PopClaims == ASSUME TypeInv, ClaimInv, NEW w \in Workers, Pop(w) PROVE ClaimInv'
<1> USE DEF Pop
<1> DEFINE t == Head(queue)
           j == [Idle EXCEPT !.task = t, !.step = FirstStep(t), !.path = t.path, !.result = FirstResult(t)]
<1>1. queue \in Seq(Task) /\ job \in [Workers -> JobType]
  BY DEF TypeInv, TypeOK
<1>2. /\ t \in Task /\ t # None /\ t = queue[1] /\ 1 \in DOMAIN queue
      /\ \A i \in DOMAIN queue' : i \in Nat /\ i # 0 /\ i + 1 \in DOMAIN queue /\ queue'[i] = queue[i + 1]
  BY <1>1, TailRange, PipelineAssumption
<1>3. /\ j.task = t /\ j.step = FirstStep(t) /\ j.outbox = {} /\ j.result = FirstResult(t)
      /\ j.step # "push"
  BY <1>2 DEF Idle, FirstStep, WalkSteps, Task, Kinds, Steps
<1>4. OutcomeOK(j)
  BY <1>2, <1>3 DEF OutcomeOK, FirstStep, FirstResult
<1>5. \A v \in Workers \ {w} : job'[v] = job[v]
  BY <1>1 DEF Set
<1>6. job'[w] = j \/ job'[w] = Idle
  BY <1>1 DEF Set
<1>7. job[w] = Idle  OBVIOUS
<1>8. assets' = assets /\ retry' = retry
  BY DEF db, process
<1> HIDE DEF Pop, j, t
<1>9. ASSUME NEW k \in Steps, NEW c \in Contents PROVE OneClaim(k, c)'
  <2>1. OneClaim(k, c)
    BY DEF ClaimInv, Disjoint
  <2>2. ~Works(w, k, c) /\ \A x \in job[w].outbox : ~Claims(x, k, c)
    BY <1>7, IdleJob DEF Works, WorksOn
  <2>3. Works(w, k, c)' => Claims(queue[1], k, c)
    BY <1>2, <1>3, <1>6, IdleJob DEF Works, WorksOn
  <2>4. \A v \in Workers \ {w} : Works(v, k, c)' <=> Works(v, k, c)
    BY <1>5 DEF Works, WorksOn
  <2>5. \A v \in Workers : job'[v].outbox = job[v].outbox
    BY <1>3, <1>5, <1>6, <1>7, IdleJob
  <2>6. \A i \in DOMAIN queue' : i + 1 # 1
    BY <1>2
  <2> QED  BY <1>2, <2>1, <2>2, <2>3, <2>4, <2>5, <2>6 DEF OneClaim
<1>10. AllDue'
  <2>1. \A i \in DOMAIN queue' : Due(queue'[i], assets, retry)
    BY <1>2 DEF ClaimInv, AllDue
  <2>2. ASSUME NEW v \in Workers
        PROVE  /\ \A u \in job'[v].outbox : Due(u, assets, retry)
               /\ job'[v].task # None /\ job'[v].step # "push" => Due(job'[v].task, assets, retry)
    BY <1>2, <1>3, <1>5, <1>6, IdleJob DEF ClaimInv, AllDue
  <2> QED  BY <1>8, <2>1, <2>2 DEF AllDue
<1>11. \A v \in Workers : OutcomeOK(job'[v])
  BY <1>4, <1>5, <1>6, IdleJob DEF ClaimInv, OutcomeOK
<1> QED  BY <1>8, <1>9, <1>10, <1>11 DEF ClaimInv, Disjoint, Pictured

\* A worker with an empty outbox is to push the tasks of U, which nobody claims.
Free(U, w, j) ==
  \A k \in Steps, c \in Contents, t \in U :
    Claims(t, k, c) =>
      /\ \A u \in U : Claims(u, k, c) => t = u
      /\ \A i \in DOMAIN queue : ~Claims(queue[i], k, c)
      /\ ~WorksOn(j, k, c) /\ \A v \in Workers \ {w} : ~Works(v, k, c)
      /\ \A v \in Workers : \A x \in job[v].outbox : ~Claims(x, k, c)

LEMMA AddClaims ==
  ASSUME TypeOK, Disjoint, NEW w \in Workers, NEW j, job' = [job EXCEPT ![w] = j], queue' = queue,
         job[w].outbox = {}, Free(j.outbox, w, j),
         \A k \in Steps, c \in Contents : WorksOn(j, k, c) => Works(w, k, c)
  PROVE  Disjoint'
<1>1. job'[w] = j /\ \A v \in Workers \ {w} : job'[v] = job[v]
  BY DEF TypeOK
<1> SUFFICES ASSUME NEW k \in Steps, NEW c \in Contents PROVE OneClaim(k, c)'
  BY DEF Disjoint
<1>2. OneClaim(k, c)
  BY DEF Disjoint
<1>3. \A v \in Workers : Works(v, k, c)' => Works(v, k, c)
  BY <1>1 DEF Works
<1>4. \A i, l \in DOMAIN queue : Claims(queue[i], k, c) /\ Claims(queue[l], k, c) => i = l
  BY <1>2 DEF OneClaim
<1>5. ASSUME NEW i \in DOMAIN queue, NEW v \in Workers, Claims(queue[i], k, c)
      PROVE  ~Works(v, k, c)' /\ \A t \in job'[v].outbox : ~Claims(t, k, c)
  BY <1>1, <1>2, <1>3, <1>5 DEF OneClaim, Free
<1>6. \A u, v \in Workers : Works(u, k, c)' /\ Works(v, k, c)' => u = v
  BY <1>2, <1>3 DEF OneClaim
<1>7. ASSUME NEW u \in Workers, NEW v \in Workers, Works(u, k, c)', NEW t \in job'[v].outbox
      PROVE  ~Claims(t, k, c)
  <2>1. CASE v = w
    BY <1>1, <1>7, <2>1 DEF Free, Works
  <2>2. CASE v # w
    BY <1>1, <1>2, <1>3, <1>7, <2>2 DEF OneClaim
  <2> QED  BY <2>1, <2>2
<1>8. ASSUME NEW u \in Workers, NEW v \in Workers, NEW t \in job'[u].outbox, NEW x \in job'[v].outbox,
             Claims(t, k, c), Claims(x, k, c)
      PROVE  u = v /\ t = x
  <2>1. CASE u = w /\ v = w
    BY <1>1, <1>8, <2>1 DEF Free
  <2>2. CASE u = w /\ v # w
    BY <1>1, <1>8, <2>2 DEF Free
  <2>3. CASE u # w /\ v = w
    BY <1>1, <1>8, <2>3 DEF Free
  <2>4. CASE u # w /\ v # w
    BY <1>1, <1>2, <1>8, <2>4 DEF OneClaim
  <2> QED  BY <2>1, <2>2, <2>3, <2>4
<1> QED  BY <1>4, <1>5, <1>6, <1>7, <1>8 DEF OneClaim

\* Nothing claims a step of an asset that has no row.
LEMMA NoRowNoClaim ==
  ASSUME TypeInv, NEW k \in Steps, NEW c \in Contents, assets[c] = None
  PROVE  /\ \A i \in DOMAIN queue : ~Claims(queue[i], k, c)
         /\ \A v \in Workers : ~Works(v, k, c) /\ \A t \in job[v].outbox : ~Claims(t, k, c)
<1>1. \A t : TaskShape(t, files, assets) => ~Claims(t, k, c)
  BY DEF TaskShape, Claims, Steps
<1>2. \A i \in DOMAIN queue : ~Claims(queue[i], k, c)
  BY <1>1 DEF TypeInv, Shapes
<1>3. ASSUME NEW v \in Workers
      PROVE  ~Works(v, k, c) /\ \A t \in job[v].outbox : ~Claims(t, k, c)
  <2>1. CASE job[v] = Idle
    BY <2>1, IdleJob DEF Works, WorksOn
  <2>2. CASE job[v] # Idle
    <3>1. Runs(v)  BY <2>2, Running
    <3> QED  BY <1>1, <3>1 DEF Runs, OutboxShape, Works, WorksOn
  <2> QED  BY <2>1, <2>2
<1> QED  BY <1>2, <1>3

LEMMA InsertAssetClaims == ASSUME TypeInv, ClaimInv, NEW w \in Workers, InsertAsset(w) PROVE ClaimInv'
<1> USE DEF InsertAsset, At
<1>1. Runs(w) /\ TypeOK  BY Running, IdleJob DEF TypeInv
<1> DEFINE c == job[w].got
           U == IF assets[c] = None THEN FirstTasks(job[w].path, c) ELSE {}
           j == [job[w] EXCEPT !.step = "link", !.outbox = U]
<1>2. job[w].task.kind = "checksum" /\ c \in Contents /\ job[w].outbox = {}
  BY <1>1 DEF Runs, StepsOf, WalkSteps, Kinds, Steps
<1>3. j.task = job[w].task /\ j.step = "link" /\ j.outbox = U /\ j.result = job[w].result
  BY <1>1 DEF Runs, JobType
<1>4. job' = [job EXCEPT ![w] = j]
  OBVIOUS
<1>5. /\ assets[c] = None => assets' = [assets EXCEPT ![c] = NewAsset]
      /\ assets[c] # None => assets' = assets
      /\ queue' = queue /\ retry' = retry
  BY DEF process
<1>6. \A k \in Steps, d \in Contents : ~WorksOn(j, k, d)
  BY <1>2, <1>3 DEF WorksOn, Claims, Steps
<1>7. \A t \in U : /\ assets[c] = None /\ t.asset = c /\ t.kind \in {"metadata", "thumbnail", "ocr"}
                   /\ t.seen = "pending"
                   /\ \A u \in U : t.kind = u.kind => t = u
  BY DEF FirstTasks, StepTask
<1> HIDE DEF U, j, c, InsertAsset
<1>8. Free(U, w, j)
  <2> SUFFICES ASSUME NEW k \in Steps, NEW d \in Contents, NEW t \in U, Claims(t, k, d)
               PROVE  /\ \A u \in U : Claims(u, k, d) => t = u
                      /\ \A i \in DOMAIN queue : ~Claims(queue[i], k, d)
                      /\ ~WorksOn(j, k, d) /\ \A v \in Workers \ {w} : ~Works(v, k, d)
                      /\ \A v \in Workers : \A x \in job[v].outbox : ~Claims(x, k, d)
    BY DEF Free
  <2>1. d = c /\ assets[d] = None
    BY <1>7 DEF Claims
  <2>2. \A u \in U : Claims(u, k, d) => t = u
    BY <1>7 DEF Claims
  <2> QED  BY <1>6, <2>1, <2>2, NoRowNoClaim
<1>9. Disjoint'
  BY <1>1, <1>2, <1>3, <1>4, <1>5, <1>6, <1>8, AddClaims DEF ClaimInv
<1>10. AllDue'
  <2>1. assets \in [Contents -> AssetRow \cup {None}]
    BY <1>1 DEF TypeOK
  <2>2. ASSUME NEW t, Due(t, assets, retry), TaskShape(t, files, assets) PROVE Due(t, assets', retry')
    BY <1>2, <1>5, <2>1, <2>2 DEF Due, TaskShape
  <2>3. ASSUME NEW t \in U PROVE Due(t, assets', retry')
    <3>1. assets'[c] = NewAsset /\ NewAsset # None
      BY <1>2, <1>5, <1>7, <2>1, PipelineAssumption DEF NewAsset, AssetRow, Status
    <3> QED  BY <1>7, <3>1 DEF Due, NewAsset, MayRun, Steps
  <2>4. \A i \in DOMAIN queue' : Due(queue'[i], assets', retry')
    BY <1>5, <2>2 DEF ClaimInv, AllDue, TypeInv, Shapes
  <2>5. ASSUME NEW v \in Workers
        PROVE  /\ \A u \in job'[v].outbox : Due(u, assets', retry')
               /\ job'[v].task # None /\ job'[v].step # "push" => Due(job'[v].task, assets', retry')
    <3>1. CASE v = w
      <4>1. job'[v] = j  BY <1>1, <1>4, <3>1 DEF TypeOK
      <4>2. Due(job[w].task, assets', retry')  BY <1>2 DEF Due, Steps
      <4> QED  BY <1>3, <2>3, <4>1, <4>2
    <3>2. CASE v # w
      <4>1. job'[v] = job[v]  BY <1>1, <1>4, <3>2 DEF TypeOK
      <4>2. CASE job[v] = Idle  BY <4>1, <4>2, IdleJob
      <4>3. CASE job[v] # Idle
        <5>1. Runs(v)  BY <4>3, Running
        <5>2. TaskShape(job[v].task, files, assets) /\ \A t \in job[v].outbox : TaskShape(t, files, assets)
          BY <5>1 DEF Runs, OutboxShape
        <5> QED  BY <2>2, <4>1, <5>2 DEF ClaimInv, AllDue
      <4> QED  BY <4>2, <4>3
    <3> QED  BY <3>1, <3>2
  <2> QED  BY <2>4, <2>5 DEF AllDue
<1>11. \A v \in Workers : OutcomeOK(job'[v])
  <2>1. OutcomeOK(j)
    BY <1>2, <1>3 DEF OutcomeOK
  <2> QED  BY <1>1, <1>4, <2>1 DEF ClaimInv, TypeOK
<1>12. Pictured'
  <2>1. assets'[c] = assets[c] \/ assets'[c] = NewAsset
    BY <1>1, <1>2, <1>5 DEF TypeOK
  <2>2. NewAsset["thumbnail"] = "pending"  BY DEF NewAsset, Steps
  <2>3. \A d \in Contents \ {c} : assets'[d] = assets[d]
    BY <1>1, <1>2, <1>5 DEF TypeOK
  <2> QED  BY <1>2, <2>1, <2>2, <2>3 DEF ClaimInv, Pictured
<1> QED  BY <1>9, <1>10, <1>11, <1>12 DEF ClaimInv

\* What the store step of a task changes: one status of its asset, which no
\* other task of the process is to read or write.
Stores(w, a, k) ==
  /\ job[w].task.asset = a /\ job[w].task.kind = k /\ a \in Contents /\ k \in Steps
  /\ job[w].step = "store" /\ assets[a] \in AssetRow /\ job[w].result \in Status
  /\ assets'[a] \in AssetRow /\ assets'[a][k] = job[w].result
  /\ \A s \in Steps \ {k} : assets'[a][s] = assets[a][s]
  /\ \A d \in Contents \ {a} : assets'[d] = assets[d]

LEMMA StoreEffect ==
  ASSUME TypeInv, NEW w \in Workers, StoreResult(w)
  PROVE  /\ Runs(w) /\ TypeOK /\ queue' = queue /\ retry' = retry /\ thumbs' = thumbs
         /\ Stores(w, job[w].task.asset, job[w].task.kind)
<1> USE DEF StoreResult
<1>1. Runs(w) /\ TypeOK  BY Running, IdleJob DEF TypeInv
<1> DEFINE a == job[w].task.asset  k == job[w].task.kind
<1>2. k \in Steps /\ a \in Contents /\ assets[a] \in AssetRow /\ job[w].result \in Status
  BY <1>1 DEF Runs, StepsOf, WalkSteps, Kinds, Steps, JobType
<1>3. assets' = [assets EXCEPT ![a] = [assets[a] EXCEPT ![k] = job[w].result]]
  OBVIOUS
<1>4. assets'[a] = [assets[a] EXCEPT ![k] = job[w].result] /\ \A d \in Contents \ {a} : assets'[d] = assets[d]
  BY <1>1, <1>2, <1>3 DEF TypeOK
<1>5. /\ assets'[a] \in AssetRow /\ assets'[a][k] = job[w].result
      /\ \A s \in Steps \ {k} : assets'[a][s] = assets[a][s]
  BY <1>2, <1>4 DEF AssetRow
<1> QED  BY <1>1, <1>2, <1>4, <1>5 DEF Stores, process

\* Every task but that of the worker that stores is as due as it was.
LEMMA StoredDue ==
  ASSUME NEW w \in Workers, NEW a, NEW k, Stores(w, a, k), retry' = retry,
         NEW t, Due(t, assets, retry), TaskShape(t, files, assets),
         ~Claims(t, k, a), k = "thumbnail" => ~Claims(t, "clip", a)
  PROVE  Due(t, assets', retry')
<1> SUFFICES ASSUME t.kind \in Steps PROVE Due(t, assets', retry')
  BY DEF Due
<1>1. t.asset \in Contents
  BY DEF TaskShape
<1>2. CASE t.asset # a
  BY <1>1, <1>2 DEF Due, Stores
<1>3. CASE t.asset = a
  <2>1. t.kind # k /\ (t.kind = "thumbnail" => k # "clip") /\ (t.kind = "clip" => k # "thumbnail")
    BY <1>3 DEF Claims
  <2>2. "thumbnail" \in Steps /\ "clip" \in Steps  BY DEF Steps
  <2>3. assets'[a] # None
    BY PipelineAssumption DEF Stores
  <2> QED  BY <1>3, <2>1, <2>2, <2>3 DEF Due, Stores
<1> QED  BY <1>2, <1>3

LEMMA StoreResultClaims == ASSUME TypeInv, ClaimInv, NEW w \in Workers, StoreResult(w) PROVE ClaimInv'
<1> DEFINE t == job[w].task  a == t.asset  k == t.kind  r == job[w].result
           U == IF k = "thumbnail" THEN ClipAfter(t, r) ELSE {}
           j == IF k = "thumbnail" THEN [job[w] EXCEPT !.step = "push", !.outbox = U] ELSE Idle
<1>1. /\ Runs(w) /\ TypeOK /\ queue' = queue /\ retry' = retry /\ Stores(w, a, k)
  BY StoreEffect
<1>2. job' = [job EXCEPT ![w] = j]
  BY DEF StoreResult, Finish
<1>3. /\ job[w].outbox = {} /\ t # None /\ k \in Steps /\ a \in Contents
      /\ Works(w, k, a) /\ (k = "thumbnail" => Works(w, "clip", a))
  BY <1>1 DEF Runs, Stores, Works, WorksOn, Claims
<1>4. /\ j.outbox = U /\ (j.task = None \/ (k = "thumbnail" /\ j.task = t /\ j.step = "push"))
      /\ (k # "thumbnail" => j.task = None)
  BY <1>1, IdleJob DEF Runs, JobType
<1>5. \A x \in U : /\ k = "thumbnail" /\ x.kind = "clip" /\ x.asset = a /\ x.seen = r
                   /\ MayRun(t.seen, retry) /\ \A y \in U : x = y
  BY DEF ClipAfter, StepTask, ShouldRun, MayRun
<1>6. Due(t, assets, retry)
  BY <1>1, <1>3 DEF ClaimInv, AllDue, Stores
<1>7. k = "thumbnail" => r \in {"ok", "failed"} /\ t.seen = assets[a]["clip"]
  BY <1>1, <1>3, <1>6 DEF ClaimInv, OutcomeOK, Stores, Due
<1> HIDE DEF U, j, t, a, k, r
<1>8. \A s \in Steps, d \in Contents : WorksOn(j, s, d) => Works(w, s, d) /\ ~(s = "clip")
  <2> USE DEF t, k, a
  <2>1. ASSUME NEW s \in Steps, NEW d \in Contents, WorksOn(j, s, d) PROVE Works(w, s, d) /\ ~(s = "clip")
    BY <1>3, <1>4, <2>1 DEF Works, WorksOn, Claims
  <2> QED  BY <2>1
<1>9. Free(U, w, j)
  <2> SUFFICES ASSUME NEW s \in Steps, NEW d \in Contents, NEW x \in U, Claims(x, s, d)
               PROVE  /\ \A u \in U : Claims(u, s, d) => x = u
                      /\ \A i \in DOMAIN queue : ~Claims(queue[i], s, d)
                      /\ ~WorksOn(j, s, d) /\ \A v \in Workers \ {w} : ~Works(v, s, d)
                      /\ \A v \in Workers : \A y \in job[v].outbox : ~Claims(y, s, d)
    BY DEF Free
  <2>1. s = "clip" /\ d = a /\ k = "thumbnail"
    BY <1>5 DEF Claims
  <2>2. OneClaim("clip", a) /\ Works(w, "clip", a)
    BY <1>3, <2>1 DEF ClaimInv, Disjoint
  <2> QED  BY <1>5, <1>8, <2>1, <2>2 DEF OneClaim
<1>10. Disjoint'
  BY <1>1, <1>2, <1>3, <1>4, <1>8, <1>9, AddClaims DEF ClaimInv
<1>11. OneClaim(k, a) /\ OneClaim("clip", a)
  BY <1>3 DEF ClaimInv, Disjoint, Steps
<1>12. AllDue'
  <2>1. ASSUME NEW i \in DOMAIN queue PROVE Due(queue[i], assets', retry')
    <3>1. ~Claims(queue[i], k, a) /\ (k = "thumbnail" => ~Claims(queue[i], "clip", a))
      BY <1>3, <1>11 DEF OneClaim
    <3>2. Due(queue[i], assets, retry) /\ TaskShape(queue[i], files, assets)
      BY DEF ClaimInv, AllDue, TypeInv, Shapes
    <3> QED  BY <1>1, <3>1, <3>2, StoredDue
  <2>2. ASSUME NEW x \in U PROVE Due(x, assets', retry')
    <3>1. assets'[a] # None /\ assets'[a]["thumbnail"] = r /\ assets'[a]["clip"] = assets[a]["clip"]
      <4>1. "clip" \in Steps /\ k = "thumbnail"  BY <1>5, <2>2 DEF Steps
      <4> QED  BY <1>1, <4>1, PipelineAssumption DEF Stores, r
    <3> QED  BY <1>1, <1>5, <1>7, <2>2, <3>1 DEF Due
  <2>3. ASSUME NEW v \in Workers
        PROVE  /\ \A u \in job'[v].outbox : Due(u, assets', retry')
               /\ job'[v].task # None /\ job'[v].step # "push" => Due(job'[v].task, assets', retry')
    <3>1. CASE v = w
      <4>1. job'[v] = j  BY <1>1, <1>2, <3>1 DEF TypeOK
      <4> QED  BY <1>4, <2>2, <4>1
    <3>2. CASE v # w
      <4>1. job'[v] = job[v]  BY <1>1, <1>2, <3>2 DEF TypeOK
      <4>2. CASE job[v] = Idle  BY <4>1, <4>2, IdleJob
      <4>3. CASE job[v] # Idle
        <5>1. Runs(v)  BY <4>3, Running
        <5>2. TaskShape(job[v].task, files, assets) /\ \A y \in job[v].outbox : TaskShape(y, files, assets)
          BY <5>1 DEF Runs, OutboxShape
        <5>3. ASSUME NEW y \in job[v].outbox PROVE Due(y, assets', retry')
          <6>1. ~Claims(y, k, a) /\ (k = "thumbnail" => ~Claims(y, "clip", a))
            BY <1>3, <1>11 DEF OneClaim
          <6>2. Due(y, assets, retry) /\ TaskShape(y, files, assets)
            BY <5>2 DEF ClaimInv, AllDue
          <6> QED  BY <1>1, <6>1, <6>2, StoredDue
        <5>4. ASSUME job[v].step # "push" PROVE Due(job[v].task, assets', retry')
          <6>1. ~Works(v, k, a) /\ (k = "thumbnail" => ~Works(v, "clip", a))
            BY <1>3, <1>11, <3>2 DEF OneClaim
          <6>2. ~Claims(job[v].task, k, a) /\ (k = "thumbnail" => ~Claims(job[v].task, "clip", a))
            BY <5>1, <5>4, <6>1 DEF Works, WorksOn, Runs
          <6>3. Due(job[v].task, assets, retry) /\ TaskShape(job[v].task, files, assets)
            BY <5>1, <5>2, <5>4 DEF ClaimInv, AllDue, Runs
          <6> QED  BY <1>1, <6>2, <6>3, StoredDue
        <5> QED  BY <4>1, <5>3, <5>4
      <4> QED  BY <4>2, <4>3
    <3> QED  BY <3>1, <3>2
  <2> QED  BY <1>1, <2>1, <2>3 DEF AllDue
<1>13. \A v \in Workers : OutcomeOK(job'[v])
  <2>1. OutcomeOK(j)
    BY <1>4 DEF OutcomeOK, k
  <2> QED  BY <1>1, <1>2, <2>1 DEF ClaimInv, TypeOK
<1>14. Pictured'
  <2>1. assets[a] # None /\ ("thumbnail" \in Steps)
    BY <1>1, PipelineAssumption DEF Stores, Steps
  <2>2. assets'[a]["thumbnail"] # "skipped"
    BY <1>1, <1>7, <2>1 DEF ClaimInv, Pictured, Stores, r
  <2> QED  BY <1>1, <2>2 DEF ClaimInv, Pictured, Stores
<1> QED  BY <1>10, <1>12, <1>13, <1>14 DEF ClaimInv

\* The walk runs alone: nothing is claimed when its end queues what is left.
LEMMA RecoverClaims == ASSUME TypeInv, ClaimInv, NEW w \in Workers, Recover(w) PROVE ClaimInv'
<1> USE DEF Recover
<1> DEFINE U == UNION {PendingTasks(c) : c \in Recoverable}
           j == [job[w] EXCEPT !.step = "repush", !.outbox = U]
<1>1. Runs(w) /\ TypeOK /\ job[w].outbox = {} /\ AloneInWalk(w) /\ job[w].task.kind = "index"
  BY Visiting DEF TypeInv, At, Walking
<1>2. /\ job' = [job EXCEPT ![w] = j] /\ queue' = queue /\ assets' = assets /\ retry' = retry
      /\ job[w].step = "visit"
  BY DEF db, process, At
<1>3. j.task = job[w].task /\ j.step = "repush" /\ j.outbox = U
  BY <1>1 DEF Runs, JobType
<1>4. \A t \in U : /\ t.kind \in Steps /\ t.asset \in Contents /\ assets[t.asset] # None
                   /\ Due(t, assets, retry) \/ t.kind = "clip"
                   /\ MayRun(assets[t.asset][t.kind], retry)
                   /\ t.kind = "clip" => /\ ~MayRun(assets[t.asset]["thumbnail"], retry)
                                         /\ t.seen = assets[t.asset]["thumbnail"]
                   /\ t = StepTask(t.kind, t.asset, None, IF t.kind = "thumbnail" THEN assets[t.asset]["clip"]
                                                                                  ELSE assets[t.asset]["thumbnail"])
  BY DEF PendingTasks, Recoverable, StepTask, ShouldRun, MayRun, Due
<1> HIDE DEF U, j, Recover
<1>5. \A k \in Steps, c \in Contents :
        /\ \A i \in DOMAIN queue : ~Claims(queue[i], k, c)
        /\ ~WorksOn(j, k, c)
        /\ \A v \in Workers : ~Works(v, k, c) /\ \A x \in job[v].outbox : ~Claims(x, k, c)
  <2> SUFFICES ASSUME NEW k \in Steps, NEW c \in Contents
               PROVE  /\ \A i \in DOMAIN queue : ~Claims(queue[i], k, c)
                      /\ ~WorksOn(j, k, c)
                      /\ \A v \in Workers : ~Works(v, k, c) /\ \A x \in job[v].outbox : ~Claims(x, k, c)
    OBVIOUS
  <2>1. "checksum" \notin Steps /\ "index" \notin Steps  BY DEF Steps
  <2>2. \A i \in DOMAIN queue : ~Claims(queue[i], k, c)
    BY <1>1, <2>1, NoClaim DEF AloneInWalk
  <2>3. ~WorksOn(j, k, c) /\ ~Works(w, k, c)
    BY <1>1, <1>3, <2>1, NoClaim DEF Works, WorksOn
  <2>4. ASSUME NEW v \in Workers \ {w} PROVE ~Works(v, k, c) /\ job[v].outbox = {}
    <3>1. CASE job[v] = Idle
      BY <3>1, IdleJob DEF Works, WorksOn
    <3>2. CASE job[v] # Idle
      <4>1. Runs(v) /\ job[v].task.kind = "checksum" /\ job[v].step = "read"
        BY <1>1, <3>2, Running DEF AloneInWalk
      <4> QED  BY <2>1, <4>1, NoClaim DEF Works, WorksOn, Runs
    <3> QED  BY <3>1, <3>2
  <2> QED  BY <1>1, <2>2, <2>3, <2>4
<1>6. Free(U, w, j)
  <2> SUFFICES ASSUME NEW k \in Steps, NEW c \in Contents, NEW t \in U, Claims(t, k, c),
                      NEW u \in U, Claims(u, k, c)
               PROVE  t = u
    BY <1>5 DEF Free
  <2>1. t.asset = c /\ u.asset = c
    BY DEF Claims
  <2>2. t.kind = u.kind
    BY <1>4, <2>1 DEF Claims
  <2> QED  BY <1>4, <2>1, <2>2
<1>7. Disjoint'
  BY <1>1, <1>2, <1>3, <1>5, <1>6, AddClaims DEF ClaimInv
<1>8. AllDue'
  <2>1. ASSUME NEW t \in U PROVE Due(t, assets, retry)
    <3>1. CASE t.kind # "clip"  BY <1>4, <2>1, <3>1
    <3>2. CASE t.kind = "clip"
      <4>1. assets[t.asset] \in AssetRow /\ "thumbnail" \in Steps
        BY <1>1, <1>4 DEF TypeOK, Steps
      <4>2. assets[t.asset]["thumbnail"] \in Status
        BY <4>1 DEF AssetRow
      <4>3. assets[t.asset]["thumbnail"] \in {"ok", "failed"}
        BY <1>4, <3>2, <4>2 DEF Status, MayRun, ClaimInv, Pictured
      <4> QED  BY <1>4, <3>2, <4>3 DEF Due
    <3> QED  BY <3>1, <3>2
  <2>2. Due(job[w].task, assets, retry)
    BY <1>1 DEF Due, Steps
  <2>3. ASSUME NEW v \in Workers
        PROVE  /\ \A u \in job'[v].outbox : Due(u, assets, retry)
               /\ job'[v].task # None /\ job'[v].step # "push" => Due(job'[v].task, assets, retry)
    <3>1. CASE v = w
      <4>1. job'[v] = j  BY <1>1, <1>2, <3>1 DEF TypeOK
      <4> QED  BY <1>3, <2>1, <2>2, <4>1
    <3>2. CASE v # w
      <4>1. job'[v] = job[v]  BY <1>1, <1>2, <3>2 DEF TypeOK
      <4> QED  BY <4>1 DEF ClaimInv, AllDue
    <3> QED  BY <3>1, <3>2
  <2> QED  BY <1>2, <2>3 DEF ClaimInv, AllDue
<1>9. \A v \in Workers : OutcomeOK(job'[v])
  <2>1. OutcomeOK(j)
    BY <1>1, <1>3 DEF OutcomeOK
  <2> QED  BY <1>1, <1>2, <2>1 DEF ClaimInv, TypeOK
<1> QED  BY <1>2, <1>7, <1>8, <1>9 DEF ClaimInv, Pictured

\* The steps that claim nothing more, one case for each action.
LEMMA GoesOnClaims ==
  ASSUME TypeInv, ClaimInv, NEW w \in Workers,
         \/ EndPush(w) \/ TakeSnapshot(w) \/ Flush(w) \/ MarkOffline(w) \/ ReadChecksum(w)
         \/ LookupAsset(w) \/ LinkAsset(w) \/ FindFile(w) \/ WaitLoad(w) \/ ReadSource(w)
         \/ MakeThumbnail(w) \/ EndThumbnail(w) \/ GiveUp(w)
  PROVE  ClaimInv'
<1>0. Runs(w) /\ TypeOK /\ OutcomeOK(job[w])
  BY Running, IdleJob DEF TypeInv, ClaimInv, EndPush, TakeSnapshot, Flush, MarkOffline, ReadChecksum,
     LookupAsset, LinkAsset, FindFile, WaitLoad, ReadSource, MakeThumbnail, EndThumbnail, GiveUp,
     StatementSteps, At
<1>1. queue' = queue /\ assets' = assets /\ retry' = retry
  BY DEF EndPush, TakeSnapshot, Flush, MarkOffline, ReadChecksum, LookupAsset, LinkAsset, FindFile,
     WaitLoad, ReadSource, MakeThumbnail, EndThumbnail, GiveUp, db, process
<1>2. GoesOn(w, Idle) /\ GoesOn(w, job[w]) /\ job = [job EXCEPT ![w] = job[w]]
  BY <1>0, IdleJob DEF GoesOn, OutcomeOK, TypeOK
<1>3. CASE Finish(w)
  BY <1>0, <1>1, <1>2, <1>3, LocalClaims DEF Finish
<1>4. CASE job' = job
  BY <1>0, <1>1, <1>2, <1>4, LocalClaims
<1>6. ASSUME NEW s \in JobSteps, Goto(w, s), s # "store", job[w].step # "push",
             ~(job[w].task.kind = "clip" /\ job[w].step = "store")
      PROVE  ClaimInv'
  <2> DEFINE j == [job[w] EXCEPT !.step = s]
  <2>1. job' = [job EXCEPT ![w] = j]  BY <1>6 DEF Goto
  <2>2. /\ j.task = job[w].task /\ j.step = s /\ j.outbox = job[w].outbox /\ j.result = job[w].result
    BY <1>0 DEF Runs, JobType
  <2> HIDE DEF j
  <2>3. GoesOn(w, j)
    BY <1>0, <1>6, <2>2 DEF GoesOn, OutcomeOK
  <2> QED  BY <1>0, <1>1, <2>1, <2>3, LocalClaims
<1>7. ASSUME NEW r \in Status, job' = [job EXCEPT ![w].step = "store", ![w].result = r],
             job[w].step # "push", job[w].task.kind = "thumbnail" => r \in {"ok", "failed"},
             job[w].step # "store"
      PROVE  ClaimInv'
  <2> DEFINE j == [job[w] EXCEPT !.step = "store", !.result = r]
  <2>1. job' = [job EXCEPT ![w] = j]  BY <1>7
  <2>2. /\ j.task = job[w].task /\ j.step = "store" /\ j.outbox = job[w].outbox /\ j.result = r
    BY <1>0 DEF Runs, JobType
  <2> HIDE DEF j
  <2>3. GoesOn(w, j)
    BY <1>0, <1>7, <2>2 DEF GoesOn, OutcomeOK
  <2> QED  BY <1>0, <1>1, <2>1, <2>3, LocalClaims
<1>8. CASE EndPush(w)
  <2>1. Finish(w) \/ (job[w].step = "flush" /\ Goto(w, "visit"))
    BY <1>8 DEF EndPush
  <2> QED  BY <1>3, <1>6, <2>1 DEF JobSteps, WalkSteps
<1>9. CASE TakeSnapshot(w)
  BY <1>6, <1>9 DEF TakeSnapshot, At, JobSteps, WalkSteps
<1>10. CASE Flush(w)
  <2> DEFINE U == {ChecksumTask(b.path) : b \in {x \in walk.batch : x.row.asset = None}}
             j == [job[w] EXCEPT !.step = "flush", !.outbox = U]
  <2>1. job' = [job EXCEPT ![w] = j] /\ job[w].step = "visit" /\ job[w].task.kind = "index"
    BY <1>10 DEF Flush, At
  <2>2. j.task = job[w].task /\ j.step = "flush" /\ j.outbox = U
    BY <1>0 DEF Runs, JobType
  <2>3. \A t \in U : t.kind \notin Steps
    BY DEF ChecksumTask, Steps
  <2> HIDE DEF j, U
  <2>4. GoesOn(w, j)
    BY <2>1, <2>2, <2>3 DEF GoesOn, OutcomeOK
  <2> QED  BY <1>0, <1>1, <2>1, <2>4, LocalClaims
<1>11. CASE MarkOffline(w)
  BY <1>4, <1>11 DEF MarkOffline
<1>12. CASE ReadChecksum(w)
  <2>1. CASE fs[job[w].path] = None
    BY <1>3, <1>12, <2>1 DEF ReadChecksum
  <2>2. CASE fs[job[w].path] # None
    <3> DEFINE j == [job[w] EXCEPT !.step = "lookup", !.got = fs[job[w].path].content]
    <3>1. job' = [job EXCEPT ![w] = j] /\ job[w].step = "read" /\ job[w].task.kind = "checksum"
      BY <1>12, <2>2 DEF ReadChecksum, At
    <3>2. j.task = job[w].task /\ j.step = "lookup" /\ j.outbox = job[w].outbox
      BY <1>0 DEF Runs, JobType
    <3> HIDE DEF j
    <3>3. GoesOn(w, j)
      BY <3>1, <3>2 DEF GoesOn, OutcomeOK
    <3> QED  BY <1>0, <1>1, <3>1, <3>3, LocalClaims
  <2> QED  BY <2>1, <2>2
<1>13. CASE LookupAsset(w)
  BY <1>6, <1>13 DEF LookupAsset, At, JobSteps
<1>14. CASE LinkAsset(w)
  BY <1>6, <1>14 DEF LinkAsset, At, JobSteps
<1>15. CASE FindFile(w)
  <2>1. CASE Finish(w)  BY <1>3, <2>1
  <2>2. CASE ~Finish(w)
    <3> DEFINE s == CASE job[w].task.kind = "metadata" -> "read"
                      [] job[w].task.kind = "thumbnail" -> "make"
                      [] job[w].task.kind = "ocr" -> "load"
    <3>1. PICK p \in Paths : job' = [job EXCEPT ![w].path = p, ![w].step = s]
      BY <1>15, <2>2 DEF FindFile, LiveFiles
    <3> DEFINE j == [job[w] EXCEPT !.path = p, !.step = s]
    <3>2. job' = [job EXCEPT ![w] = j] /\ job[w].step = "live"
          /\ job[w].task.kind \in {"metadata", "thumbnail", "ocr"}
      BY <1>15, <3>1 DEF FindFile, At
    <3>3. j.task = job[w].task /\ j.step = s /\ j.outbox = job[w].outbox /\ s # "store"
      BY <1>0, <3>2 DEF Runs, JobType
    <3> HIDE DEF j, s
    <3>4. GoesOn(w, j)
      BY <3>2, <3>3 DEF GoesOn, OutcomeOK
    <3> QED  BY <1>0, <1>1, <3>2, <3>4, LocalClaims
  <2> QED  BY <2>1, <2>2
<1>16. CASE WaitLoad(w)
  <2>1. Finish(w) \/ (job[w].step = "load" /\ Goto(w, "read"))
    BY <1>16 DEF WaitLoad, At
  <2> QED  BY <1>3, <1>6, <2>1 DEF JobSteps
<1>17. CASE ReadSource(w)
  <2>1. PICK r \in Status : job' = [job EXCEPT ![w].step = "store", ![w].result = r]
    BY <1>17 DEF ReadSource, Outcomes, Status
  <2>2. job[w].step = "read" /\ job[w].task.kind # "thumbnail"
    BY <1>17 DEF ReadSource, At
  <2> QED  BY <1>7, <2>1, <2>2
<1>18. CASE MakeThumbnail(w)
  <2>1. job[w].step = "make"
    BY <1>18 DEF MakeThumbnail, At
  <2>2. \/ job' = [job EXCEPT ![w].step = "store", ![w].result = "failed"]
        \/ Goto(w, "made")
    BY <1>18 DEF MakeThumbnail
  <2> QED  BY <1>6, <1>7, <2>1, <2>2 DEF JobSteps, Status
<1>19. CASE EndThumbnail(w)
  <2>1. PICK r \in {"ok", "failed"} : job' = [job EXCEPT ![w].step = "store", ![w].result = r]
    BY <1>19 DEF EndThumbnail, Outcomes
  <2>2. job[w].step = "made"
    BY <1>19 DEF EndThumbnail, At
  <2> QED  BY <1>7, <2>1, <2>2 DEF Status
<1>20. CASE GiveUp(w)
  BY <1>3, <1>20 DEF GiveUp
<1> QED  BY <1>8, <1>9, <1>10, <1>11, <1>12, <1>13, <1>14, <1>15, <1>16, <1>17, <1>18, <1>19, <1>20

LEMMA VisitClaims ==
  ASSUME TypeInv, ClaimInv, NEW w \in Workers, NEW p \in Paths, Visit(w, p) PROVE ClaimInv'
<1>1. job' = job /\ assets' = assets /\ retry' = retry
  BY DEF Visit, db, process
<1>2. CASE queue' = queue
  BY <1>1, <1>2, FrameClaims
<1>3. CASE queue' = Insert(queue, ChecksumTask(p))
  <2>1. ChecksumTask(p) \in Task /\ ChecksumTask(p).kind \notin Steps
    BY DEF ChecksumTask, Task, Kinds, Steps, Status
  <2> QED  BY <1>1, <1>3, <2>1, PushClaims
<1> QED  BY <1>2, <1>3 DEF Visit, VisitGone, VisitUnread, VisitKnown, VisitNew

LEMMA PushOneClaims == ASSUME TypeInv, ClaimInv, NEW w \in Workers, PushOne(w) PROVE ClaimInv'
<1>1. PICK t \in job[w].outbox :
        queue' = Insert(queue, t) /\ job' = [job EXCEPT ![w].outbox = @ \ {t}]
  BY DEF PushOne
<1>2. t \in Task
  BY <1>1 DEF TypeInv, TypeOK, JobType
<1>3. assets' = assets /\ retry' = retry
  BY DEF PushOne, db, process
<1>4. job' = [job EXCEPT ![w] = [job[w] EXCEPT !.outbox = job[w].outbox \ {t}]]
  BY <1>1
<1> QED  BY <1>1, <1>2, <1>3, <1>4, PushClaims

LEMMA NextClaims == ASSUME TypeInv, ClaimInv, [Next]_vars PROVE ClaimInv'
<1>1. CASE Edit \/ Cancel \/ Stop \/ UNCHANGED vars
  BY <1>1, FrameClaims
     DEF Edit, WriteFile, MoveFile, RemoveFile, Edited, Cancel, Stop, vars, db, process
<1>2. CASE \E r \in Retries, l \in BOOLEAN : Start(r, l)
  <2>1. PICK r \in Retries, l \in BOOLEAN : Start(r, l)
    BY <1>2
  <2>2. \A w \in Workers : job'[w] = Idle
    BY <2>1 DEF Start, TypeInv, Down, Quiet
  <2>3. queue' = <<IndexTask>> /\ assets' = assets
    BY <2>1 DEF Start, db
  <2>4. \A i \in DOMAIN queue' : queue'[i].kind \notin Steps
    BY <2>3 DEF IndexTask, Steps
  <2> QED  BY <2>2, <2>3, <2>4, ClearClaims DEF ClaimInv, Pictured
<1>3. CASE Crash
  <2>1. (\A w \in Workers : job'[w] = Idle) /\ queue' = <<>> /\ assets' = assets
    BY <1>3 DEF Crash, db
  <2> QED  BY <2>1, ClearClaims DEF ClaimInv, Pictured
<1>4. ASSUME NEW w \in Workers, Work(w) \/ GiveUp(w) PROVE ClaimInv'
  BY <1>4, PopClaims, PushOneClaims, GoesOnClaims, VisitClaims, RecoverClaims, InsertAssetClaims,
     StoreResultClaims DEF Work
<1> QED  BY <1>1, <1>2, <1>3, <1>4 DEF Next

LEMMA InitClaims == Init => ClaimInv
<1>1. Init => DOMAIN queue = {} /\ \A w \in Workers : job[w] = Idle
  BY DEF Init
<1> QED  BY <1>1, IdleJob
         DEF Init, ClaimInv, Disjoint, OneClaim, Works, WorksOn, AllDue, OutcomeOK, Pictured

LEMMA ClaimInvariant == Spec => []ClaimInv
BY InitClaims, NextClaims, TypeInvariant, PTL DEF Spec

LEMMA OneHolder == ASSUME TypeInv, ClaimInv PROVE OneTaskPerStep
<1> SUFFICES ASSUME NEW k \in Steps, NEW c \in Contents PROVE Cardinality(Holders(k, c)) <= 1
  BY DEF OneTaskPerStep
<1>1. OneClaim(k, c)
  BY DEF ClaimInv, Disjoint
<1>2. ASSUME NEW w \in Workers,
             \/ job[w].task # None /\ job[w].task.kind = k /\ job[w].task.asset = c
             \/ \E t \in job[w].outbox : t.kind = k /\ t.asset = c
      PROVE  Works(w, k, c) \/ \E t \in job[w].outbox : Claims(t, k, c)
  BY <1>2 DEF Works, WorksOn, Claims
<1>3. \A i \in DOMAIN queue : queue[i].kind = k /\ queue[i].asset = c => Claims(queue[i], k, c)
  BY DEF Claims
<1>4. \A x, y \in Holders(k, c) : x = y
  <2> DEFINE Queued == {<<"queue", i>> : i \in {n \in DOMAIN queue : queue[n].kind = k /\ queue[n].asset = c}}
             Held == {<<"worker", w>> : w \in {v \in Workers :
                        \/ job[v].task # None /\ job[v].task.kind = k /\ job[v].task.asset = c
                        \/ \E t \in job[v].outbox : t.kind = k /\ t.asset = c}}
  <2>1. \A x, y \in Queued : x = y
    BY <1>1, <1>3 DEF OneClaim
  <2>2. \A x, y \in Held : x = y
    BY <1>1, <1>2 DEF OneClaim
  <2>3. ASSUME NEW x \in Queued, NEW y \in Held PROVE FALSE
    BY <1>1, <1>2, <1>3 DEF OneClaim
  <2>4. Holders(k, c) = Queued \cup Held
    BY DEF Holders
  <2> HIDE DEF Queued, Held
  <2> QED  BY <2>1, <2>2, <2>3, <2>4
<1>5. CASE Holders(k, c) = {}
  BY <1>5, FS_EmptySet
<1>6. CASE Holders(k, c) # {}
  <2>1. PICK x : x \in Holders(k, c)
    BY <1>6
  <2>2. Holders(k, c) = {x}
    BY <1>4, <2>1
  <2>3. Cardinality({x}) = 1
    BY FS_Singleton
  <2> QED  BY <2>2, <2>3
<1> QED  BY <1>5, <1>6

\* No step of an asset is queued or run twice at a time, also when workers
\* checksum copies of a file at once, and when a run finds what the one
\* before it left.
THEOREM OneTaskCorrect == Spec => []OneTaskPerStep
<1>1. TypeInv /\ ClaimInv => OneTaskPerStep  BY OneHolder
<1> QED  BY <1>1, TypeInvariant, ClaimInvariant, PTL

\* The status table changes in two actions only.
LEMMA AssetChanges ==
  ASSUME TypeInv, [Next]_vars, assets' # assets
  PROVE  \E w \in Workers : InsertAsset(w) \/ StoreResult(w)
<1> SUFFICES ASSUME ~ \E w \in Workers : InsertAsset(w) \/ StoreResult(w) PROVE assets' = assets
  OBVIOUS
<1>1. CASE Edit \/ (\E r \in Retries, l \in BOOLEAN : Start(r, l)) \/ Cancel \/ Stop \/ Crash \/ UNCHANGED vars
  BY <1>1 DEF Edit, WriteFile, MoveFile, RemoveFile, Edited, Start, Cancel, Stop, Crash, vars, db
<1>2. ASSUME NEW w \in Workers, Work(w) \/ GiveUp(w) PROVE assets' = assets
  BY <1>2 DEF Work, Pop, PushOne, EndPush, TakeSnapshot, Visit, Flush, MarkOffline, Recover,
     ReadChecksum, LookupAsset, LinkAsset, FindFile, WaitLoad, ReadSource, MakeThumbnail,
     EndThumbnail, GiveUp, db
<1> QED  BY <1>1, <1>2 DEF Next

LEMMA InsertEffects ==
  ASSUME TypeInv, NEW w \in Workers, InsertAsset(w)
  PROVE  /\ embeddings' = embeddings /\ boxes' = boxes /\ thumbs' = thumbs
         /\ \A c \in Contents : assets'[c] = assets[c] \/ (assets[c] = None /\ assets'[c] = NewAsset)
<1>1. Runs(w) /\ TypeOK  BY Running, IdleJob DEF TypeInv, InsertAsset, At
<1>2. job[w].got \in Contents
  BY <1>1 DEF InsertAsset, At, Runs
<1> QED  BY <1>1, <1>2 DEF InsertAsset, TypeOK

\* What the store step finds: the status it replaces may run.
LEMMA StoredWasDue ==
  ASSUME TypeInv, ClaimInv, NEW w \in Workers, StoreResult(w)
  PROVE  LET a == job[w].task.asset  k == job[w].task.kind
         IN  /\ Stores(w, a, k) /\ MayRun(assets[a][k], retry)
             /\ k = "clip" => job[w].task.seen = assets[a]["thumbnail"] /\ job[w].task.seen \in {"ok", "failed"}
             /\ Due(job[w].task, assets, retry) /\ OutcomeOK(job[w]) /\ job[w].task # None
<1>1. /\ Stores(w, job[w].task.asset, job[w].task.kind) /\ Runs(w)
  BY StoreEffect
<1>2. Due(job[w].task, assets, retry) /\ job[w].task # None
  BY <1>1 DEF ClaimInv, AllDue, Stores, Runs
<1> QED  BY <1>1, <1>2 DEF Stores, Due, ClaimInv

FinishedStep ==
  \A c \in Contents, s \in Steps :
     assets[c] # None /\ assets'[c] # assets[c] =>
       /\ assets[c][s] \in {"ok", "skipped"} => assets'[c][s] = assets[c][s]
       /\ assets[c][s] = "failed" /\ ~retry => assets'[c][s] = "failed"

LEMMA FinishedNext == ASSUME TypeInv, ClaimInv, [Next]_vars PROVE FinishedStep
<1> SUFFICES ASSUME NEW c \in Contents, NEW s \in Steps, assets[c] # None, assets'[c] # assets[c]
             PROVE  /\ assets[c][s] \in {"ok", "skipped"} => assets'[c][s] = assets[c][s]
                    /\ assets[c][s] = "failed" /\ ~retry => assets'[c][s] = "failed"
  BY DEF FinishedStep
<1>1. PICK w \in Workers : InsertAsset(w) \/ StoreResult(w)
  BY AssetChanges
<1>2. StoreResult(w)
  BY <1>1, InsertEffects
<1> DEFINE a == job[w].task.asset  k == job[w].task.kind
<1>3. Stores(w, a, k) /\ MayRun(assets[a][k], retry)
  BY <1>2, StoredWasDue
<1> HIDE DEF a, k
<1>4. c = a
  BY <1>3 DEF Stores
<1>5. CASE s # k
  BY <1>3, <1>4, <1>5 DEF Stores
<1>6. CASE s = k
  BY <1>3, <1>4, <1>6 DEF MayRun
<1> QED  BY <1>5, <1>6

\* StoreResult overwrites no ok or skipped status, and a failed one only with
\* --retry-failed: a task that waits is still due when it stores.
THEOREM FinishedIsFinal == Spec => FinishedStays
<1>1. TypeInv /\ ClaimInv /\ [Next]_vars =>
        [\A c \in Contents, s \in Steps :
           assets[c] # None /\ assets'[c] # assets[c] =>
             /\ assets[c][s] \in {"ok", "skipped"} => assets'[c][s] = assets[c][s]
             /\ assets[c][s] = "failed" /\ ~retry => assets'[c][s] = "failed"]_vars
  BY FinishedNext DEF FinishedStep
<1> QED  BY <1>1, TypeInvariant, ClaimInvariant, PTL DEF Spec, FinishedStays

-----------------------------------------------------------------------------
\* The results that are stored

ThumbnailReady(w) ==
  job[w].task # None /\ job[w].task.kind = "thumbnail" /\ job[w].step = "store" /\ job[w].result = "ok" =>
    thumbs[job[w].task.asset] = "whole"

ResultInv ==
  /\ ResultsMatchStatus /\ ThumbnailBehindStatus
  /\ \A w \in Workers : ThumbnailReady(w)

LEMMA StoreResultResults ==
  ASSUME TypeInv, ClaimInv, ResultInv, NEW w \in Workers, StoreResult(w) PROVE ResultInv'
<1> DEFINE t == job[w].task  a == t.asset  k == t.kind  r == job[w].result
<1>1. /\ Stores(w, a, k) /\ MayRun(assets[a][k], retry) /\ OutcomeOK(job[w]) /\ t # None
      /\ k = "clip" => t.seen = assets[a]["thumbnail"] /\ t.seen \in {"ok", "failed"}
  BY StoredWasDue
<1>2. /\ embeddings' = IF k = "clip" /\ r = "ok" THEN embeddings \cup {a} ELSE embeddings
      /\ boxes' = IF k = "ocr" /\ r = "ok" THEN boxes \cup {a} ELSE boxes
      /\ thumbs' = thumbs
  BY DEF StoreResult
<1>3. /\ a \in Contents /\ k \in Steps /\ assets[a] # None /\ assets'[a] # None
      /\ job[w].step = "store" /\ assets'[a][k] = r
      /\ \A s \in Steps \ {k} : assets'[a][s] = assets[a][s]
      /\ \A d \in Contents \ {a} : assets'[d] = assets[d]
      /\ {"clip", "ocr", "thumbnail"} \subseteq Steps
  BY <1>1, PipelineAssumption DEF Stores, Steps
<1>4. /\ k = "clip" /\ r = "ok" => assets[a]["thumbnail"] = "ok"
      /\ k = "thumbnail" /\ r = "ok" => thumbs[a] = "whole"
  <2>1. k = "thumbnail" /\ r = "ok" => thumbs[a] = "whole"
    BY <1>1, <1>3 DEF ResultInv, ThumbnailReady
  <2> QED  BY <1>1, <1>3, <2>1 DEF OutcomeOK
<1>5. assets[a][k] # "ok"
  BY <1>1 DEF MayRun
<1>6. job' \in [Workers -> JobType] /\ \A v \in Workers : job'[v] = job[v] \/ job'[v].step # "store"
  <2>1. TypeOK /\ TypeOK' /\ Runs(w)
    BY StoreEffect, StoreResultType DEF TypeInv
  <2>2. job'[w].step # "store" /\ \A v \in Workers \ {w} : job'[v] = job[v]
    BY <2>1, IdleJob DEF StoreResult, Finish, TypeOK, JobType, Runs
  <2> QED  BY <2>1, <2>2 DEF TypeOK
<1> HIDE DEF t, a, k, r
<1>7. ResultsMatchStatus'
  <2> SUFFICES ASSUME NEW c \in Contents
               PROVE  /\ c \in embeddings' <=> assets'[c] # None /\ assets'[c]["clip"] = "ok"
                      /\ c \in boxes' <=> assets'[c] # None /\ assets'[c]["ocr"] = "ok"
    BY DEF ResultsMatchStatus
  <2>1. /\ c \in embeddings <=> assets[c] # None /\ assets[c]["clip"] = "ok"
        /\ c \in boxes <=> assets[c] # None /\ assets[c]["ocr"] = "ok"
    BY DEF ResultInv, ResultsMatchStatus
  <2>2. CASE c # a
    BY <1>2, <1>3, <2>1, <2>2
  <2>3. CASE c = a
    <3>1. c \in embeddings' <=> assets'[c]["clip"] = "ok"
      BY <1>2, <1>3, <1>5, <2>1, <2>3
    <3>2. c \in boxes' <=> assets'[c]["ocr"] = "ok"
      BY <1>2, <1>3, <1>5, <2>1, <2>3
    <3> QED  BY <1>3, <2>3, <3>1, <3>2
  <2> QED  BY <2>2, <2>3
<1>8. ThumbnailBehindStatus'
  <2> SUFFICES ASSUME NEW c \in Contents, assets'[c] # None
               PROVE  /\ assets'[c]["thumbnail"] = "ok" => thumbs'[c] = "whole"
                      /\ assets'[c]["clip"] = "ok" => assets'[c]["thumbnail"] = "ok"
    BY DEF ThumbnailBehindStatus
  <2>1. assets[c] # None => /\ assets[c]["thumbnail"] = "ok" => thumbs[c] = "whole"
                            /\ assets[c]["clip"] = "ok" => assets[c]["thumbnail"] = "ok"
    BY DEF ResultInv, ThumbnailBehindStatus
  <2>2. CASE c # a
    BY <1>2, <1>3, <2>1, <2>2
  <2>3. CASE c = a
    BY <1>2, <1>3, <1>4, <1>5, <2>1, <2>3
  <2> QED  BY <2>2, <2>3
<1>9. \A v \in Workers : ThumbnailReady(v)'
  BY <1>2, <1>6 DEF ResultInv, ThumbnailReady
<1> QED  BY <1>7, <1>8, <1>9 DEF ResultInv

\* While ffmpeg writes a thumbnail no status and no worker relies on it.
LEMMA ThumbnailResults ==
  ASSUME TypeInv, ClaimInv, ResultInv, NEW w \in Workers, MakeThumbnail(w) \/ EndThumbnail(w)
  PROVE  ResultInv'
<1> DEFINE a == job[w].task.asset
<1>1. /\ Runs(w) /\ TypeOK /\ job[w].task.kind = "thumbnail" /\ job[w].step \in {"make", "made"}
      /\ a \in Contents /\ job[w].task # None
  BY Running, IdleJob DEF TypeInv, MakeThumbnail, EndThumbnail, At, Runs, Steps
<1>2. Due(job[w].task, assets, retry) /\ Works(w, "thumbnail", a)
  BY <1>1 DEF ClaimInv, AllDue, Works, WorksOn, Claims
<1>3. assets[a] # None /\ assets[a]["thumbnail"] # "ok"
  BY <1>1, <1>2 DEF Due, MayRun, Steps
<1>4. /\ assets' = assets /\ embeddings' = embeddings /\ boxes' = boxes
      /\ \A d \in Contents \ {a} : thumbs'[d] = thumbs[d]
  BY <1>1 DEF MakeThumbnail, EndThumbnail, db, TypeOK, Asset
<1>5. /\ \A v \in Workers \ {w} : job'[v] = job[v]
      /\ job'[w].task = job[w].task
      /\ job'[w].step = "store" /\ job'[w].result = "ok" => thumbs'[a] = "whole"
  <2>1. CASE MakeThumbnail(w)
    BY <1>1, <2>1 DEF MakeThumbnail, At, TypeOK, Goto, Runs, JobType
  <2>2. CASE EndThumbnail(w)
    <3>1. PICK r \in Outcomes(TRUE) :
            /\ job' = [job EXCEPT ![w].step = "store", ![w].result = r]
            /\ thumbs' = [thumbs EXCEPT ![a] = IF r = "ok" THEN "whole" ELSE @]
      BY <2>2 DEF EndThumbnail, Asset
    <3> QED  BY <1>1, <3>1 DEF TypeOK, Runs, JobType
  <2> QED  BY <2>1, <2>2
<1> HIDE DEF a
<1>6. ResultsMatchStatus'
  BY <1>4 DEF ResultInv, ResultsMatchStatus
<1>7. ThumbnailBehindStatus'
  BY <1>3, <1>4 DEF ResultInv, ThumbnailBehindStatus
<1>8. ASSUME NEW v \in Workers PROVE ThumbnailReady(v)'
  <2>1. CASE v = w
    BY <1>5, <2>1 DEF ThumbnailReady, a
  <2>2. CASE v # w
    <3> SUFFICES ASSUME job[v].task # None, job[v].task.kind = "thumbnail", job[v].step = "store",
                        job[v].result = "ok"
                 PROVE  thumbs'[job[v].task.asset] = "whole"
      BY <1>5, <2>2 DEF ThumbnailReady
    <3>1. Runs(v)  BY IdleJob, Running
    <3>2. job[v].task.asset \in Contents /\ Works(v, "thumbnail", job[v].task.asset)
      BY <3>1 DEF Runs, Steps, Works, WorksOn, Claims
    <3>3. job[v].task.asset # a
      BY <1>1, <1>2, <2>2, <3>2 DEF ClaimInv, Disjoint, OneClaim, Steps
    <3> QED  BY <1>4, <3>2, <3>3 DEF ResultInv, ThumbnailReady
  <2> QED  BY <2>1, <2>2
<1> QED  BY <1>6, <1>7, <1>8 DEF ResultInv

\* A step that makes no thumbnail ready and stores nothing.
NotReady(j) ==
  j.task = None \/ j.task.kind # "thumbnail" \/ j.step # "store" \/ j.result # "ok"

LEMMA FrameResults ==
  ASSUME ResultInv, embeddings' = embeddings, boxes' = boxes, thumbs' = thumbs,
         \A c \in Contents : assets'[c] = assets[c] \/ (assets[c] = None /\ assets'[c] = NewAsset),
         \A v \in Workers : job'[v] = job[v] \/ NotReady(job'[v])
  PROVE  ResultInv'
<1>1. NewAsset["clip"] = "pending" /\ NewAsset["ocr"] = "pending" /\ NewAsset["thumbnail"] = "pending"
  BY DEF NewAsset, Steps
<1>2. ResultsMatchStatus' /\ ThumbnailBehindStatus'
  BY <1>1 DEF ResultInv, ResultsMatchStatus, ThumbnailBehindStatus
<1>3. ASSUME NEW v \in Workers PROVE ThumbnailReady(v)'
  BY DEF ResultInv, ThumbnailReady, NotReady
<1> QED  BY <1>2, <1>3 DEF ResultInv

LEMMA WorkResults ==
  ASSUME TypeInv, ResultInv, NEW w \in Workers,
         \/ Pop(w) \/ PushOne(w) \/ EndPush(w) \/ TakeSnapshot(w) \/ (\E p \in Paths : Visit(w, p))
         \/ Flush(w) \/ MarkOffline(w) \/ Recover(w) \/ ReadChecksum(w) \/ LookupAsset(w)
         \/ InsertAsset(w) \/ LinkAsset(w) \/ FindFile(w) \/ WaitLoad(w) \/ ReadSource(w) \/ GiveUp(w)
  PROVE  ResultInv'
<1>0. TypeOK /\ (job[w] # Idle => Runs(w)) /\ job[w] \in JobType
  BY Running DEF TypeInv, TypeOK
<1>1. /\ embeddings' = embeddings /\ boxes' = boxes /\ thumbs' = thumbs
      /\ \A c \in Contents : assets'[c] = assets[c] \/ (assets[c] = None /\ assets'[c] = NewAsset)
  BY InsertEffects DEF Pop, PushOne, EndPush, TakeSnapshot, Visit, Flush, MarkOffline, Recover,
     ReadChecksum, LookupAsset, LinkAsset, FindFile, WaitLoad, ReadSource, GiveUp, db
<1>2. NotReady(Idle)
  BY IdleJob DEF NotReady
<1>3. CASE Finish(w) \/ job' = job
  BY <1>0, <1>1, <1>2, <1>3, FrameResults DEF Finish, TypeOK
<1>4. ASSUME NEW j, job' = [job EXCEPT ![w] = j], NotReady(j) PROVE ResultInv'
  BY <1>0, <1>1, <1>4, FrameResults DEF TypeOK
<1>5. ASSUME NEW s, Goto(w, s), s # "store" PROVE ResultInv'
  <2>1. [job[w] EXCEPT !.step = s].step = s
    BY <1>0 DEF JobType
  <2> QED  BY <1>4, <1>5, <2>1 DEF Goto, NotReady
<1>6. CASE Pop(w)
  <2>1. CASE job' = job  BY <1>3, <2>1
  <2>2. CASE job' # job
    <3> DEFINE t == Head(queue)
               j == [Idle EXCEPT !.task = t, !.step = FirstStep(t), !.path = t.path, !.result = FirstResult(t)]
    <3>1. job' = [job EXCEPT ![w] = j]
      BY <1>6, <2>2 DEF Pop, Set
    <3>2. j.result = FirstResult(t) /\ FirstResult(t) # "ok"
      BY DEF Idle, FirstResult
    <3> HIDE DEF j
    <3> QED  BY <1>4, <3>1, <3>2 DEF NotReady
  <2> QED  BY <2>1, <2>2
<1>7. CASE PushOne(w)
  <2>1. PICK t \in job[w].outbox : job' = [job EXCEPT ![w] = [job[w] EXCEPT !.outbox = @ \ {t}]]
    BY <1>7 DEF PushOne
  <2>2. job[w].step \in {"push", "flush", "repush"}
    BY <1>7 DEF PushOne
  <2>3. [job[w] EXCEPT !.outbox = @ \ {t}].step = job[w].step
    BY <1>0 DEF JobType
  <2> QED  BY <1>4, <2>1, <2>2, <2>3 DEF NotReady
<1>8. CASE EndPush(w)
  BY <1>3, <1>5, <1>8 DEF EndPush
<1>9. CASE TakeSnapshot(w) \/ LookupAsset(w) \/ LinkAsset(w)
  BY <1>5, <1>9 DEF TakeSnapshot, LookupAsset, LinkAsset
<1>10. CASE (\E p \in Paths : Visit(w, p)) \/ MarkOffline(w)
  BY <1>3, <1>10 DEF Visit, MarkOffline
<1>11. CASE Flush(w) \/ Recover(w)
  <2>1. ASSUME NEW s, NEW U, s # "store", job' = [job EXCEPT ![w].step = s, ![w].outbox = U]
        PROVE  ResultInv'
    <3>1. [job[w] EXCEPT !.step = s, !.outbox = U].step = s
      BY <1>0 DEF JobType
    <3> QED  BY <1>4, <2>1, <3>1 DEF NotReady
  <2>2. CASE Flush(w)
    BY <2>1, <2>2 DEF Flush
  <2>3. CASE Recover(w)
    BY <2>1, <2>3 DEF Recover
  <2> QED  BY <1>11, <2>2, <2>3
<1>12. CASE ReadChecksum(w)
  <2>1. CASE Finish(w)  BY <1>3, <2>1
  <2>2. CASE ~Finish(w)
    <3> DEFINE j == [job[w] EXCEPT !.step = "lookup", !.got = fs[job[w].path].content]
    <3>1. job' = [job EXCEPT ![w] = j]
      BY <1>12, <2>2 DEF ReadChecksum
    <3>2. j.step = "lookup"
      BY <1>0 DEF JobType
    <3> QED  BY <1>4, <3>1, <3>2 DEF NotReady
  <2> QED  BY <2>1, <2>2
<1>13. CASE InsertAsset(w)
  <2> DEFINE U == IF assets[job[w].got] = None THEN FirstTasks(job[w].path, job[w].got) ELSE {}
             j == [job[w] EXCEPT !.step = "link", !.outbox = U]
  <2>1. job' = [job EXCEPT ![w] = j]
    BY <1>13 DEF InsertAsset
  <2>2. j.step = "link"
    BY <1>0 DEF JobType
  <2> QED  BY <1>4, <2>1, <2>2 DEF NotReady
<1>14. CASE FindFile(w)
  <2>1. CASE Finish(w)  BY <1>3, <2>1
  <2>2. CASE ~Finish(w)
    <3> DEFINE s == CASE job[w].task.kind = "metadata" -> "read"
                      [] job[w].task.kind = "thumbnail" -> "make"
                      [] job[w].task.kind = "ocr" -> "load"
    <3>1. PICK p : job' = [job EXCEPT ![w].path = p, ![w].step = s]
      BY <1>14, <2>2 DEF FindFile
    <3> DEFINE j == [job[w] EXCEPT !.path = p, !.step = s]
    <3>2. job' = [job EXCEPT ![w] = j] /\ job[w].task.kind \in {"metadata", "thumbnail", "ocr"}
      BY <1>14, <3>1 DEF FindFile, At
    <3>3. j.step = s /\ s # "store"
      BY <1>0, <3>2 DEF JobType
    <3> QED  BY <1>4, <3>2, <3>3 DEF NotReady
  <2> QED  BY <2>1, <2>2
<1>15. CASE WaitLoad(w)
  BY <1>3, <1>5, <1>15 DEF WaitLoad
<1>16. CASE ReadSource(w)
  <2>1. PICK r : job' = [job EXCEPT ![w] = [job[w] EXCEPT !.step = "store", !.result = r]]
    BY <1>16 DEF ReadSource
  <2>2. job[w].task.kind # "thumbnail"
    BY <1>16 DEF ReadSource, At
  <2>3. [job[w] EXCEPT !.step = "store", !.result = r].task = job[w].task
    BY <1>0 DEF JobType
  <2> QED  BY <1>4, <2>1, <2>2, <2>3 DEF NotReady
<1>17. CASE GiveUp(w)
  BY <1>3, <1>17 DEF GiveUp
<1> QED  BY <1>6, <1>7, <1>8, <1>9, <1>10, <1>11, <1>12, <1>13, <1>14, <1>15, <1>16, <1>17

LEMMA NextResults == ASSUME TypeInv, ClaimInv, ResultInv, [Next]_vars PROVE ResultInv'
<1>1. CASE Edit \/ (\E r \in Retries, l \in BOOLEAN : Start(r, l)) \/ Cancel \/ Stop \/ UNCHANGED vars
  <2>1. db' = db /\ thumbs' = thumbs /\ job' = job
    BY <1>1 DEF Edit, WriteFile, MoveFile, RemoveFile, Edited, Start, Cancel, Stop, vars
  <2> QED  BY <2>1, FrameResults DEF db
<1>2. CASE Crash
  <2>1. db' = db /\ thumbs' = thumbs /\ \A v \in Workers : NotReady(job'[v])
    BY <1>2, IdleJob DEF Crash, NotReady
  <2> QED  BY <2>1, FrameResults DEF db
<1>3. ASSUME NEW w \in Workers, Work(w) \/ GiveUp(w) PROVE ResultInv'
  BY <1>3, WorkResults, ThumbnailResults, StoreResultResults DEF Work
<1> QED  BY <1>1, <1>2, <1>3 DEF Next

LEMMA InitResults == Init => ResultInv
BY IdleJob DEF Init, ResultInv, ResultsMatchStatus, ThumbnailBehindStatus, ThumbnailReady

LEMMA ResultInvariant == Spec => []ResultInv
BY InitResults, NextResults, TypeInvariant, ClaimInvariant, PTL DEF Spec

\* The embeddings and the text boxes are those of the ok statuses.
THEOREM ResultsCorrect == Spec => []ResultsMatchStatus
<1>1. ResultInv => ResultsMatchStatus  BY DEF ResultInv
<1> QED  BY <1>1, ResultInvariant, PTL

\* Behind every ok thumbnail status is a whole file, and behind every ok clip
\* status an ok thumbnail.
THEOREM ThumbnailCorrect == Spec => []ThumbnailBehindStatus
<1>1. ResultInv => ThumbnailBehindStatus  BY DEF ResultInv
<1> QED  BY <1>1, ResultInvariant, PTL

-----------------------------------------------------------------------------
\* The links of the files table to the assets, for a library D whose newest
\* version is n and a table F.

Faithful(row, D, n) ==
  row # None =>
    /\ row.stamp <= n
    /\ \A p \in Paths : D[p] # None /\ row.stamp = D[p].stamp => row.asset \in {None, D[p].content}
Linkable(t, F, D) ==
  t.kind = "checksum" => D[t.path] # None /\ F[t.path].stamp = D[t.path].stamp
JobLinks(j, F, D) ==
  j.task # None =>
    /\ Linkable(j.task, F, D) /\ \A t \in j.outbox : Linkable(t, F, D)
    /\ j.task.kind = "checksum" /\ j.step # "read" => j.got = D[j.path].content

\* A walk under way: what it has not visited is as it was, what it has
\* visited and not seen is gone or could not be read, and what it will write
\* is on disk.
WalkLinks(W, F, D, n) ==
  /\ \A p \in Paths : Faithful(W.snapshot[p], D, n)
  /\ \A p \in W.todo : F[p] = W.snapshot[p]
  /\ \A p \in Paths \ (W.todo \cup W.seen) : D[p] = None \/ p \in W.unread
  /\ \A b \in W.batch : /\ b.path \notin W.todo /\ D[b.path] # None
                        /\ b.row.stamp = D[b.path].stamp /\ b.row.asset \in {None, D[b.path].content}
                        /\ ~b.row.offline

Stamps ==
  /\ \A p \in Paths : fs[p] # None => fs[p].stamp <= stamp
  /\ \A p, q \in Paths : fs[p] # None /\ fs[q] # None /\ fs[p].stamp = fs[q].stamp => p = q

LinksOK ==
  /\ \A p \in Paths : Faithful(files[p], fs, stamp)
  /\ \A i \in DOMAIN queue : Linkable(queue[i], files, fs)
  /\ \A w \in Workers : JobLinks(job[w], files, fs)
  /\ \A w \in Workers : job[w].step \in {"visit", "flush"} => WalkLinks(walk, files, fs, stamp)
LinkInv == Stamps /\ (~disturbed => LinksOK)

LEMMA LinksAreFaithful == LinkInv => LinksFaithful
<1> SUFFICES ASSUME LinkInv, ~disturbed, NEW p \in Paths, fs[p] # None, files[p] # None,
                    files[p].stamp = fs[p].stamp
             PROVE  files[p].asset \in {None, fs[p].content}
  BY DEF LinksFaithful, MovedFileKeepsContent
<1> QED  BY DEF LinkInv, LinksOK, Faithful

LEMMA InitLinks == Init => LinkInv
<1> SUFFICES ASSUME Init PROVE LinkInv
  OBVIOUS
<1> USE DEF Init
<1>1. Stamps
  BY PipelineAssumption DEF Stamps
<1>2. LinksOK
  BY IdleJob DEF LinksOK, Faithful, JobLinks
<1> QED  BY <1>1, <1>2 DEF LinkInv

\* Edits while the program is down: a version that is written is newer than
\* every row, one that is moved is the same at its new path.
LEMMA EditLinks == ASSUME TypeInv, LinkInv, Edit PROVE LinkInv'
<1>0. TypeOK /\ Edited /\ stamp' = stamp + 1 /\ stamp \in Nat
      /\ fs \in [Paths -> Version \cup {None}] /\ files \in [Paths -> FileRow \cup {None}]
  BY PipelineAssumption DEF TypeInv, TypeOK, Edit, WriteFile, MoveFile, RemoveFile, Edited
<1>1. \A p \in Paths : fs[p] # None => fs[p].stamp \in Nat /\ fs[p].stamp <= stamp
  BY <1>0, PipelineAssumption DEF LinkInv, Stamps, Version
<1>2. \A p \in Paths : files[p] # None => files[p].stamp \in Nat
  BY <1>0, PipelineAssumption DEF FileRow
<1>3. \* every version on disk is a new one or one that was there, at one path
      /\ \A p \in Paths : fs'[p] # None =>
           \/ fs'[p].stamp = stamp + 1
           \/ \E q \in Paths : fs[q] # None /\ fs'[p] = fs[q]
      /\ \A p, q \in Paths : fs'[p] # None /\ fs'[q] # None /\ fs'[p].stamp = fs'[q].stamp => p = q
  <2>1. CASE \E p \in Paths, c \in Contents : WriteFile(p, c)
    <3>1. PICK p \in Paths, c \in Contents : WriteFile(p, c)
      BY <2>1
    <3>2. fs'[p].stamp = stamp + 1 /\ \A q \in Paths \ {p} : fs'[q] = fs[q]
      BY <1>0, <3>1 DEF WriteFile
    <3> QED  BY <1>0, <1>1, <3>2 DEF LinkInv, Stamps
  <2>2. CASE \E p, q \in Paths : MoveFile(p, q)
    <3>1. PICK p \in Paths, q \in Paths : MoveFile(p, q)
      BY <2>2
    <3>2. /\ fs'[p] = None /\ fs'[q] = fs[p] /\ fs[p] # None
          /\ \A r \in Paths \ {p, q} : fs'[r] = fs[r]
      BY <1>0, <3>1 DEF MoveFile
    <3> QED  BY <3>2 DEF LinkInv, Stamps
  <2>3. CASE \E p \in Paths : RemoveFile(p)
    <3>1. PICK p \in Paths : RemoveFile(p)
      BY <2>3
    <3>2. fs'[p] = None /\ \A q \in Paths \ {p} : fs'[q] = fs[q]
      BY <1>0, <3>1 DEF RemoveFile
    <3> QED  BY <3>2 DEF LinkInv, Stamps
  <2> QED  BY <2>1, <2>2, <2>3 DEF Edit
<1>4. Stamps'
  BY <1>0, <1>1, <1>3 DEF Stamps
<1>5. ASSUME ~disturbed' PROVE LinksOK'
  <2>1. ~disturbed /\ ~up /\ LinksOK /\ Quiet
    BY <1>0, <1>5 DEF Edited, LinkInv, TypeInv, Down
  <2>2. queue' = <<>> /\ (\A w \in Workers : job'[w] = Idle) /\ files' = files
    BY <1>0, <2>1 DEF Edited, Quiet, db
  <2>3. ASSUME NEW p \in Paths PROVE Faithful(files[p], fs', stamp')
    BY <1>0, <1>1, <1>2, <1>3, <2>1 DEF LinksOK, Faithful
  <2> QED  BY <2>2, <2>3, IdleJob DEF LinksOK, JobLinks
<1> QED  BY <1>4, <1>5 DEF LinkInv

\* A worker goes on: it holds no other checksum task, and a content it has
\* read is that of its file.
Keeps(w, j) ==
  \/ j.task = None
  \/ /\ j.task = job[w].task
     /\ \A t \in j.outbox : t \in job[w].outbox \/ t.kind # "checksum"
     /\ j.task.kind = "checksum" /\ j.step # "read" =>
          \/ job[w].step # "read" /\ j.got = job[w].got /\ j.path = job[w].path
          \/ j.got = fs[j.path].content

LEMMA KeepsLinks ==
  ASSUME NEW w \in Workers, JobLinks(job[w], files, fs), NEW j, Keeps(w, j)
  PROVE  JobLinks(j, files, fs)
BY DEF JobLinks, Keeps, Linkable

LEMMA LocalLinks ==
  ASSUME TypeOK, LinkInv, NEW w \in Workers, NEW j, job' = [job EXCEPT ![w] = j], Keeps(w, j),
         fs' = fs, stamp' = stamp, files' = files, queue' = queue, disturbed' = disturbed,
         ~disturbed /\ j.step \in {"visit", "flush"} => WalkLinks(walk', files, fs, stamp),
         walk' = walk \/ \A v \in Workers \ {w} : job[v].step \notin {"visit", "flush"}
  PROVE  LinkInv'
<1>1. job'[w] = j /\ \A v \in Workers \ {w} : job'[v] = job[v]
  BY DEF TypeOK
<1>2. Stamps'
  BY DEF LinkInv, Stamps
<1>3. ASSUME ~disturbed PROVE LinksOK'
  <2>1. LinksOK
    BY <1>3 DEF LinkInv
  <2>2. ASSUME NEW v \in Workers PROVE JobLinks(job'[v], files, fs)
    <3>1. CASE v = w
      <4>1. JobLinks(job[w], files, fs)  BY <2>1 DEF LinksOK
      <4> QED  BY <1>1, <3>1, <4>1, KeepsLinks
    <3>2. CASE v # w
      BY <1>1, <2>1, <3>2 DEF LinksOK
    <3> QED  BY <3>1, <3>2
  <2>3. ASSUME NEW v \in Workers, job'[v].step \in {"visit", "flush"} PROVE WalkLinks(walk', files, fs, stamp)
    <3>1. CASE v = w
      BY <1>1, <1>3, <2>3, <3>1
    <3>2. CASE v # w
      BY <1>1, <2>1, <2>3, <3>2 DEF LinksOK
    <3> QED  BY <3>1, <3>2
  <2> QED  BY <2>1, <2>2, <2>3 DEF LinksOK
<1> QED  BY <1>2, <1>3 DEF LinkInv

\* The steps that change neither files nor queue, one case for each action.
LEMMA WorkLinks ==
  ASSUME TypeInv, LinkInv, NEW w \in Workers,
         \/ EndPush(w) \/ TakeSnapshot(w) \/ Recover(w) \/ ReadChecksum(w) \/ LookupAsset(w)
         \/ InsertAsset(w) \/ FindFile(w) \/ WaitLoad(w) \/ ReadSource(w)
         \/ MakeThumbnail(w) \/ EndThumbnail(w) \/ StoreResult(w) \/ GiveUp(w)
  PROVE  LinkInv'
<1>0. Runs(w) /\ TypeOK /\ job[w] \in JobType
  BY Running, IdleJob DEF TypeInv, TypeOK, EndPush, TakeSnapshot, Recover, ReadChecksum,
     LookupAsset, InsertAsset, FindFile, WaitLoad, ReadSource, MakeThumbnail, EndThumbnail,
     StoreResult, GiveUp, StatementSteps, At
<1>1. fs' = fs /\ stamp' = stamp /\ files' = files /\ queue' = queue /\ disturbed' = disturbed
  BY DEF EndPush, TakeSnapshot, Recover, ReadChecksum, LookupAsset, InsertAsset, FindFile, WaitLoad,
     ReadSource, MakeThumbnail, EndThumbnail, StoreResult, GiveUp, env, db, history
<1>2. walk' = walk \/ \A v \in Workers \ {w} : job[v].step \notin {"visit", "flush"}
  <2>1. CASE EndPush(w) \/ GiveUp(w) \/ TakeSnapshot(w)
    <3>1. walk' = walk \/ job[w].step \in WalkSteps
      BY <1>0, <2>1 DEF EndPush, GiveUp, TakeSnapshot, At, Runs, StepsOf, WalkSteps
    <3> QED  BY <3>1 DEF TypeInv, IndexAlone, WalkSteps
  <2>2. CASE ~(EndPush(w) \/ GiveUp(w) \/ TakeSnapshot(w))
    BY <2>2 DEF Recover, ReadChecksum, LookupAsset, InsertAsset, FindFile, WaitLoad,
       ReadSource, MakeThumbnail, EndThumbnail, StoreResult
  <2> QED  BY <2>1, <2>2
<1>3. CASE Finish(w)
  <2>1. Keeps(w, Idle) /\ Idle.step \notin {"visit", "flush"}
    BY IdleJob DEF Keeps, WalkSteps
  <2> QED  BY <1>0, <1>1, <1>2, <1>3, <2>1, LocalLinks DEF Finish
<1>4. ASSUME NEW j, job' = [job EXCEPT ![w] = j], Keeps(w, j), j.step \notin {"visit", "flush"}
      PROVE  LinkInv'
  BY <1>0, <1>1, <1>2, <1>4, LocalLinks
<1>5. ASSUME NEW s, Goto(w, s), job[w].step # "read" \/ job[w].task.kind # "checksum",
             ~disturbed /\ s \in {"visit", "flush"} => WalkLinks(walk', files, fs, stamp)
      PROVE  LinkInv'
  <2> DEFINE j == [job[w] EXCEPT !.step = s]
  <2>1. job' = [job EXCEPT ![w] = j]  BY <1>5 DEF Goto
  <2>2. /\ j.task = job[w].task /\ j.step = s /\ j.outbox = job[w].outbox /\ j.got = job[w].got
        /\ j.path = job[w].path
    BY <1>0 DEF JobType
  <2> HIDE DEF j
  <2>3. Keeps(w, j)
    BY <1>5, <2>2 DEF Keeps
  <2> QED  BY <1>0, <1>1, <1>2, <1>5, <2>1, <2>2, <2>3, LocalLinks
\* a step that pushes no checksum task, and reads no content
<1>6. ASSUME NEW j, job' = [job EXCEPT ![w] = j], j.task = job[w].task, j.got = job[w].got,
             j.step \notin {"visit", "flush"}, \A t \in j.outbox : t \in job[w].outbox \/ t.kind # "checksum",
             job[w].task.kind # "checksum" \/ (job[w].step # "read" /\ j.path = job[w].path)
      PROVE  LinkInv'
  <2>1. Keeps(w, j)
    BY <1>6 DEF Keeps
  <2> QED  BY <1>4, <1>6, <2>1
<1>8. CASE EndPush(w)
  <2>1. Finish(w) \/ (job[w].step = "flush" /\ Goto(w, "visit") /\ walk' = walk)
    BY <1>8 DEF EndPush
  <2>2. ~disturbed /\ job[w].step = "flush" => WalkLinks(walk, files, fs, stamp)
    BY DEF LinkInv, LinksOK
  <2> QED  BY <1>3, <1>5, <2>1, <2>2
<1>9. CASE TakeSnapshot(w)
  <2>1. walk'.snapshot = files /\ walk'.todo = Paths /\ walk'.batch = {} /\ walk'.seen = {} /\ walk'.unread = {}
    BY <1>9 DEF TakeSnapshot, NoWalk
  <2>2. ~disturbed => WalkLinks(walk', files, fs, stamp)
    BY <2>1 DEF LinkInv, LinksOK, WalkLinks
  <2>3. job[w].step = "snapshot" /\ Goto(w, "visit")
    BY <1>9 DEF TakeSnapshot, At
  <2> QED  BY <1>5, <2>2, <2>3
<1>10. CASE Recover(w)
  <2> DEFINE U == UNION {PendingTasks(c) : c \in Recoverable}
  <2>1. \A t \in U : t.kind \in Steps
    BY DEF PendingTasks, StepTask
  <2>2. \A t \in U : t.kind # "checksum"
    BY <2>1 DEF Steps
  <2>3. job' = [job EXCEPT ![w] = [job[w] EXCEPT !.step = "repush", !.outbox = U]] /\ job[w].task.kind = "index"
    BY <1>10 DEF Recover, At
  <2> DEFINE j == [job[w] EXCEPT !.step = "repush", !.outbox = U]
  <2>4. j.task = job[w].task /\ j.got = job[w].got /\ j.step = "repush" /\ j.outbox = U
    BY <1>0 DEF JobType
  <2> HIDE DEF U, j
  <2>5. job' = [job EXCEPT ![w] = j]
    BY <2>3 DEF j
  <2> QED  BY <1>6, <2>2, <2>3, <2>4, <2>5
<1>11. CASE ReadChecksum(w)
  <2>1. CASE Finish(w)  BY <1>3, <2>1
  <2>2. CASE ~Finish(w)
    <3> DEFINE j == [job[w] EXCEPT !.step = "lookup", !.got = fs[job[w].path].content]
    <3>1. job' = [job EXCEPT ![w] = j]
      BY <1>11, <2>2 DEF ReadChecksum
    <3>2. /\ j.task = job[w].task /\ j.step = "lookup" /\ j.outbox = job[w].outbox
          /\ j.got = fs[job[w].path].content /\ j.path = job[w].path
      BY <1>0 DEF JobType
    <3> HIDE DEF j
    <3>3. Keeps(w, j)
      BY <3>2 DEF Keeps
    <3> QED  BY <1>4, <3>1, <3>2, <3>3
  <2> QED  BY <2>1, <2>2
<1>12. CASE LookupAsset(w)
  BY <1>5, <1>12 DEF LookupAsset, At
<1>13. CASE InsertAsset(w)
  <2> DEFINE U == IF assets[job[w].got] = None THEN FirstTasks(job[w].path, job[w].got) ELSE {}
  <2>1. \A t \in U : t.kind # "checksum"
    BY DEF FirstTasks, StepTask
  <2>2. job' = [job EXCEPT ![w] = [job[w] EXCEPT !.step = "link", !.outbox = U]] /\ job[w].step = "insert"
    BY <1>13 DEF InsertAsset, At
  <2> DEFINE j == [job[w] EXCEPT !.step = "link", !.outbox = U]
  <2>3. /\ j.task = job[w].task /\ j.got = job[w].got /\ j.path = job[w].path /\ j.step = "link"
        /\ j.outbox = U
    BY <1>0 DEF JobType
  <2> HIDE DEF U, j
  <2>4. job' = [job EXCEPT ![w] = j]
    BY <2>2 DEF j
  <2> QED  BY <1>6, <2>1, <2>2, <2>3, <2>4
<1>14. CASE FindFile(w)
  <2>1. CASE Finish(w)  BY <1>3, <2>1
  <2>2. CASE ~Finish(w)
    <3> DEFINE s == CASE job[w].task.kind = "metadata" -> "read"
                      [] job[w].task.kind = "thumbnail" -> "make"
                      [] job[w].task.kind = "ocr" -> "load"
    <3>1. PICK p : job' = [job EXCEPT ![w].path = p, ![w].step = s]
      BY <1>14, <2>2 DEF FindFile
    <3>2. job' = [job EXCEPT ![w] = [job[w] EXCEPT !.path = p, !.step = s]]
          /\ job[w].task.kind \in {"metadata", "thumbnail", "ocr"} /\ s \notin {"visit", "flush"}
      BY <1>14, <3>1 DEF FindFile, At
    <3> HIDE DEF s
    <3> DEFINE j == [job[w] EXCEPT !.path = p, !.step = s]
    <3>3. j.task = job[w].task /\ j.got = job[w].got /\ j.step = s /\ j.outbox = job[w].outbox
      BY <1>0 DEF JobType
    <3> HIDE DEF j
    <3>4. job' = [job EXCEPT ![w] = j]
      BY <3>2 DEF j
    <3> QED  BY <1>6, <3>2, <3>3, <3>4
  <2> QED  BY <2>1, <2>2
<1>15. CASE WaitLoad(w)
  BY <1>3, <1>5, <1>15 DEF WaitLoad, At
<1>16. ASSUME NEW r, job' = [job EXCEPT ![w].step = "store", ![w].result = r],
              job[w].task.kind # "checksum"
       PROVE  LinkInv'
  <2> DEFINE j == [job[w] EXCEPT !.step = "store", !.result = r]
  <2>1. j.task = job[w].task /\ j.got = job[w].got /\ j.step = "store" /\ j.outbox = job[w].outbox
    BY <1>0 DEF JobType
  <2>2. job' = [job EXCEPT ![w] = j]
    BY <1>16
  <2> HIDE DEF j
  <2> QED  BY <1>6, <1>16, <2>1, <2>2
<1>17. CASE ReadSource(w)
  <2>1. PICK r : job' = [job EXCEPT ![w].step = "store", ![w].result = r]
    BY <1>17 DEF ReadSource
  <2>2. job[w].task.kind # "checksum"
    BY <1>17 DEF ReadSource, At
  <2> QED  BY <1>16, <2>1, <2>2
<1>18. CASE MakeThumbnail(w)
  BY <1>5, <1>16, <1>18 DEF MakeThumbnail, At
<1>19. CASE EndThumbnail(w)
  <2>1. PICK r : job' = [job EXCEPT ![w].step = "store", ![w].result = r]
    BY <1>19 DEF EndThumbnail
  <2>2. job[w].task.kind # "checksum"
    BY <1>19 DEF EndThumbnail, At
  <2> QED  BY <1>16, <2>1, <2>2
<1>20. CASE StoreResult(w)
  <2>1. CASE Finish(w)  BY <1>3, <2>1
  <2>2. CASE ~Finish(w)
    <3> DEFINE U == ClipAfter(job[w].task, job[w].result)
    <3>1. job' = [job EXCEPT ![w] = [job[w] EXCEPT !.step = "push", !.outbox = U]]
          /\ job[w].task.kind = "thumbnail"
      BY <1>20, <2>2 DEF StoreResult
    <3>2. \A t \in U : t.kind # "checksum"
      BY DEF ClipAfter, StepTask
    <3> DEFINE j == [job[w] EXCEPT !.step = "push", !.outbox = U]
    <3>3. j.task = job[w].task /\ j.got = job[w].got /\ j.step = "push" /\ j.outbox = U
      BY <1>0 DEF JobType
    <3> HIDE DEF U, j
    <3>4. job' = [job EXCEPT ![w] = j]
      BY <3>1 DEF j
    <3> QED  BY <1>6, <3>1, <3>2, <3>3, <3>4
  <2> QED  BY <2>1, <2>2
<1>21. CASE GiveUp(w)
  BY <1>3, <1>21 DEF GiveUp
<1> QED  BY <1>8, <1>9, <1>10, <1>11, <1>12, <1>13, <1>14, <1>15, <1>17, <1>18, <1>19, <1>20, <1>21

LEMMA PopLinks == ASSUME TypeInv, LinkInv, NEW w \in Workers, Pop(w) PROVE LinkInv'
<1> USE DEF Pop
<1> DEFINE t == Head(queue)
           j == [Idle EXCEPT !.task = t, !.step = FirstStep(t), !.path = t.path, !.result = FirstResult(t)]
<1>1. queue \in Seq(Task) /\ job \in [Workers -> JobType]
  BY DEF TypeInv, TypeOK
<1>2. /\ t \in Task /\ t = queue[1] /\ 1 \in DOMAIN queue
      /\ \A i \in DOMAIN queue' : i + 1 \in DOMAIN queue /\ queue'[i] = queue[i + 1]
  BY <1>1, TailRange
<1>3. /\ j.task = t /\ j.step = FirstStep(t) /\ j.outbox = {}
      /\ FirstStep(t) \notin {"visit", "flush"} /\ (t.kind = "checksum" => FirstStep(t) = "read")
  BY <1>2, FirstSteps DEF Idle, WalkSteps
<1>4. \A v \in Workers \ {w} : job'[v] = job[v]
  BY <1>1 DEF Set
<1>5. job'[w] = j \/ job'[w] = Idle
  BY <1>1 DEF Set
<1>6. /\ fs' = fs /\ stamp' = stamp /\ files' = files /\ walk' = walk /\ disturbed' = disturbed
  BY DEF env, db, history
<1> HIDE DEF Pop, j, t
<1>7. ASSUME LinksOK PROVE LinksOK'
  <2>1. \A i \in DOMAIN queue' : Linkable(queue'[i], files, fs)
    BY <1>2, <1>7 DEF LinksOK
  <2>2. Linkable(t, files, fs)
    BY <1>2, <1>7 DEF LinksOK
  <2>3. JobLinks(job'[w], files, fs) /\ job'[w].step \notin {"visit", "flush"}
    BY <1>3, <1>5, <2>2, IdleJob DEF JobLinks, WalkSteps
  <2>4. \A v \in Workers : JobLinks(job'[v], files, fs)
    BY <1>4, <1>7, <2>3 DEF LinksOK
  <2>5. \A v \in Workers : job'[v].step \in {"visit", "flush"} => WalkLinks(walk, files, fs, stamp)
    BY <1>4, <1>7, <2>3 DEF LinksOK
  <2> QED  BY <1>6, <1>7, <2>1, <2>4, <2>5 DEF LinksOK
<1> QED  BY <1>6, <1>7 DEF LinkInv, Stamps

\* A task that is pushed leaves the files of the others as they were.
LEMMA PushLinks ==
  ASSUME TypeInv, LinkInv, NEW t \in Task, queue' = Insert(queue, t),
         ~disturbed => Linkable(t, files, fs),
         fs' = fs, stamp' = stamp, files' = files, disturbed' = disturbed,
         \A v \in Workers : /\ job'[v].task = job[v].task /\ job'[v].step = job[v].step
                            /\ job'[v].got = job[v].got /\ job'[v].path = job[v].path
                            /\ job'[v].outbox \subseteq job[v].outbox,
         \A v \in Workers : ~disturbed /\ job[v].step \in {"visit", "flush"} =>
                              WalkLinks(walk', files, fs, stamp)
  PROVE  LinkInv'
<1>1. ASSUME ~disturbed PROVE LinksOK'
  <2>1. LinksOK /\ Linkable(t, files, fs) /\ queue \in Seq(Task)
    BY <1>1 DEF LinkInv, TypeInv, TypeOK
  <2>2. \A i \in DOMAIN queue' : Linkable(queue'[i], files, fs)
    BY <2>1, InsertRange DEF LinksOK
  <2>3. \A v \in Workers : JobLinks(job'[v], files, fs)
    BY <2>1 DEF LinksOK, JobLinks
  <2> QED  BY <1>1, <2>1, <2>2, <2>3 DEF LinksOK
<1> QED  BY <1>1 DEF LinkInv, Stamps

LEMMA PushOneLinks == ASSUME TypeInv, LinkInv, NEW w \in Workers, PushOne(w) PROVE LinkInv'
<1>1. PICK t \in job[w].outbox :
        queue' = Insert(queue, t) /\ job' = [job EXCEPT ![w].outbox = @ \ {t}]
  BY DEF PushOne
<1>2. t \in Task /\ job[w] \in JobType /\ job \in [Workers -> JobType] /\ job[w] # Idle
  BY <1>1, IdleJob DEF TypeInv, TypeOK, JobType
<1>3. Runs(w)
  BY <1>2, Running
<1>4. /\ fs' = fs /\ stamp' = stamp /\ files' = files /\ disturbed' = disturbed /\ walk' = walk
  BY DEF PushOne, env, db, history
<1>5. ~disturbed => Linkable(t, files, fs)
  BY <1>1, <1>3 DEF LinkInv, LinksOK, JobLinks, Runs
<1>6. \A v \in Workers : /\ job'[v].task = job[v].task /\ job'[v].step = job[v].step
                         /\ job'[v].got = job[v].got /\ job'[v].path = job[v].path
                         /\ job'[v].outbox \subseteq job[v].outbox
  BY <1>1, <1>2 DEF JobType
<1>7. \A v \in Workers : ~disturbed /\ job[v].step \in {"visit", "flush"} => WalkLinks(walk', files, fs, stamp)
  BY <1>4 DEF LinkInv, LinksOK
<1> QED  BY <1>1, <1>2, <1>4, <1>5, <1>6, <1>7, PushLinks

LEMMA FrameLinks ==
  ASSUME LinkInv, fs' = fs, stamp' = stamp, files' = files, disturbed' = disturbed, queue' = queue,
         job' = job,
         \A v \in Workers : ~disturbed /\ job[v].step \in {"visit", "flush"} =>
                              WalkLinks(walk', files, fs, stamp)
  PROVE  LinkInv'
BY DEF LinkInv, LinksOK, Stamps

\* One visit of the walk keeps what is known of it.
LEMMA VisitWalkLinks ==
  ASSUME TypeInv, LinkInv, ~disturbed, NEW w \in Workers, NEW p \in Paths, Visit(w, p)
  PROVE  WalkLinks(walk', files, fs, stamp)
<1>1. /\ WalkLinks(walk, files, fs, stamp) /\ p \in walk.todo
      /\ DataOK /\ SnapshotOK(walk.snapshot, files) /\ Stamps
  BY Visiting DEF Visit, At, LinkInv, LinksOK
<1>2. walk \in WalkType
  BY <1>1 DEF DataOK
<1>3. CASE VisitGone(p)
  <2>1. /\ walk'.snapshot = walk.snapshot /\ walk'.todo = walk.todo \ {p}
        /\ walk'.seen = walk.seen /\ walk'.batch = walk.batch /\ fs[p] = None
        /\ walk'.unread = walk.unread
    BY <1>2, <1>3 DEF VisitGone, WalkType
  <2> QED  BY <1>1, <2>1 DEF WalkLinks
<1>6. CASE VisitUnread(p)
  <2>1. /\ walk'.snapshot = walk.snapshot /\ walk'.todo = walk.todo \ {p}
        /\ walk'.seen = walk.seen /\ walk'.batch = walk.batch
        /\ walk'.unread = walk.unread \cup {p}
    BY <1>2, <1>6 DEF VisitUnread, WalkType
  <2> QED  BY <1>1, <2>1 DEF WalkLinks
<1>4. CASE VisitKnown(p)
  <2>1. /\ walk'.snapshot = walk.snapshot /\ walk'.todo = walk.todo \ {p}
        /\ walk'.seen = walk.seen \cup {p} /\ walk'.batch = walk.batch
        /\ walk'.unread = walk.unread
    BY <1>2, <1>4 DEF VisitKnown, WalkType
  <2> QED  BY <1>1, <2>1 DEF WalkLinks
<1>5. CASE VisitNew(p)
  <2>1. PICK a \in KnownAssets(fs[p]) :
          walk' = [walk EXCEPT !.todo = @ \ {p}, !.seen = @ \cup {p},
                     !.batch = @ \cup {[path |-> p, row |-> [asset |-> a, stamp |-> fs[p].stamp,
                                                             offline |-> FALSE]]}]
    BY <1>5 DEF VisitNew
  <2> DEFINE b == [path |-> p, row |-> [asset |-> a, stamp |-> fs[p].stamp, offline |-> FALSE]]
  <2>2. /\ walk'.snapshot = walk.snapshot /\ walk'.todo = walk.todo \ {p}
        /\ walk'.seen = walk.seen \cup {p} /\ walk'.batch = walk.batch \cup {b}
        /\ walk'.unread = walk.unread
    BY <1>2, <2>1 DEF WalkType
  <2>3. b.path = p /\ b.row.stamp = fs[p].stamp /\ b.row.asset = a /\ ~b.row.offline /\ fs[p] # None
    BY <1>5 DEF VisitNew
  <2>4. a \in {None, fs[p].content}
    <3>1. ASSUME NEW q \in Paths, walk.snapshot[q] # None, walk.snapshot[q].stamp = fs[p].stamp
          PROVE  walk.snapshot[q].asset \in {None, fs[p].content}
      BY <1>1, <2>3, <3>1 DEF WalkLinks, Faithful
    <3> QED  BY <2>1, <3>1 DEF KnownAssets
  <2> HIDE DEF b
  <2> QED  BY <1>1, <2>2, <2>3, <2>4 DEF WalkLinks
<1> QED  BY <1>3, <1>4, <1>5, <1>6 DEF Visit

LEMMA VisitLinks ==
  ASSUME TypeInv, LinkInv, NEW w \in Workers, NEW p \in Paths, Visit(w, p) PROVE LinkInv'
<1>1. /\ fs' = fs /\ stamp' = stamp /\ files' = files /\ disturbed' = disturbed /\ job' = job
  BY DEF Visit, env, db, history
<1>2. ~disturbed => WalkLinks(walk', files, fs, stamp)
  BY VisitWalkLinks
<1>3. CASE queue' = queue
  BY <1>1, <1>2, <1>3, FrameLinks
<1>4. CASE VisitKnown(p) /\ queue' = Insert(queue, ChecksumTask(p))
  <2>1. ChecksumTask(p) \in Task
    BY DEF ChecksumTask, Task, Kinds, Steps, Status
  <2>2. ASSUME ~disturbed PROVE Linkable(ChecksumTask(p), files, fs)
    <3>1. WalkLinks(walk, files, fs, stamp) /\ p \in walk.todo
      BY <2>2 DEF Visit, At, LinkInv, LinksOK
    <3> QED  BY <1>4, <3>1 DEF VisitKnown, Unchanged, Linkable, ChecksumTask, WalkLinks
  <2> QED  BY <1>1, <1>2, <1>4, <2>1, <2>2, PushLinks
<1> QED  BY <1>3, <1>4 DEF Visit, VisitGone, VisitUnread, VisitKnown, VisitNew

\* Statements that write the files table: rows agree with the same versions.
LEMMA TableLinks ==
  ASSUME TypeInv, LinksOK,
         \A p \in Paths : fs[p] # None /\ files[p].stamp = fs[p].stamp => files'[p].stamp = fs[p].stamp
  PROVE  /\ \A i \in DOMAIN queue : Linkable(queue[i], files', fs)
         /\ \A v \in Workers : JobLinks(job[v], files', fs)
<1>1. ASSUME NEW t, TaskShape(t, files, assets), Linkable(t, files, fs) PROVE Linkable(t, files', fs)
  BY <1>1 DEF TaskShape, Linkable
<1>2. \A i \in DOMAIN queue : Linkable(queue[i], files', fs)
  BY <1>1 DEF TypeInv, Shapes, LinksOK
<1>3. ASSUME NEW v \in Workers PROVE JobLinks(job[v], files', fs)
  <2>1. CASE job[v] = Idle
    BY <2>1, IdleJob DEF JobLinks
  <2>2. CASE job[v] # Idle
    <3>1. Runs(v)  BY <2>2, Running
    <3> QED  BY <1>1, <3>1 DEF Runs, OutboxShape, LinksOK, JobLinks
  <2> QED  BY <2>1, <2>2
<1> QED  BY <1>2, <1>3

\* What is known of a walk that visits, and that it is the only one.
LEMMA VisitingLinks ==
  ASSUME TypeInv, LinksOK, NEW w \in Workers, At(w, {"index"}, "visit")
  PROVE  /\ WalkLinks(walk, files, fs, stamp)
         /\ \A v \in Workers \ {w} : job[v].step \notin {"visit", "flush"}
BY DEF LinksOK, At, TypeInv, IndexAlone, WalkSteps

LEMMA FlushLinks == ASSUME TypeInv, LinkInv, NEW w \in Workers, Flush(w) PROVE LinkInv'
<1> USE DEF Flush
<1>1. Runs(w) /\ DataOK /\ SnapshotOK(walk.snapshot, files) /\ TypeOK
  BY Visiting DEF TypeInv
<1>2. /\ fs' = fs /\ stamp' = stamp /\ disturbed' = disturbed /\ queue' = queue
  BY DEF env, history
<1> DEFINE U == {ChecksumTask(b.path) : b \in {x \in walk.batch : x.row.asset = None}}
           j == [job[w] EXCEPT !.step = "flush", !.outbox = U]
           row(p) == (CHOOSE b \in walk.batch : b.path = p).row
<1>3. walk.batch \in SUBSET [path : Paths, row : FileRow] /\ walk \in WalkType
  BY <1>1 DEF DataOK, WalkType
<1>4. /\ j.task = job[w].task /\ j.step = "flush" /\ j.outbox = U /\ job[w].task.kind = "index"
      /\ job'[w] = j /\ \A v \in Workers \ {w} : job'[v] = job[v]
  BY <1>1 DEF TypeOK, At, Runs, JobType
<1>5. \A p \in Paths : files'[p] = IF \E b \in walk.batch : b.path = p THEN row(p) ELSE files[p]
  OBVIOUS
<1>6. walk'.snapshot = walk.snapshot /\ walk'.todo = walk.todo /\ walk'.seen = walk.seen /\ walk'.batch = {}
      /\ walk'.unread = walk.unread
  BY <1>3 DEF WalkType
<1>7. \A t \in U : t.kind = "checksum" /\ \E b \in walk.batch : t.path = b.path
  BY DEF ChecksumTask
<1>8. At(w, {"index"}, "visit")
  OBVIOUS
<1>9. \A p \in Paths : (\E b \in walk.batch : b.path = p) => \E b \in walk.batch : b.path = p /\ row(p) = b.row
  <2> SUFFICES ASSUME NEW p \in Paths, \E b \in walk.batch : b.path = p
               PROVE  \E b \in walk.batch : b.path = p /\ row(p) = b.row
    OBVIOUS
  <2> DEFINE c == CHOOSE b \in walk.batch : b.path = p
  <2>1. c \in walk.batch /\ c.path = p
    OBVIOUS
  <2> QED  BY <2>1
<1> HIDE DEF U, j, row, Flush
<1>10. ASSUME LinksOK, Stamps PROVE LinksOK'
  <2>1. WalkLinks(walk, files, fs, stamp) /\ \A v \in Workers \ {w} : job[v].step \notin {"visit", "flush"}
    BY <1>8, <1>10, VisitingLinks
  <2>2. ASSUME NEW p \in Paths, \E b \in walk.batch : b.path = p
        PROVE  /\ fs[p] # None /\ files'[p].stamp = fs[p].stamp /\ p \notin walk.todo
               /\ files'[p].asset \in {None, fs[p].content}
    <3>1. PICK b \in walk.batch : b.path = p /\ row(p) = b.row
      BY <1>9, <2>2
    <3>2. files'[p] = b.row
      BY <1>5, <2>2, <3>1
    <3> QED  BY <2>1, <3>1, <3>2 DEF WalkLinks
  <2>3. \A p \in Paths : fs[p] # None /\ files[p].stamp = fs[p].stamp => files'[p].stamp = fs[p].stamp
    BY <1>5, <2>2
  <2>4. ASSUME NEW p \in Paths PROVE Faithful(files'[p], fs, stamp)
    <3>1. CASE \E b \in walk.batch : b.path = p
      BY <1>10, <2>2, <3>1 DEF Faithful, Stamps
    <3>2. CASE ~ \E b \in walk.batch : b.path = p
      BY <1>5, <1>10, <3>2 DEF LinksOK
    <3> QED  BY <3>1, <3>2
  <2>5. /\ \A i \in DOMAIN queue : Linkable(queue[i], files', fs)
        /\ \A v \in Workers : JobLinks(job[v], files', fs)
    BY <1>10, <2>3, TableLinks
  <2>6. \A t \in U : Linkable(t, files', fs)
    <3> SUFFICES ASSUME NEW t \in U PROVE fs[t.path] # None /\ files'[t.path].stamp = fs[t.path].stamp
      BY DEF Linkable
    <3>1. t.path \in Paths /\ \E b \in walk.batch : b.path = t.path
      BY <1>3, <1>7
    <3> QED  BY <2>2, <3>1
  <2>7. \A v \in Workers : JobLinks(job'[v], files', fs)
    <3>1. JobLinks(j, files', fs)
      BY <1>4, <2>5, <2>6 DEF JobLinks
    <3> QED  BY <1>4, <2>5, <3>1
  <2>8. WalkLinks(walk', files', fs, stamp)
    BY <1>3, <1>5, <1>6, <2>1, <2>2 DEF WalkLinks, WalkType
  <2> QED  BY <1>2, <2>4, <2>5, <2>7, <2>8 DEF LinksOK
<1> QED  BY <1>2, <1>10 DEF LinkInv, Stamps

LEMMA MarkOfflineLinks == ASSUME TypeInv, LinkInv, NEW w \in Workers, MarkOffline(w) PROVE LinkInv'
<1> USE DEF MarkOffline
<1>1. Runs(w) /\ DataOK /\ SnapshotOK(walk.snapshot, files) /\ At(w, {"index"}, "visit")
  BY Visiting
<1>2. /\ fs' = fs /\ stamp' = stamp /\ disturbed' = disturbed /\ queue' = queue /\ job' = job
      /\ walk.todo = {} /\ walk.batch = {}
  BY DEF env, history
<1>3. PICK chunk \in SUBSET Missing \ {{}} :
        /\ files' = [p \in Paths |-> IF p \in chunk THEN [files[p] EXCEPT !.offline = TRUE] ELSE files[p]]
        /\ walk' = [walk EXCEPT !.seen = @ \cup chunk]
  OBVIOUS
<1>4. /\ walk'.snapshot = walk.snapshot /\ walk'.todo = {} /\ walk'.batch = {}
      /\ walk'.seen = walk.seen \cup chunk /\ walk'.unread = walk.unread
  BY <1>1, <1>2, <1>3 DEF DataOK, WalkType
<1>5. \A p \in Paths : files[p] # None =>
        files'[p].stamp = files[p].stamp /\ files'[p].asset = files[p].asset
  BY <1>1, <1>3 DEF DataOK, FileRow
<1>6. \A p \in Paths : files[p] = None => files'[p] = None
  <2>1. \A p \in chunk : files[p] # None
    BY <1>1 DEF Missing, SnapshotOK
  <2> QED  BY <1>3, <2>1
<1> HIDE DEF MarkOffline
<1>7. ASSUME LinksOK PROVE LinksOK'
  <2>1. WalkLinks(walk, files, fs, stamp) /\ \A v \in Workers \ {w} : job[v].step \notin {"visit", "flush"}
    BY <1>1, <1>7, VisitingLinks
  <2>2. \A p \in Paths : Faithful(files'[p], fs, stamp)
    BY <1>5, <1>6, <1>7 DEF LinksOK, Faithful
  <2>3. \A p \in Paths : fs[p] # None /\ files[p].stamp = fs[p].stamp => files'[p].stamp = fs[p].stamp
    BY <1>5, <1>6
  <2>4. /\ \A i \in DOMAIN queue : Linkable(queue[i], files', fs)
        /\ \A v \in Workers : JobLinks(job[v], files', fs)
    BY <1>7, <2>3, TableLinks
  <2>5. WalkLinks(walk', files', fs, stamp)
    BY <1>2, <1>4, <2>1 DEF WalkLinks
  <2> QED  BY <1>2, <2>2, <2>4, <2>5 DEF LinksOK
<1> QED  BY <1>2, <1>7 DEF LinkInv, Stamps

\* The row a checksum task links is still the version it has read.
LEMMA LinkAssetLinks == ASSUME TypeInv, LinkInv, NEW w \in Workers, LinkAsset(w) PROVE LinkInv'
<1> USE DEF LinkAsset, At
<1>1. Runs(w) /\ TypeOK
  BY Running, IdleJob DEF TypeInv
<1> DEFINE p == job[w].path  j == [job[w] EXCEPT !.step = "push"]
<1>2. /\ fs' = fs /\ stamp' = stamp /\ disturbed' = disturbed /\ queue' = queue /\ walk' = walk
  BY DEF env, history
<1>3. /\ job[w].task.kind = "checksum" /\ job[w].step = "link" /\ p \in Paths /\ files[p] \in FileRow
      /\ p = job[w].task.path /\ job[w].task # None
  BY <1>1 DEF Runs
<1>4. /\ \A q \in Paths \ {p} : files'[q] = files[q]
      /\ files'[p].stamp = files[p].stamp /\ files'[p].asset = job[w].got
  BY <1>1, <1>3 DEF TypeOK, FileRow
<1>5. /\ j.task = job[w].task /\ j.step = "push" /\ j.outbox = job[w].outbox /\ j.got = job[w].got
      /\ j.path = p /\ job'[w] = j /\ \A v \in Workers \ {w} : job'[v] = job[v]
  BY <1>1 DEF TypeOK, Goto, Runs, JobType
<1> HIDE DEF LinkAsset, At, p, j
<1>6. ASSUME LinksOK, Stamps PROVE LinksOK'
  <2>1. fs[p] # None /\ files[p].stamp = fs[p].stamp /\ job[w].got = fs[p].content
    BY <1>3, <1>6 DEF LinksOK, JobLinks, Linkable, p
  <2>2. ASSUME NEW q \in Paths PROVE Faithful(files'[q], fs, stamp)
    <3>1. CASE q = p
      BY <1>3, <1>4, <1>6, <2>1, <3>1 DEF Faithful, Stamps
    <3>2. CASE q # p
      BY <1>4, <1>6, <3>2 DEF LinksOK
    <3> QED  BY <3>1, <3>2
  <2>3. \A q \in Paths : fs[q] # None /\ files[q].stamp = fs[q].stamp => files'[q].stamp = fs[q].stamp
    BY <1>4
  <2>4. /\ \A i \in DOMAIN queue : Linkable(queue[i], files', fs)
        /\ \A v \in Workers : JobLinks(job[v], files', fs)
    BY <1>6, <2>3, TableLinks
  <2>5. \A v \in Workers : JobLinks(job'[v], files', fs)
    <3>1. JobLinks(j, files', fs)
      BY <1>3, <1>5, <2>4 DEF JobLinks, p
    <3> QED  BY <1>5, <2>4, <3>1
  <2>6. ASSUME NEW v \in Workers, job'[v].step \in {"visit", "flush"} PROVE FALSE
    <3>1. v # w /\ job[v].step \in {"visit", "flush"}
      BY <1>5, <2>6
    <3>2. AloneInWalk(v)
      BY <3>1 DEF TypeInv, Walking
    <3> QED  BY <1>3, <3>1, <3>2, IdleJob DEF AloneInWalk
  <2> QED  BY <1>2, <2>2, <2>4, <2>5, <2>6 DEF LinksOK
<1> QED  BY <1>2, <1>6 DEF LinkInv, Stamps

LEMMA NextLinks == ASSUME TypeInv, LinkInv, [Next]_vars PROVE LinkInv'
<1>1. CASE Edit
  BY <1>1, EditLinks
<1>2. CASE Cancel \/ Stop \/ UNCHANGED vars
  <2>1. /\ fs' = fs /\ stamp' = stamp /\ files' = files /\ disturbed' = disturbed /\ queue' = queue
        /\ job' = job /\ walk' = walk
    BY <1>2 DEF Cancel, Stop, vars, env, db, history
  <2>2. ~disturbed => \A v \in Workers : job[v].step \in {"visit", "flush"} => WalkLinks(walk, files, fs, stamp)
    BY DEF LinkInv, LinksOK
  <2> QED  BY <2>1, <2>2, FrameLinks
<1>3. CASE (\E r \in Retries, l \in BOOLEAN : Start(r, l)) \/ Crash
  <2>1. /\ fs' = fs /\ stamp' = stamp /\ files' = files /\ disturbed' = disturbed
        /\ queue' \in {<<>>, <<IndexTask>>} /\ \A v \in Workers : job'[v] = Idle
    BY <1>3 DEF Start, Crash, TypeInv, Down, Quiet, env, db
  <2>2. \A i \in DOMAIN queue' : queue'[i].kind # "checksum"
    BY <2>1 DEF IndexTask
  <2> QED  BY <2>1, <2>2, IdleJob DEF LinkInv, LinksOK, Stamps, JobLinks, Linkable, WalkSteps
<1>4. ASSUME NEW w \in Workers, Work(w) \/ GiveUp(w) PROVE LinkInv'
  BY <1>4, PopLinks, PushOneLinks, WorkLinks, VisitLinks, FlushLinks, MarkOfflineLinks, LinkAssetLinks
     DEF Work
<1> QED  BY <1>1, <1>2, <1>3, <1>4 DEF Next

LEMMA LinkInvariant == Spec => []LinkInv
BY InitLinks, NextLinks, TypeInvariant, PTL DEF Spec

\* Without edits while the program runs, a row that agrees with the file on
\* disk has no other asset than the content of that file.
THEOREM LinksCorrect == Spec => []LinksFaithful
BY LinksAreFaithful, LinkInvariant, PTL

\* A row goes offline in one action only, and then its file was not found or
\* not read.
LEMMA OfflineNext ==
  ASSUME TypeInv, LinkInv, [Next]_vars, NEW p \in Paths, ~disturbed, Online(p), ~Online(p)'
  PROVE  fs[p] = None \/ p \in walk.unread
<1>1. files' # files
  BY DEF Online
<1>2. PICK w \in Workers : Flush(w) \/ MarkOffline(w) \/ LinkAsset(w)
  <2>1. \/ Edit \/ (\E r \in Retries, l \in BOOLEAN : Start(r, l)) \/ Cancel \/ Stop \/ Crash
        \/ (\E w \in Workers : Work(w) \/ GiveUp(w)) \/ UNCHANGED vars
    BY DEF Next
  <2>2. \E w \in Workers : Work(w) \/ GiveUp(w)
    BY <1>1, <2>1 DEF Edit, WriteFile, MoveFile, RemoveFile, Edited, Start, Cancel, Stop, Crash, vars, db
  <2>3. PICK w \in Workers : Work(w) \/ GiveUp(w)
    BY <2>2
  <2> QED  BY <1>1, <2>3 DEF Work, Pop, PushOne, EndPush, TakeSnapshot, Visit, Recover, ReadChecksum,
           LookupAsset, InsertAsset, FindFile, WaitLoad, ReadSource, MakeThumbnail, EndThumbnail,
           StoreResult, GiveUp, db
<1>3. TypeOK /\ LinksOK
  BY DEF TypeInv, LinkInv
<1>4. CASE Flush(w)
  <2>1. walk.batch \in SUBSET [path : Paths, row : FileRow]
    BY <1>4, Visiting DEF Flush, DataOK, WalkType
  <2>2. files'[p] = IF \E b \in walk.batch : b.path = p
                      THEN (CHOOSE b \in walk.batch : b.path = p).row ELSE files[p]
    BY <1>4 DEF Flush
  <2>3. CASE ~ \E b \in walk.batch : b.path = p
    BY <2>2, <2>3 DEF Online
  <2>4. CASE \E b \in walk.batch : b.path = p
    <3> DEFINE b == CHOOSE x \in walk.batch : x.path = p
    <3>1. b \in walk.batch /\ files'[p] = b.row
      BY <2>2, <2>4
    <3>2. b.row \in FileRow /\ ~b.row.offline
      BY <1>3, <1>4, <2>1, <3>1, VisitingLinks DEF Flush, WalkLinks
    <3> QED  BY <3>1, <3>2, PipelineAssumption DEF Online
  <2> QED  BY <2>3, <2>4
<1>5. CASE MarkOffline(w)
  <2>1. At(w, {"index"}, "visit") /\ walk.todo = {} /\ files'[p] # files[p]
    BY <1>5 DEF MarkOffline, Online
  <2>2. p \notin walk.seen
    BY <1>5, <2>1 DEF MarkOffline, Missing
  <2>3. WalkLinks(walk, files, fs, stamp)
    BY <1>3, <2>1, VisitingLinks
  <2> QED  BY <2>1, <2>2, <2>3 DEF WalkLinks
<1>6. CASE LinkAsset(w)
  <2>1. Runs(w) /\ job[w].path \in Paths /\ files[job[w].path] \in FileRow
    BY <1>6, Running, IdleJob DEF LinkAsset, At, Runs
  <2>2. files' = [files EXCEPT ![job[w].path] = [files[job[w].path] EXCEPT !.asset = job[w].got]]
    BY <1>6 DEF LinkAsset
  <2>3. CASE p # job[w].path
    BY <2>2, <2>3, <1>3 DEF Online, TypeOK
  <2>4. CASE p = job[w].path
    <3>1. files'[p] = [files[p] EXCEPT !.asset = job[w].got] /\ job[w].got \in Contents
      BY <1>3, <1>6, <2>1, <2>2, <2>4 DEF TypeOK, LinkAsset, At, Runs
    <3>2. files'[p] \in FileRow /\ files'[p].offline = files[p].offline
      BY <2>1, <2>4, <3>1 DEF FileRow
    <3> QED  BY <3>2, PipelineAssumption DEF Online
  <2> QED  BY <2>3, <2>4
<1> QED  BY <1>2, <1>4, <1>5, <1>6

\* Without edits while the program runs, only a row whose file is gone, or
\* was not read by the very walk that ends, is marked offline.
THEOREM OfflineIsGone == Spec => NoFalseOffline
<1>1. TypeInv /\ LinkInv /\ [Next]_vars =>
        [\A p \in Paths :
           ~disturbed /\ Online(p) /\ ~Online(p)' => fs[p] = None \/ p \in walk.unread]_vars
  BY OfflineNext
<1> QED  BY <1>1, TypeInvariant, LinkInvariant, PTL DEF Spec, NoFalseOffline

-----------------------------------------------------------------------------
\* The queue serves as the queue of the workers promises (PriorityFifo).

\* Priorities are numbers and the queue never has a lower one before a higher.
Urgency(t) == Priority[t.kind]
InOrder(q) == \A i, j \in DOMAIN q : i < j => Urgency(q[i]) >= Urgency(q[j])
QueueInOrder == InOrder(queue)

\* r is q with t behind all of at least its priority and before all others,
\* which keep their order.
PutInLane(q, t, r) ==
  \E n \in 0..Len(q) :
    /\ \A i \in DOMAIN q : i <= n <=> Urgency(q[i]) >= Urgency(t)
    /\ Len(r) = Len(q) + 1
    /\ \A i \in 1..Len(q) + 1 : r[i] = IF i <= n THEN q[i] ELSE IF i = n + 1 THEN t ELSE q[i - 1]

LEMMA UrgencyType == \A t \in Task : Urgency(t) \in Nat
BY DEF Urgency, Priority, Task, Kinds, Steps

\* What is not below an urgency is the beginning of a queue in order.
LEMMA BeginningOf ==
  ASSUME NEW q \in Seq(Task), InOrder(q), NEW u \in Nat
  PROVE  \E n \in 0..Len(q) : \A i \in DOMAIN q : i <= n <=> Urgency(q[i]) >= u
<1>1. Len(q) \in Nat /\ DOMAIN q = 1..Len(q) /\ \A i \in DOMAIN q : Urgency(q[i]) \in Nat
  BY UrgencyType
<1> DEFINE Low == {i \in DOMAIN q : Urgency(q[i]) < u} \cup {Len(q) + 1}
<1>2. PICK x \in Low : \A y \in Low : x <= y
  <2>1. Low \in SUBSET Int /\ Low # {} /\ Low \in SUBSET (1..Len(q) + 1)
    BY <1>1
  <2>2. IsFiniteSet(Low)
    <3>1. 1 \in Int /\ Len(q) + 1 \in Int  BY <1>1
    <3>2. IsFiniteSet(1..Len(q) + 1)  BY <3>1, FS_Interval
    <3> QED  BY <2>1, <3>2, FS_Subset
  <2> QED  BY <2>1, <2>2, LeastNumber
<1>3. x \in 1..Len(q) + 1 /\ x - 1 \in 0..Len(q)
  BY <1>1
<1>4. ASSUME NEW i \in DOMAIN q PROVE i <= x - 1 <=> Urgency(q[i]) >= u
  <2>1. CASE i <= x - 1
    <3>1. i \notin Low  BY <1>1, <1>2, <1>3, <1>4, <2>1
    <3> QED  BY <1>1, <2>1, <3>1
  <2>2. CASE i > x - 1
    <3>1. x \in DOMAIN q /\ Urgency(q[x]) < u
      BY <1>1, <1>2, <1>3, <2>2
    <3>2. x = i \/ Urgency(q[x]) >= Urgency(q[i])
      BY <1>1, <1>3, <2>2, <3>1 DEF InOrder
    <3> QED  BY <1>1, <1>3, <2>2, <3>1, <3>2
  <2> QED  BY <1>1, <1>3, <2>1, <2>2
<1> QED  BY <1>3, <1>4

\* Push puts a task at the end of its lane and keeps the order.
LEMMA PushInLane ==
  ASSUME NEW q \in Seq(Task), InOrder(q), NEW t \in Task
  PROVE  PutInLane(q, t, Insert(q, t)) /\ InOrder(Insert(q, t))
<1>1. /\ Len(q) \in Nat /\ DOMAIN q = 1..Len(q) /\ Urgency(t) \in Nat
      /\ \A i \in DOMAIN q : Urgency(q[i]) \in Nat
  BY UrgencyType
<1>2. PICK n \in 0..Len(q) : \A i \in DOMAIN q : i <= n <=> Urgency(q[i]) >= Urgency(t)
  BY <1>1, BeginningOf
<1>3. Place(q, t) = n
  <2>1. {i \in DOMAIN q : Urgency(q[i]) >= Urgency(t)} = 1..n
    BY <1>1, <1>2
  <2>2. Cardinality(1..n) = n
    BY <1>1, FS_Interval
  <2> QED  BY <2>1, <2>2 DEF Place, Urgency
<1> DEFINE r == Insert(q, t)
<1>4. /\ r \in Seq(Task) /\ Len(r) = Len(q) + 1
      /\ \A i \in 1..Len(q) + 1 : r[i] = IF i <= n THEN q[i] ELSE IF i = n + 1 THEN t ELSE q[i - 1]
  BY <1>3, InsertAt
<1> HIDE DEF r
<1>5. PutInLane(q, t, r)
  BY <1>2, <1>4 DEF PutInLane
<1>6. InOrder(r)
  <2> SUFFICES ASSUME NEW i \in 1..Len(q) + 1, NEW j \in 1..Len(q) + 1, i < j
               PROVE  Urgency(r[i]) >= Urgency(r[j])
    BY <1>1, <1>4 DEF InOrder
  <2>0. n \in Nat /\ n <= Len(q)  BY <1>1
  <2>1. ASSUME NEW k \in DOMAIN q, NEW l \in DOMAIN q, k < l PROVE Urgency(q[k]) >= Urgency(q[l])
    BY <2>1 DEF InOrder
  <2>2. CASE j <= n
    <3>1. r[i] = q[i] /\ r[j] = q[j] /\ i \in DOMAIN q /\ j \in DOMAIN q
      BY <1>1, <1>4, <2>0, <2>2
    <3> QED  BY <2>1, <3>1
  <2>3. CASE j = n + 1
    <3>1. r[i] = q[i] /\ r[j] = t /\ i \in DOMAIN q /\ i <= n
      BY <1>1, <1>4, <2>0, <2>3
    <3> QED  BY <1>2, <3>1
  <2>4. CASE j > n + 1
    <3>1. r[j] = q[j - 1] /\ j - 1 \in DOMAIN q /\ ~(j - 1 <= n)
      BY <1>1, <1>4, <2>0, <2>4
    <3>2. CASE i <= n
      <4>1. r[i] = q[i] /\ i \in DOMAIN q /\ i < j - 1
        BY <1>1, <1>4, <2>0, <2>4, <3>2
      <4> QED  BY <2>1, <3>1, <4>1
    <3>3. CASE i = n + 1
      <4>1. r[i] = t /\ ~(Urgency(q[j - 1]) >= Urgency(t)) /\ Urgency(q[j - 1]) \in Nat
        BY <1>1, <1>2, <1>4, <2>0, <3>1, <3>3
      <4> QED  BY <1>1, <3>1, <4>1
    <3>4. CASE i > n + 1
      <4>1. r[i] = q[i - 1] /\ i - 1 \in DOMAIN q /\ i - 1 < j - 1
        BY <1>1, <1>4, <2>0, <3>4
      <4> QED  BY <2>1, <3>1, <4>1
    <3> QED  BY <2>0, <3>2, <3>3, <3>4
  <2> QED  BY <2>0, <2>2, <2>3, <2>4
<1> QED  BY <1>5, <1>6 DEF r

\* What a step may do with the queue: a push puts a task at the end of its
\* lane, a worker takes the head, a run begins with the index task, and a
\* crash loses all.
QueueStep ==
  \/ queue' = queue
  \/ queue' = <<IndexTask>> \/ queue' = <<>>
  \/ queue # <<>> /\ queue' = Tail(queue)
  \/ \E t \in Task : PutInLane(queue, t, queue')

LEMMA StepOfQueue ==
  ASSUME TypeInv, QueueInOrder, [Next]_vars
  PROVE  QueueStep /\ QueueInOrder'
<1> USE DEF QueueInOrder
<1>0. queue \in Seq(Task) /\ queue' \in Seq(Task)
  BY NextType DEF TypeInv, TypeOK
<1>1. ASSUME NEW t \in Task, queue' = Insert(queue, t) PROVE QueueStep /\ QueueInOrder'
  BY <1>0, <1>1, PushInLane DEF QueueStep
<1>2. ASSUME queue' = queue PROVE QueueStep /\ QueueInOrder'
  BY <1>2 DEF QueueStep
<1>3. ASSUME NEW r \in Retries, NEW l \in BOOLEAN, Start(r, l) PROVE QueueStep /\ QueueInOrder'
  <2>1. queue' = <<IndexTask>>  BY <1>3 DEF Start
  <2>2. InOrder(<<IndexTask>>)  BY DEF InOrder
  <2> QED  BY <2>1, <2>2 DEF QueueStep
<1>4. ASSUME Crash PROVE QueueStep /\ QueueInOrder'
  <2>1. queue' = <<>>  BY <1>4 DEF Crash
  <2>2. InOrder(<<>>)  BY DEF InOrder
  <2> QED  BY <2>1, <2>2 DEF QueueStep
<1>5. ASSUME NEW w \in Workers, Pop(w) PROVE QueueStep /\ QueueInOrder'
  <2>1. queue # <<>> /\ queue' = Tail(queue)  BY <1>5 DEF Pop
  <2>2. ASSUME NEW i \in DOMAIN Tail(queue), NEW j \in DOMAIN Tail(queue), i < j
        PROVE  Urgency(Tail(queue)[i]) >= Urgency(Tail(queue)[j])
    <3>1. /\ Tail(queue)[i] = queue[i + 1] /\ Tail(queue)[j] = queue[j + 1]
          /\ i + 1 \in DOMAIN queue /\ j + 1 \in DOMAIN queue /\ i + 1 < j + 1
      BY <1>0, <2>1, <2>2, TailRange
    <3> QED  BY <3>1 DEF InOrder
  <2> QED  BY <2>1, <2>2 DEF QueueStep, InOrder
<1>6. ASSUME NEW w \in Workers, PushOne(w) PROVE QueueStep /\ QueueInOrder'
  <2>1. job[w].outbox \subseteq Task  BY DEF TypeInv, TypeOK, JobType
  <2>2. PICK t \in job[w].outbox : queue' = Insert(queue, t)  BY <1>6 DEF PushOne
  <2> QED  BY <1>1, <2>1, <2>2
<1>7. ASSUME NEW w \in Workers, NEW p \in Paths, Visit(w, p) PROVE QueueStep /\ QueueInOrder'
  <2>1. ChecksumTask(p) \in Task  BY DEF ChecksumTask, Task, Kinds, Status
  <2>2. queue' = queue \/ queue' = Insert(queue, ChecksumTask(p))
    BY <1>7 DEF Visit, VisitGone, VisitUnread, VisitKnown, VisitNew
  <2> QED  BY <1>1, <1>2, <2>1, <2>2
<1>8. ASSUME Edit \/ Cancel \/ Stop \/ UNCHANGED vars PROVE queue' = queue
  BY <1>8 DEF Edit, WriteFile, MoveFile, RemoveFile, Edited, Cancel, Stop, vars
<1>9. ASSUME NEW w \in Workers, Work(w) \/ GiveUp(w)
      PROVE  queue' = queue \/ Pop(w) \/ PushOne(w) \/ \E p \in Paths : Visit(w, p)
  BY <1>9 DEF Work, GiveUp, EndPush, TakeSnapshot, Flush, MarkOffline, Recover, ReadChecksum,
     LookupAsset, InsertAsset, LinkAsset, FindFile, WaitLoad, ReadSource, MakeThumbnail,
     EndThumbnail, StoreResult
<1> QED  BY <1>2, <1>3, <1>4, <1>5, <1>6, <1>7, <1>8, <1>9 DEF Next

\* The queue of the runs is in order of priority, and each step serves it as
\* PriorityFifo says: what waits longest among the most urgent is popped, and
\* a push waits behind all of its own priority.
THEOREM QueueServes == Spec => [](QueueInOrder) /\ [][QueueStep]_vars
<1>1. Init => QueueInOrder  BY DEF Init, QueueInOrder, InOrder
<1>2. TypeInv /\ QueueInOrder /\ [Next]_vars => QueueInOrder' /\ [QueueStep]_vars
  BY StepOfQueue
<1> QED  BY <1>1, <1>2, TypeInvariant, PTL DEF Spec
=============================================================================
