--------------------------- MODULE RecoveryProofs ---------------------------
(***************************************************************************)
(* Pipeline recovers: whatever crashes, signals, failures and edits came   *)
(* before, the second undisturbed run in a row leaves nothing undone, for  *)
(* any library, any workers and any number of runs.                        *)
(*                                                                         *)
(* Load is the work the process still has to do.  While runs are calm, the *)
(* first one visits every path and links every file, since a checksum task *)
(* leaves the load only with its file linked (FilesInv).  So the second    *)
(* walk finds the table as it should be and checksums nothing (DoneInv),   *)
(* and what it re-queues leaves the load only with its status written      *)
(* (HeldInv): when the load is empty, nothing is pending.                  *)
(***************************************************************************)
EXTENDS PipelineProofs

\* The tasks a worker has still to run or to push, and all of the process.
HasLoad(j, t) == t \in j.outbox \/ (j.task = t /\ j.step # "push")
InLoad(t) ==
  \/ \E i \in DOMAIN queue : queue[i] = t
  \/ \E w \in Workers : HasLoad(job[w], t)
Load == {t \in Task : InLoad(t)}

WalkAhead ==
  \/ \E i \in DOMAIN queue : queue[i].kind = "index"
  \/ \E w \in Workers : job[w].step \in {"snapshot", "visit", "flush"}
InWalk == \E w \in Workers : job[w].step \in {"visit", "flush"}

\* A row that is linked is linked to a row of the assets.
RowOK(row, A) == row # None /\ row.asset # None => A[row.asset] # None
RowInv ==
  /\ \A p \in Paths : RowOK(files[p], assets)
  /\ InWalk =>
       /\ \A p \in Paths : RowOK(walk.snapshot[p], assets)
       /\ \A b \in walk.batch : RowOK(b.row, assets)
  /\ \A w \in Workers : job[w].step = "link" => assets[job[w].got] # None

CalmInv == calm # 0 => loaded /\ (up => ~ctxDone)

\* The row of a file agrees with it and is linked or about to be; a path
\* without a file has no online row.
Checked(p) ==
  /\ Online(p) /\ files[p].stamp = fs[p].stamp
  /\ files[p].asset = None => ChecksumTask(p) \in Load
Settled(p) == IF fs[p] # None THEN Checked(p) ELSE ~Online(p)

\* The same during the walk, for what it has visited; the rest of the table
\* is as the walk read it.
Batched(p) == \E b \in walk.batch : b.path = p
Walked(p) ==
  /\ p \in walk.todo => files[p] = walk.snapshot[p] /\ ~Batched(p) /\ p \notin walk.seen
  /\ fs[p] # None /\ p \notin walk.todo =>
       /\ p \in walk.seen
       /\ Batched(p) \/ Checked(p)
       /\ \A b \in walk.batch : b.path = p => b.row.stamp = fs[p].stamp /\ ~b.row.offline
  /\ fs[p] = None =>
       /\ ~Batched(p)
       /\ p \in walk.seen => ~Online(p)
       /\ p \notin walk.seen => files[p] = walk.snapshot[p]
FilesInv ==
  calm # 0 =>
    /\ ~WalkAhead => \A p \in Paths : Settled(p)
    /\ InWalk => \A p \in Paths : Walked(p)

\* In the second run the table is as it should be from the start.
Linked(p) ==
  IF fs[p] # None THEN Online(p) /\ files[p].stamp = fs[p].stamp /\ files[p].asset # None
                  ELSE ~Online(p)
DoneInv ==
  calm = 2 =>
    /\ \A p \in Paths : Linked(p)
    /\ \A t \in Load : t.kind # "checksum"
    /\ InWalk => walk.snapshot = files /\ walk.batch = {}

\* And a pending step of a file's asset is claimed by a task of the load.
HeldInv ==
  calm = 2 /\ ~WalkAhead =>
    \A p \in Paths, s \in Steps :
      Online(p) /\ assets[files[p].asset][s] = "pending" =>
        \E t \in Load : Claims(t, s, files[p].asset)

-----------------------------------------------------------------------------
\* How the load moves

LEMMA LocalLoad ==
  ASSUME TypeInv, NEW w \in Workers, NEW j, job' = [job EXCEPT ![w] = j], queue' = queue
  PROVE  /\ job'[w] = j /\ \A v \in Workers \ {w} : job'[v] = job[v]
         /\ \A t \in Task :
              /\ HasLoad(j, t) => t \in Load'
              /\ t \in Load' => t \in Load \/ HasLoad(j, t)
              /\ t \in Load => t \in Load' \/ HasLoad(job[w], t)
<1>1. job'[w] = j /\ \A v \in Workers \ {w} : job'[v] = job[v]
  BY DEF TypeInv, TypeOK
<1> QED  BY <1>1 DEF Load, InLoad

LEMMA FinishLoad ==
  ASSUME TypeInv, NEW w \in Workers, Finish(w), queue' = queue, job[w].outbox = {}
  PROVE  /\ job'[w] = Idle /\ \A v \in Workers \ {w} : job'[v] = job[v]
         /\ Load' \subseteq Load
         /\ \A t \in Load : t \in Load' \/ (t = job[w].task /\ job[w].step # "push")
<1>1. \A t \in Task : ~HasLoad(Idle, t)
  BY IdleJob, PipelineAssumption DEF HasLoad
<1>2. \A t \in Task : HasLoad(job[w], t) => t = job[w].task /\ job[w].step # "push"
  BY DEF HasLoad
<1>3. Load \subseteq Task /\ Load' \subseteq Task
  BY DEF Load
<1> QED  BY <1>1, <1>2, <1>3, LocalLoad DEF Finish

\* A worker goes on to another step of its task, but not to its pushes.
LEMMA GoLoad ==
  ASSUME TypeInv, NEW w \in Workers, NEW j, job' = [job EXCEPT ![w] = j], queue' = queue,
         j.task = job[w].task, j.step # "push", job[w].step # "push",
         job[w].outbox \subseteq j.outbox
  PROVE  /\ job'[w] = j /\ \A v \in Workers \ {w} : job'[v] = job[v]
         /\ \A t \in Task : t \in Load' <=> t \in Load \/ t \in j.outbox
<1>1. \A t \in Task : HasLoad(j, t) <=> HasLoad(job[w], t) \/ t \in j.outbox
  BY DEF HasLoad
<1>2. \A t \in Task : HasLoad(job[w], t) => t \in Load
  BY DEF Load, InLoad
<1> QED  BY <1>1, <1>2, LocalLoad

LEMMA InsertAll ==
  ASSUME NEW q \in Seq(Task), NEW t \in Task
  PROVE  \A u : (\E i \in DOMAIN Insert(q, t) : Insert(q, t)[i] = u)
                  <=> u = t \/ \E i \in DOMAIN q : q[i] = u
<1>1. PICK n \in 0..Len(q) :
        /\ Insert(q, t) \in Seq(Task) /\ Len(Insert(q, t)) = Len(q) + 1
        /\ \A i \in 1..Len(q) + 1 :
             Insert(q, t)[i] = IF i <= n THEN q[i] ELSE IF i = n + 1 THEN t ELSE q[i - 1]
  BY InsertEffect
<1>2. Len(q) \in Nat /\ DOMAIN q = 1..Len(q) /\ DOMAIN Insert(q, t) = 1..Len(q) + 1 /\ n \in Nat
  BY <1>1
<1>3. n + 1 \in DOMAIN Insert(q, t) /\ Insert(q, t)[n + 1] = t
  <2>1. n + 1 \in 1..Len(q) + 1 /\ ~(n + 1 <= n)  BY <1>1, <1>2
  <2> QED  BY <1>1, <1>2, <2>1
<1>4. ASSUME NEW i \in DOMAIN q PROVE \E k \in DOMAIN Insert(q, t) : Insert(q, t)[k] = q[i]
  <2>1. CASE i <= n
    <3>1. i \in 1..Len(q) + 1  BY <1>2
    <3> QED  BY <1>1, <1>2, <2>1, <3>1
  <2>2. CASE ~(i <= n)
    <3>1. i + 1 \in 1..Len(q) + 1 /\ ~(i + 1 <= n) /\ i + 1 # n + 1 /\ (i + 1) - 1 = i
      BY <1>2, <2>2
    <3> QED  BY <1>1, <1>2, <3>1
  <2> QED  BY <2>1, <2>2
<1>5. \A i \in DOMAIN Insert(q, t) : Insert(q, t)[i] = t \/ \E k \in DOMAIN q : Insert(q, t)[i] = q[k]
  BY InsertRange
<1> QED  BY <1>3, <1>4, <1>5

LEMMA PopLoad ==
  ASSUME TypeInv, NEW w \in Workers, Pop(w), ~ctxDone
  PROVE  /\ Load' = Load
         /\ job'[w].task = Head(queue) /\ job'[w].step = FirstStep(Head(queue))
         /\ Head(queue) \in Task /\ Head(queue) = queue[1] /\ 1 \in DOMAIN queue
         /\ \A v \in Workers \ {w} : job'[v] = job[v]
<1> DEFINE t == Head(queue)
           j == [Idle EXCEPT !.task = t, !.step = FirstStep(t), !.path = t.path, !.result = FirstResult(t)]
<1>1. /\ queue \in Seq(Task) /\ job \in [Workers -> JobType] /\ queue # <<>>
      /\ queue' = Tail(queue) /\ job' = [job EXCEPT ![w] = j] /\ job[w] = Idle
  BY DEF Pop, Set, TypeInv, TypeOK
<1>2. /\ t \in Task /\ t = queue[1] /\ 1 \in DOMAIN queue /\ Len(queue) \in Nat
      /\ DOMAIN queue = 1..Len(queue) /\ DOMAIN queue' = 1..Len(queue) - 1
      /\ \A i \in DOMAIN queue' : i + 1 \in DOMAIN queue /\ queue'[i] = queue[i + 1]
  BY <1>1, TailRange
<1>3. j.task = t /\ j.outbox = {} /\ j.step = FirstStep(t)
  BY DEF Idle
<1>4. FirstStep(t) # "push"
  BY <1>2 DEF FirstStep, Task, Kinds, Steps
<1>5. job'[w] = j /\ \A v \in Workers \ {w} : job'[v] = job[v]
  BY <1>1
<1> HIDE DEF j, t
<1>6. ASSUME NEW u \in Task PROVE u \in Load' <=> u \in Load
  <2>1. ASSUME NEW i \in DOMAIN queue, i # 1 PROVE i - 1 \in DOMAIN queue' /\ queue'[i - 1] = queue[i]
    <3>1. i - 1 \in DOMAIN queue' /\ (i - 1) + 1 = i  BY <1>2, <2>1
    <3> QED  BY <1>2, <3>1
  <2>2. (\E i \in DOMAIN queue : queue[i] = u) <=> u = t \/ \E i \in DOMAIN queue' : queue'[i] = u
    BY <1>2, <2>1
  <2>3. HasLoad(j, u) <=> u = t
    BY <1>3, <1>4 DEF HasLoad
  <2>4. ~HasLoad(job[w], u)
    BY <1>1, IdleJob, PipelineAssumption DEF HasLoad
  <2> QED  BY <1>5, <2>2, <2>3, <2>4 DEF Load, InLoad
<1>7. Load' = Load  BY <1>6 DEF Load
<1> QED  BY <1>2, <1>3, <1>5, <1>7 DEF t

LEMMA PushOneLoad ==
  ASSUME TypeInv, NEW w \in Workers, PushOne(w)
  PROVE  /\ Load' = Load
         /\ job'[w].task = job[w].task /\ job'[w].step = job[w].step
         /\ \A v \in Workers \ {w} : job'[v] = job[v]
         /\ \A i \in DOMAIN queue : \E k \in DOMAIN queue' : queue'[k] = queue[i]
<1>1. Runs(w) /\ queue \in Seq(Task) /\ job \in [Workers -> JobType]
  BY Running, IdleJob DEF TypeInv, TypeOK, PushOne
<1>2. PICK t \in job[w].outbox :
        queue' = Insert(queue, t) /\ job' = [job EXCEPT ![w].outbox = @ \ {t}]
  BY DEF PushOne
<1> DEFINE j == [job[w] EXCEPT !.outbox = job[w].outbox \ {t}]
<1>3. job'[w] = j /\ \A v \in Workers \ {w} : job'[v] = job[v]
  BY <1>1, <1>2
<1>4. j.task = job[w].task /\ j.step = job[w].step /\ j.outbox = job[w].outbox \ {t}
  BY <1>1 DEF Runs, JobType
<1> HIDE DEF j
<1>5. t \in Task
  BY <1>1 DEF Runs, JobType
<1>6. \A u : (\E i \in DOMAIN queue' : queue'[i] = u) <=> u = t \/ \E i \in DOMAIN queue : queue[i] = u
  <2>1. \A u : (\E i \in DOMAIN Insert(queue, t) : Insert(queue, t)[i] = u)
                 <=> u = t \/ \E i \in DOMAIN queue : queue[i] = u
    BY <1>1, <1>5, InsertAll
  <2> QED  BY <1>2, <2>1
<1>7. ASSUME NEW u \in Task PROVE u \in Load' <=> u \in Load
  <2>1. HasLoad(job[w], u) <=> HasLoad(j, u) \/ u = t
    BY <1>2, <1>4 DEF HasLoad
  <2> QED  BY <1>3, <1>6, <2>1 DEF Load, InLoad
<1>8. Load' = Load  BY <1>7 DEF Load
<1> QED  BY <1>3, <1>4, <1>6, <1>8

-----------------------------------------------------------------------------
\* What leaves the load while runs are calm, and what joins it

\* What a worker is to store is never that the step is pending.
OutcomeStored(j) == j.step = "store" => j.result # "pending"

\* A checksum task leaves with its file linked, or finds no file; the task of
\* a step leaves with its status written, or finds no file.
Answered(t) ==
  /\ t.kind \in Steps /\ assets'[t.asset][t.kind] # "pending"
  /\ t.kind = "thumbnail" /\ assets'[t.asset]["clip"] = "pending" =>
       \E u \in Load' : Claims(u, "clip", t.asset)
Losable(t) ==
  \/ t.kind = "index"
  \/ t.kind = "checksum" /\ (fs[t.path] = None \/ files'[t.path].asset # None)
  \/ t.kind \in Steps /\ LiveFiles(t.asset) = {}
  \/ Answered(t)

\* Only the walk brings checksum tasks, for rows that are not linked.
Unlinked ==
  \/ walk.batch # {}
  \/ \E p \in Paths : /\ walk.snapshot[p] # None /\ ~walk.snapshot[p].offline
                      /\ walk.snapshot[p].asset = None
Gainable(t) == t.kind \in Steps \/ (InWalk /\ Unlinked)

Flow(w) ==
  /\ \A t \in Load : t \in Load' \/ Losable(t)
  /\ \A t \in Load' : t \in Load \/ Gainable(t)
  /\ WalkAhead /\ ~WalkAhead' => Recover(w)
  /\ InWalk' => InWalk \/ TakeSnapshot(w)

LEMMA WalkFlow ==
  ASSUME NEW w \in Workers, \A v \in Workers \ {w} : job'[v] = job[v],
         \A i \in DOMAIN queue : \E k \in DOMAIN queue' : queue'[k] = queue[i],
         \/ Recover(w)
         \/ job[w].step \in {"snapshot", "visit", "flush"} => job'[w].step \in {"snapshot", "visit", "flush"},
         TakeSnapshot(w) \/ (job'[w].step \in {"visit", "flush"} => job[w].step \in {"visit", "flush"})
  PROVE  /\ WalkAhead /\ ~WalkAhead' => Recover(w)
         /\ InWalk' => InWalk \/ TakeSnapshot(w)
<1>1. WalkAhead /\ ~Recover(w) => WalkAhead'
  BY DEF WalkAhead
<1>2. InWalk' /\ ~TakeSnapshot(w) => InWalk
  BY DEF InWalk
<1> QED  BY <1>1, <1>2

LEMMA GoFlow ==
  ASSUME TypeInv, NEW w \in Workers, NEW j, job' = [job EXCEPT ![w] = j], queue' = queue,
         j.task = job[w].task, j.step # "push", job[w].step # "push",
         job[w].outbox \subseteq j.outbox,
         \A t \in j.outbox : t \in job[w].outbox \/ Gainable(t),
         \/ Recover(w)
         \/ job[w].step \in {"snapshot", "visit", "flush"} => j.step \in {"snapshot", "visit", "flush"},
         TakeSnapshot(w) \/ (j.step \in {"visit", "flush"} => job[w].step \in {"visit", "flush"})
  PROVE  Flow(w)
<1>1. /\ job'[w] = j /\ \A v \in Workers \ {w} : job'[v] = job[v]
      /\ \A t \in Task : t \in Load' <=> t \in Load \/ t \in j.outbox
  BY GoLoad
<1>2. /\ WalkAhead /\ ~WalkAhead' => Recover(w)
      /\ InWalk' => InWalk \/ TakeSnapshot(w)
  BY <1>1, WalkFlow
<1>3. Load \subseteq Task /\ Load' \subseteq Task /\ \A t \in Task : t \in job[w].outbox => t \in Load
  BY DEF Load, InLoad, HasLoad
<1> QED  BY <1>1, <1>2, <1>3 DEF Flow

LEMMA FinishFlow ==
  ASSUME TypeInv, NEW w \in Workers, Finish(w), queue' = queue, job[w].outbox = {},
         job[w].step = "push" \/ Losable(job[w].task),
         job[w].step \notin {"snapshot", "visit", "flush"}
  PROVE  Flow(w)
<1>1. /\ job'[w] = Idle /\ \A v \in Workers \ {w} : job'[v] = job[v]
      /\ Load' \subseteq Load
      /\ \A t \in Load : t \in Load' \/ (t = job[w].task /\ job[w].step # "push")
  BY FinishLoad
<1>2. /\ WalkAhead /\ ~WalkAhead' => Recover(w)
      /\ InWalk' => InWalk \/ TakeSnapshot(w)
  BY <1>1, WalkFlow, IdleJob
<1> QED  BY <1>1, <1>2 DEF Flow

LEMMA PopFlow == ASSUME TypeInv, NEW w \in Workers, Pop(w), ~ctxDone PROVE Flow(w)
<1>1. /\ Load' = Load
      /\ job'[w].task = Head(queue) /\ job'[w].step = FirstStep(Head(queue))
      /\ Head(queue) \in Task /\ Head(queue) = queue[1] /\ 1 \in DOMAIN queue
      /\ \A v \in Workers \ {w} : job'[v] = job[v]
  BY PopLoad
<1>2. job[w] = Idle  BY DEF Pop
<1>3. WalkAhead => WalkAhead'
  <2>1. ASSUME NEW i \in DOMAIN queue, queue[i].kind = "index" PROVE job'[w].step = "snapshot"
    <3>1. Len(queue) = 1 /\ queue \in Seq(Task)
      BY <2>1 DEF TypeInv, IndexAlone, TypeOK
    <3>2. i = 1
      BY <3>1
    <3> QED  BY <1>1, <2>1, <3>2 DEF FirstStep
  <2>2. ASSUME NEW v \in Workers, job[v].step \in {"snapshot", "visit", "flush"} PROVE job'[v] = job[v]
    BY <1>1, <1>2, <2>2, IdleJob
  <2> QED  BY <2>1, <2>2 DEF WalkAhead
<1>4. InWalk' => InWalk
  <2>1. job'[w].step \notin {"visit", "flush"}
    BY <1>1 DEF FirstStep, Task, Kinds, Steps
  <2> QED  BY <1>1, <2>1 DEF InWalk
<1> QED  BY <1>1, <1>3, <1>4 DEF Flow

LEMMA PushFlow == ASSUME TypeInv, NEW w \in Workers, PushOne(w) \/ EndPush(w) PROVE Flow(w)
<1>1. CASE PushOne(w)
  <2>1. /\ Load' = Load
        /\ job'[w].task = job[w].task /\ job'[w].step = job[w].step
        /\ \A v \in Workers \ {w} : job'[v] = job[v]
        /\ \A i \in DOMAIN queue : \E k \in DOMAIN queue' : queue'[k] = queue[i]
    BY <1>1, PushOneLoad
  <2> QED  BY <2>1, WalkFlow DEF Flow
<1>2. CASE EndPush(w)
  <2>1. Runs(w) /\ queue' = queue /\ job[w].outbox = {}
    BY <1>2, Running, IdleJob DEF EndPush
  <2>2. CASE Finish(w) /\ job[w].step # "flush"
    <3>1. job[w].step = "repush" => job[w].task.kind = "index"
      BY <2>1 DEF Runs, StepsOf, Kinds, Steps, WalkSteps
    <3> QED  BY <1>2, <2>1, <2>2, <3>1, FinishFlow DEF EndPush, Losable
  <2>3. CASE job[w].step = "flush" /\ Goto(w, "visit")
    <3> DEFINE j == [job[w] EXCEPT !.step = "visit"]
    <3>1. /\ job' = [job EXCEPT ![w] = j] /\ j.task = job[w].task /\ j.step = "visit"
          /\ j.outbox = job[w].outbox
      BY <2>1, <2>3 DEF Goto, Runs, JobType
    <3> HIDE DEF j
    <3> QED  BY <2>1, <2>3, <3>1, GoFlow
  <2> QED  BY <1>2, <2>2, <2>3 DEF EndPush
<1> QED  BY <1>1, <1>2

LEMMA ChecksumFlow ==
  ASSUME TypeInv, NEW w \in Workers, ReadChecksum(w) \/ LookupAsset(w) \/ InsertAsset(w)
  PROVE  Flow(w)
<1> USE DEF At
<1>1. /\ Runs(w) /\ job[w].task.kind = "checksum" /\ job[w].path = job[w].task.path
      /\ job[w].step \in {"read", "lookup", "insert"} /\ job[w].outbox = {} /\ queue' = queue
  BY Running, IdleJob DEF ReadChecksum, LookupAsset, InsertAsset, Runs
<1> DEFINE Goes(j) == /\ job' = [job EXCEPT ![w] = j] /\ j.task = job[w].task
                      /\ j.step \in {"lookup", "insert", "link"}
                      /\ \A t \in j.outbox : t.kind \in Steps
<1>2. ASSUME NEW j, Goes(j) PROVE Flow(w)
  BY <1>1, <1>2, GoFlow DEF Gainable
<1>3. CASE ReadChecksum(w)
  <2>1. CASE Finish(w) /\ fs[job[w].path] = None
    BY <1>1, <2>1, FinishFlow DEF Losable
  <2>2. CASE job' = [job EXCEPT ![w].step = "lookup", ![w].got = fs[job[w].path].content]
    <3> DEFINE j == [job[w] EXCEPT !.step = "lookup", !.got = fs[job[w].path].content]
    <3>1. Goes(j)
      BY <1>1, <2>2 DEF Runs, JobType
    <3> QED  BY <3>1, <1>2
  <2> QED  BY <1>3, <2>1, <2>2 DEF ReadChecksum
<1>4. CASE LookupAsset(w)
  <2> DEFINE s == IF assets[job[w].got] = None THEN "insert" ELSE "link"
             j == [job[w] EXCEPT !.step = s]
  <2>1. job' = [job EXCEPT ![w] = j]
    BY <1>4 DEF LookupAsset, Goto
  <2>2. Goes(j)
    BY <1>1, <2>1 DEF Runs, JobType
  <2> QED  BY <2>2, <1>2
<1>5. CASE InsertAsset(w)
  <2> DEFINE U == IF assets[job[w].got] = None THEN FirstTasks(job[w].path, job[w].got) ELSE {}
             j == [job[w] EXCEPT !.step = "link", !.outbox = U]
  <2>1. job' = [job EXCEPT ![w] = j]
    BY <1>5 DEF InsertAsset
  <2>2. j.task = job[w].task /\ j.step = "link" /\ j.outbox = U
    BY <1>1 DEF Runs, JobType
  <2>3. \A t \in U : t.kind \in Steps
    BY DEF FirstTasks, StepTask, Steps
  <2> HIDE DEF U, j
  <2>4. Goes(j)
    BY <2>1, <2>2, <2>3
  <2> QED  BY <2>4, <1>2
<1> QED  BY <1>3, <1>4, <1>5

LEMMA LinkAssetFlow == ASSUME TypeInv, NEW w \in Workers, LinkAsset(w) PROVE Flow(w)
<1> USE DEF At, LinkAsset
<1>1. /\ Runs(w) /\ job[w].task.kind = "checksum" /\ job[w].path = job[w].task.path
      /\ job[w].step = "link" /\ queue' = queue /\ TypeOK
      /\ job[w].path \in Paths /\ files[job[w].path] \in FileRow /\ job[w].got \in Contents
  BY Running, IdleJob DEF Runs, TypeInv
<1>2. files'[job[w].path].asset = job[w].got /\ job[w].got # None
  BY <1>1, PipelineAssumption DEF FileRow, TypeOK
<1> DEFINE j == [job[w] EXCEPT !.step = "push"]
<1>3. /\ job' = [job EXCEPT ![w] = j] /\ j.task = job[w].task /\ j.step = "push"
      /\ j.outbox = job[w].outbox
  BY <1>1 DEF Goto, Runs, JobType
<1> HIDE DEF j, LinkAsset
<1>4. /\ job'[w] = j /\ \A v \in Workers \ {w} : job'[v] = job[v]
      /\ \A t \in Task : /\ HasLoad(j, t) => t \in Load'
                         /\ t \in Load' => t \in Load \/ HasLoad(j, t)
                         /\ t \in Load => t \in Load' \/ HasLoad(job[w], t)
  BY <1>1, <1>3, LocalLoad
<1>5. \A t \in Task : HasLoad(job[w], t) => HasLoad(j, t) \/ t = job[w].task
  BY <1>3 DEF HasLoad
<1>6. \A t \in Task : HasLoad(j, t) => t \in Load
  BY <1>3 DEF HasLoad, Load, InLoad
<1>7. Losable(job[w].task)
  BY <1>1, <1>2 DEF Losable
<1>8. /\ WalkAhead /\ ~WalkAhead' => Recover(w)
      /\ InWalk' => InWalk \/ TakeSnapshot(w)
  BY <1>1, <1>3, <1>4, WalkFlow
<1>9. Load \subseteq Task /\ Load' \subseteq Task
  BY DEF Load
<1> QED  BY <1>4, <1>5, <1>6, <1>7, <1>8, <1>9 DEF Flow

\* A step of an asset on its way to the store step.
LEMMA StepFlow ==
  ASSUME TypeInv, CalmInv, calm # 0, NEW w \in Workers,
         FindFile(w) \/ WaitLoad(w) \/ ReadSource(w) \/ MakeThumbnail(w) \/ EndThumbnail(w)
  PROVE  Flow(w)
<1> USE DEF At
<1>1. /\ Runs(w) /\ job[w].task.kind \in Steps /\ queue' = queue
      /\ job[w].step \in {"live", "load", "read", "make", "made"} /\ job[w].outbox = {}
  BY Running, IdleJob DEF FindFile, WaitLoad, ReadSource, MakeThumbnail, EndThumbnail, Runs, Steps
<1> DEFINE Goes(j) == /\ job' = [job EXCEPT ![w] = j] /\ j.task = job[w].task
                      /\ j.step \in {"read", "make", "load", "made", "store"} /\ j.outbox = {}
<1>2. ASSUME NEW j, Goes(j) PROVE Flow(w)
  BY <1>1, <1>2, GoFlow
<1>3. CASE FindFile(w)
  <2>1. CASE LiveFiles(Asset(w)) = {}
    <3>1. Finish(w)  BY <1>3, <2>1 DEF FindFile
    <3> QED  BY <1>1, <2>1, <3>1, FinishFlow DEF Losable, Asset
  <2>2. CASE LiveFiles(Asset(w)) # {}
    <3> DEFINE s == CASE job[w].task.kind = "metadata" -> "read"
                      [] job[w].task.kind = "thumbnail" -> "make"
                      [] job[w].task.kind = "ocr" -> "load"
    <3>1. PICK p \in LiveFiles(Asset(w)) : job' = [job EXCEPT ![w].path = p, ![w].step = s]
      BY <1>3, <2>2 DEF FindFile
    <3>2. s \in {"read", "make", "load"}
      BY <1>3 DEF FindFile
    <3> HIDE DEF s
    <3> DEFINE j == [job[w] EXCEPT !.path = p, !.step = s]
    <3>3. job' = [job EXCEPT ![w] = j]
      BY <3>1
    <3>4. Goes(j)
      BY <1>1, <3>2, <3>3 DEF Runs, JobType
    <3> QED  BY <3>4, <1>2
  <2> QED  BY <2>1, <2>2
<1>4. CASE WaitLoad(w)
  <2> DEFINE j == [job[w] EXCEPT !.step = "read"]
  <2>1. job' = [job EXCEPT ![w] = j]
    BY <1>4 DEF WaitLoad, Goto, CalmInv
  <2>2. Goes(j)
    BY <1>1, <2>1 DEF Runs, JobType
  <2> QED  BY <2>2, <1>2
<1>5. CASE job' = [job EXCEPT ![w].step = "made"]
  <2> DEFINE j == [job[w] EXCEPT !.step = "made"]
  <2>1. Goes(j)
    BY <1>1, <1>5 DEF Runs, JobType
  <2> QED  BY <2>1, <1>2
<1>6. ASSUME NEW r, job' = [job EXCEPT ![w].step = "store", ![w].result = r] PROVE Flow(w)
  <2> DEFINE j == [job[w] EXCEPT !.step = "store", !.result = r]
  <2>1. Goes(j)
    BY <1>1, <1>6 DEF Runs, JobType
  <2> QED  BY <2>1, <1>2
<1> QED  BY <1>3, <1>4, <1>5, <1>6 DEF ReadSource, MakeThumbnail, EndThumbnail, Goto

\* What a task stores is the end of its step; the clip step of a thumbnail
\* that is done is in the outbox, unless it is done as well.
LEMMA StoreFlow ==
  ASSUME TypeInv, ClaimInv, NEW w \in Workers, OutcomeStored(job[w]), StoreResult(w)
  PROVE  Flow(w)
<1>1. /\ Runs(w) /\ TypeOK /\ queue' = queue /\ retry' = retry
      /\ Stores(w, job[w].task.asset, job[w].task.kind) /\ job[w].outbox = {}
  BY StoreEffect DEF Runs, Stores
<1> DEFINE t == job[w].task  c == t.asset  r == job[w].result  U == ClipAfter(t, r)
<1>2. t \in Task /\ t.kind \in Steps /\ job[w].step = "store" /\ assets'[c][t.kind] # "pending"
  BY <1>1 DEF Runs, Stores, OutcomeStored
<1>3. CASE Finish(w) /\ t.kind # "thumbnail"
  BY <1>1, <1>2, <1>3, FinishFlow DEF Losable, Answered
<1>4. CASE t.kind = "thumbnail" /\ job' = [job EXCEPT ![w].step = "push", ![w].outbox = U]
  <2> DEFINE j == [job[w] EXCEPT !.step = "push", !.outbox = U]
  <2>1. job' = [job EXCEPT ![w] = j] /\ j.step = "push" /\ j.outbox = U
    BY <1>1, <1>4 DEF Runs, JobType
  <2>2. \A u \in U : u \in Task /\ u.kind = "clip" /\ u.asset = c
    BY <1>1, <1>2 DEF ClipAfter, StepTask, Runs, JobType, Task, Kinds, Steps
  <2>3. assets'[c]["clip"] = "pending" => \E u \in U : Claims(u, "clip", c)
    <3>1. t.seen = assets[c]["clip"] /\ assets'[c]["clip"] = assets[c]["clip"]
      BY <1>1, <1>4, StoredWasDue DEF Due, Stores, Steps
    <3> QED  BY <2>2, <3>1 DEF ClipAfter, ShouldRun, Claims
  <2> HIDE DEF j, U
  <2>4. /\ job'[w] = j /\ \A v \in Workers \ {w} : job'[v] = job[v]
        /\ \A u \in Task : /\ HasLoad(j, u) => u \in Load'
                           /\ u \in Load' => u \in Load \/ HasLoad(j, u)
                           /\ u \in Load => u \in Load' \/ HasLoad(job[w], u)
    BY <1>1, <2>1, LocalLoad
  <2>5. \A u \in U : u \in Load'
    BY <2>1, <2>2, <2>4 DEF HasLoad
  <2>6. Losable(t)
    BY <1>2, <2>3, <2>5 DEF Losable, Answered
  <2>7. \A u \in Task : HasLoad(job[w], u) => u = t
    BY <1>1 DEF HasLoad
  <2>8. \A u \in Task : HasLoad(j, u) => u.kind \in Steps
    BY <2>1, <2>2 DEF HasLoad, Steps
  <2>9. /\ WalkAhead /\ ~WalkAhead' => Recover(w)
        /\ InWalk' => InWalk \/ TakeSnapshot(w)
    BY <1>1, <1>2, <2>1, <2>4, WalkFlow
  <2>10. Load \subseteq Task /\ Load' \subseteq Task
    BY DEF Load
  <2> HIDE DEF t
  <2> QED  BY <2>4, <2>6, <2>7, <2>8, <2>9, <2>10 DEF Flow, Gainable
<1> QED  BY <1>3, <1>4 DEF StoreResult

LEMMA VisitFlow ==
  ASSUME TypeInv, NEW w \in Workers, NEW p \in Paths, Visit(w, p)
  PROVE  Flow(w)
<1>1. /\ Runs(w) /\ job' = job /\ queue \in Seq(Task) /\ At(w, {"index"}, "visit") /\ InWalk
  BY Running, IdleJob DEF Visit, At, TypeInv, TypeOK, InWalk
<1>2. CASE queue' = queue
  <2>1. Load' = Load  BY <1>1, <1>2 DEF Load, InLoad
  <2> QED  BY <1>1, <1>2, <2>1 DEF Flow, WalkAhead, InWalk
<1>3. CASE VisitKnown(p) /\ walk.snapshot[p].asset = None /\ queue' = Insert(queue, ChecksumTask(p))
  <2>1. ChecksumTask(p) \in Task
    BY DEF ChecksumTask, Task, Kinds, Steps, Status
  <2>2. \A u : (\E i \in DOMAIN queue' : queue'[i] = u)
                 <=> u = ChecksumTask(p) \/ \E i \in DOMAIN queue : queue[i] = u
    <3>1. \A u : (\E i \in DOMAIN Insert(queue, ChecksumTask(p)) : Insert(queue, ChecksumTask(p))[i] = u)
                   <=> u = ChecksumTask(p) \/ \E i \in DOMAIN queue : queue[i] = u
      BY <1>1, <2>1, InsertAll
    <3> QED  BY <1>3, <3>1
  <2>3. \A u \in Task : u \in Load' <=> u \in Load \/ u = ChecksumTask(p)
    BY <1>1, <2>1, <2>2 DEF Load, InLoad
  <2>4. Unlinked
    BY <1>3 DEF VisitKnown, Unchanged, Unlinked
  <2>5. Load \subseteq Task /\ Load' \subseteq Task
    BY DEF Load
  <2>6. InWalk' <=> InWalk
    BY <1>1 DEF InWalk
  <2>7. WalkAhead'
    BY <1>1 DEF WalkAhead, At
  <2> QED  BY <1>1, <2>3, <2>4, <2>5, <2>6, <2>7 DEF Flow, Gainable
<1> QED  BY <1>2, <1>3 DEF Visit, VisitGone, VisitUnread, VisitKnown, VisitNew

LEMMA WalkStepFlow ==
  ASSUME TypeInv, NEW w \in Workers,
         TakeSnapshot(w) \/ Flush(w) \/ MarkOffline(w) \/ Recover(w)
  PROVE  Flow(w)
<1>1. /\ Runs(w) /\ queue' = queue /\ job[w].step \in {"snapshot", "visit"} /\ job[w].outbox = {}
  BY Running, IdleJob DEF TakeSnapshot, Flush, MarkOffline, Recover, At, Runs
<1>2. ASSUME NEW s \in {"visit", "flush", "repush"}, NEW U, \A t \in U : Gainable(t),
             s = "repush" => Recover(w), s = "visit" => TakeSnapshot(w), s = "flush" => InWalk,
             job' = [job EXCEPT ![w] = [job[w] EXCEPT !.step = s, !.outbox = U]]
      PROVE  Flow(w)
  <2> DEFINE j == [job[w] EXCEPT !.step = s, !.outbox = U]
  <2>1. j.task = job[w].task /\ j.step = s /\ j.outbox = U /\ job' = [job EXCEPT ![w] = j]
    BY <1>1, <1>2 DEF Runs, JobType
  <2> HIDE DEF j
  <2>2. s = "flush" => job[w].step = "visit" \/ TakeSnapshot(w)
    BY <1>1, <1>2 DEF TakeSnapshot, Flush, MarkOffline, Recover, At
  <2> QED  BY <1>1, <1>2, <2>1, <2>2, GoFlow
<1>3. CASE TakeSnapshot(w)
  <2>1. job' = [job EXCEPT ![w] = [job[w] EXCEPT !.step = "visit", !.outbox = {}]]
    BY <1>1, <1>3 DEF TakeSnapshot, Goto, Runs, JobType
  <2> DEFINE U == {}
  <2>2. \A t \in U : Gainable(t)
    OBVIOUS
  <2>3. job' = [job EXCEPT ![w] = [job[w] EXCEPT !.step = "visit", !.outbox = U]]
    BY <2>1
  <2> HIDE DEF U
  <2> QED  BY <1>2, <1>3, <2>2, <2>3
<1>4. CASE Flush(w)
  <2> DEFINE U == {ChecksumTask(b.path) : b \in {x \in walk.batch : x.row.asset = None}}
  <2>1. job' = [job EXCEPT ![w] = [job[w] EXCEPT !.step = "flush", !.outbox = U]]
    BY <1>4 DEF Flush
  <2>2. InWalk /\ Unlinked
    BY <1>4 DEF Flush, At, InWalk, Unlinked
  <2> HIDE DEF U
  <2> QED  BY <1>2, <2>1, <2>2 DEF Gainable
<1>5. CASE MarkOffline(w)
  <2>1. job' = job  BY <1>5 DEF MarkOffline
  <2> QED  BY <1>1, <2>1 DEF Flow, Load, InLoad, WalkAhead, InWalk
<1>6. CASE Recover(w)
  <2> DEFINE U == UNION {PendingTasks(c) : c \in Recoverable}
  <2>1. job' = [job EXCEPT ![w] = [job[w] EXCEPT !.step = "repush", !.outbox = U]]
    BY <1>6 DEF Recover
  <2>2. \A t \in U : Gainable(t)
    BY DEF PendingTasks, StepTask, Gainable
  <2> HIDE DEF U
  <2> QED  BY <1>2, <1>6, <2>1, <2>2
<1> QED  BY <1>3, <1>4, <1>5, <1>6

LEMMA WorkFlow ==
  ASSUME TypeInv, ClaimInv, CalmInv, calm # 0, NEW w \in Workers, OutcomeStored(job[w]), Work(w)
  PROVE  Flow(w)
<1>1. CASE Pop(w)
  BY <1>1, PopFlow DEF Pop, CalmInv
<1>2. CASE ~Pop(w)
  BY <1>2, PushFlow, ChecksumFlow, LinkAssetFlow, StepFlow, StoreFlow, VisitFlow, WalkStepFlow DEF Work
<1> QED  BY <1>1, <1>2

-----------------------------------------------------------------------------
\* What a worker's step changes

\* The worker's own job only, and of the files table and the walk nothing
\* but by the steps that say so.
LEMMA OwnJob ==
  ASSUME TypeInv, NEW w \in Workers, Work(w) \/ GiveUp(w)
  PROVE  \A v \in Workers \ {w} : job'[v] = job[v]
<1>1. job \in [Workers -> JobType]
  BY DEF TypeInv, TypeOK
<1>2. job' = job \/ \E j : job' = [job EXCEPT ![w] = j]
  BY DEF Work, GiveUp, Pop, PushOne, EndPush, TakeSnapshot, Visit, Flush, MarkOffline, Recover,
     ReadChecksum, LookupAsset, InsertAsset, LinkAsset, FindFile, WaitLoad, ReadSource,
     MakeThumbnail, EndThumbnail, StoreResult, Set, Goto, Finish
<1> QED  BY <1>1, <1>2

LEMMA FilesChange ==
  ASSUME NEW w \in Workers, Work(w) \/ GiveUp(w), files' # files
  PROVE  Flush(w) \/ MarkOffline(w) \/ LinkAsset(w)
BY DEF Work, GiveUp, Pop, PushOne, EndPush, TakeSnapshot, Visit, Recover, ReadChecksum, LookupAsset,
   InsertAsset, FindFile, WaitLoad, ReadSource, MakeThumbnail, EndThumbnail, StoreResult, db

LEMMA AssetsStay ==
  ASSUME TypeInv, [Next]_vars, NEW c \in Contents, assets[c] # None
  PROVE  assets'[c] # None
<1> SUFFICES ASSUME assets' # assets PROVE assets'[c] # None
  OBVIOUS
<1>1. PICK w \in Workers : InsertAsset(w) \/ StoreResult(w)
  BY AssetChanges
<1>2. CASE InsertAsset(w)
  BY <1>2, InsertEffects
<1>3. CASE StoreResult(w)
  BY <1>3, StoreEffect, PipelineAssumption DEF Stores
<1> QED  BY <1>1, <1>2, <1>3

\* Where a worker gets to.
Reaches(w) ==
  /\ job'[w].step \in {"visit", "flush"} => job[w].step \in {"visit", "flush"} \/ TakeSnapshot(w)
  /\ job'[w].step = "link" =>
       \/ job' = job
       \/ job'[w].got = job[w].got /\ job[w].got \in Contents /\ assets'[job[w].got] # None
  /\ OutcomeStored(job[w]) => OutcomeStored(job'[w])

LEMMA PopReaches == ASSUME TypeInv, NEW w \in Workers, Pop(w) PROVE Reaches(w)
<1>1. CASE ctxDone
  BY <1>1 DEF Pop, Reaches, OutcomeStored
<1>2. CASE ~ctxDone
  <2> DEFINE t == Head(queue)
             j == [Idle EXCEPT !.task = t, !.step = FirstStep(t), !.path = t.path, !.result = FirstResult(t)]
  <2>1. job \in [Workers -> JobType] /\ t \in Task
    BY TailRange DEF TypeInv, TypeOK, Pop
  <2>2. j.step = FirstStep(t) /\ j.result = FirstResult(t)
    BY DEF Idle
  <2>3. job'[w] = j
    BY <1>2, <2>1 DEF Pop, Set
  <2> HIDE DEF t, j
  <2>4. FirstStep(t) \notin {"visit", "flush", "link"}
    BY <2>1 DEF FirstStep, Task, Kinds, Steps
  <2>5. FirstStep(t) = "store" => FirstResult(t) # "pending"
    BY <2>1 DEF FirstStep, FirstResult, Task, Kinds, Steps
  <2> QED  BY <2>2, <2>3, <2>4, <2>5 DEF Reaches, OutcomeStored
<1> QED  BY <1>1, <1>2

LEMMA ChecksumReaches ==
  ASSUME TypeInv, NEW w \in Workers, ReadChecksum(w) \/ LookupAsset(w) \/ InsertAsset(w) \/ LinkAsset(w)
  PROVE  Reaches(w)
<1> USE DEF At, Reaches, OutcomeStored
<1>1. /\ Runs(w) /\ job \in [Workers -> JobType] /\ assets \in [Contents -> AssetRow \cup {None}]
      /\ job[w].step \in {"read", "lookup", "insert", "link"}
      /\ job[w].step # "read" => job[w].got \in Contents
  BY Running, IdleJob DEF ReadChecksum, LookupAsset, InsertAsset, LinkAsset, Runs, TypeInv, TypeOK
<1>2. CASE ReadChecksum(w)
  BY <1>1, <1>2, IdleJob DEF ReadChecksum, Finish, JobType, Runs
<1>3. CASE LookupAsset(w)
  BY <1>1, <1>3 DEF LookupAsset, Goto, JobType, Runs, db
<1>4. CASE InsertAsset(w)
  <2>1. assets'[job[w].got] # None
    <3>1. NewAsset # None
      BY PipelineAssumption DEF NewAsset, AssetRow, Status
    <3> QED  BY <1>1, <1>4, <3>1 DEF InsertAsset
  <2>2. job'[w].step = "link" /\ job'[w].got = job[w].got
    BY <1>1, <1>4 DEF InsertAsset, JobType, Runs
  <2> QED  BY <1>1, <1>4, <2>1, <2>2 DEF InsertAsset
<1>5. CASE LinkAsset(w)
  BY <1>1, <1>5 DEF LinkAsset, Goto, JobType, Runs
<1> QED  BY <1>2, <1>3, <1>4, <1>5

LEMMA StepReaches ==
  ASSUME TypeInv, NEW w \in Workers,
         \/ FindFile(w) \/ WaitLoad(w) \/ ReadSource(w) \/ MakeThumbnail(w) \/ EndThumbnail(w)
         \/ StoreResult(w)
  PROVE  Reaches(w)
<1> USE DEF At, Reaches, OutcomeStored
<1>1. /\ Runs(w) /\ job \in [Workers -> JobType]
      /\ job[w].step \in {"live", "load", "read", "make", "made", "store"}
  BY Running, IdleJob
     DEF FindFile, WaitLoad, ReadSource, MakeThumbnail, EndThumbnail, StoreResult, Runs, TypeInv, TypeOK
<1>2. CASE job'[w].step \in {"idle", "push", "read", "made", "make", "load"}
  BY <1>2
<1>3. CASE FindFile(w)
  <2>1. CASE Finish(w)
    BY <1>1, <2>1, IdleJob DEF Finish
  <2>2. CASE ~Finish(w)
    <3> DEFINE s == CASE job[w].task.kind = "metadata" -> "read"
                      [] job[w].task.kind = "thumbnail" -> "make"
                      [] job[w].task.kind = "ocr" -> "load"
    <3>1. PICK p \in LiveFiles(Asset(w)) : job' = [job EXCEPT ![w].path = p, ![w].step = s]
      BY <1>3, <2>2 DEF FindFile
    <3>2. s \in {"read", "make", "load"}
      BY <1>3 DEF FindFile
    <3> HIDE DEF s
    <3> QED  BY <1>1, <3>1, <3>2 DEF JobType, Runs
  <2> QED  BY <2>1, <2>2
<1>4. CASE WaitLoad(w)
  BY <1>1, <1>4, IdleJob DEF WaitLoad, Goto, Finish, JobType, Runs
<1>5. ASSUME NEW r, r # "pending", job' = [job EXCEPT ![w].step = "store", ![w].result = r]
      PROVE  Reaches(w)
  BY <1>1, <1>5 DEF JobType, Runs
<1>6. CASE ReadSource(w) \/ EndThumbnail(w)
  BY <1>5, <1>6 DEF ReadSource, EndThumbnail, Outcomes
<1>7. CASE MakeThumbnail(w)
  <2>1. CASE fs[job[w].path] = None
    BY <1>5, <1>7, <2>1 DEF MakeThumbnail
  <2>2. CASE fs[job[w].path] # None
    BY <1>1, <1>7, <2>2 DEF MakeThumbnail, Goto, JobType, Runs
  <2> QED  BY <2>1, <2>2
<1>8. CASE StoreResult(w)
  <2>1. CASE Finish(w)
    BY <1>1, <2>1, IdleJob DEF Finish
  <2>2. ASSUME NEW U, job' = [job EXCEPT ![w].step = "push", ![w].outbox = U] PROVE Reaches(w)
    BY <1>1, <2>2 DEF JobType, Runs
  <2> QED  BY <1>8, <2>1, <2>2 DEF StoreResult
<1> QED  BY <1>3, <1>4, <1>6, <1>7, <1>8

LEMMA WalkReaches ==
  ASSUME TypeInv, NEW w \in Workers,
         \/ PushOne(w) \/ EndPush(w) \/ TakeSnapshot(w) \/ (\E p \in Paths : Visit(w, p))
         \/ Flush(w) \/ MarkOffline(w) \/ Recover(w)
  PROVE  Reaches(w)
<1> USE DEF At, Reaches, OutcomeStored
<1>1. /\ Runs(w) /\ job \in [Workers -> JobType]
      /\ job[w].step \in {"push", "flush", "repush", "snapshot", "visit"}
  BY Running, IdleJob
     DEF PushOne, EndPush, TakeSnapshot, Visit, Flush, MarkOffline, Recover, TypeInv, TypeOK
<1>2. CASE PushOne(w)
  BY <1>1, <1>2, PushOneLoad
<1>3. CASE EndPush(w)
  BY <1>1, <1>3, IdleJob DEF EndPush, Goto, Finish, JobType, Runs
<1>4. CASE TakeSnapshot(w)
  BY <1>1, <1>4 DEF TakeSnapshot, Goto, JobType, Runs
<1>5. CASE job' = job
  BY <1>5
<1>6. ASSUME NEW U, NEW s \in {"flush", "repush"}, s = "flush" => job[w].step = "visit",
             job' = [job EXCEPT ![w].step = s, ![w].outbox = U]
      PROVE  Reaches(w)
  BY <1>1, <1>6 DEF JobType, Runs
<1>7. CASE Flush(w) \/ Recover(w)
  BY <1>6, <1>7 DEF Flush, Recover
<1> QED  BY <1>2, <1>3, <1>4, <1>5, <1>7 DEF Visit, MarkOffline

LEMMA WorkReaches == ASSUME TypeInv, NEW w \in Workers, Work(w) \/ GiveUp(w) PROVE Reaches(w)
<1>1. CASE Work(w)
  BY <1>1, PopReaches, ChecksumReaches, StepReaches, WalkReaches DEF Work
<1>2. CASE GiveUp(w)
  <2>1. job'[w] = Idle
    BY <1>2 DEF GiveUp, Finish, TypeInv, TypeOK
  <2> QED  BY <2>1, IdleJob DEF Reaches, OutcomeStored
<1> QED  BY <1>1, <1>2

\* A worker whose walk ends is the only one that walks.
LEMMA WalkChange ==
  ASSUME TypeInv, NEW w \in Workers, Work(w) \/ GiveUp(w), InWalk',
         ~TakeSnapshot(w), \A p \in Paths : ~Visit(w, p), ~Flush(w), ~MarkOffline(w)
  PROVE  walk' = walk /\ InWalk
<1>1. \A v \in Workers \ {w} : job'[v] = job[v]
  BY OwnJob
<1>2. job[w].step \in WalkSteps /\ job'[w].step \notin WalkSteps => ~InWalk'
  BY <1>1 DEF TypeInv, IndexAlone, InWalk, WalkSteps
<1>3. CASE GiveUp(w)
  <2>1. Runs(w) /\ job'[w] = Idle
    BY <1>3, Running, IdleJob DEF GiveUp, StatementSteps, At, Finish, TypeInv, TypeOK
  <2>2. walk' = walk \/ job[w].step \in WalkSteps
    BY <1>3, <2>1 DEF GiveUp, Runs, StepsOf
  <2> QED  BY <1>1, <1>2, <2>1, <2>2, IdleJob DEF InWalk, WalkSteps
<1>4. CASE EndPush(w)
  <2>1. Runs(w) /\ job \in [Workers -> JobType]
    BY <1>4, Running, IdleJob DEF EndPush, TypeInv, TypeOK
  <2>2. CASE job[w].step = "flush"
    BY <1>4, <2>2 DEF EndPush, InWalk
  <2>3. CASE job[w].step # "flush"
    <3>1. job'[w] = Idle
      BY <1>4, <2>1, <2>3 DEF EndPush, Finish
    <3> QED  BY <1>1, <1>2, <1>4, <2>3, <3>1, IdleJob DEF EndPush, InWalk, WalkSteps
  <2> QED  BY <2>2, <2>3
<1>5. CASE Work(w) /\ ~EndPush(w)
  <2>1. walk' = walk
    BY <1>5 DEF Work, Pop, PushOne, Recover, ReadChecksum, LookupAsset, InsertAsset, LinkAsset,
       FindFile, WaitLoad, ReadSource, MakeThumbnail, EndThumbnail, StoreResult
  <2> QED  BY <1>1, <2>1, WorkReaches DEF InWalk, Reaches
<1> QED  BY <1>3, <1>4, <1>5

\* The steps that are no worker's.
LEMMA OtherSteps ==
  ASSUME TypeInv, [Next]_vars, ~ \E w \in Workers : Work(w) \/ GiveUp(w)
  PROVE  /\ files' = files /\ assets' = assets
         /\ job' = job \/ \A w \in Workers : job'[w] = Idle
         /\ calm' = 0 \/ (walk' = walk /\ job' = job /\ fs' = fs)
         /\ walk' = walk \/ \A w \in Workers : job'[w] = Idle
         /\ \/ calm' = 0
            \/ calm' = calm /\ loaded' = loaded /\ ctxDone' = ctxDone /\ queue' = queue /\ (up' => up)
            \/ \E r \in Retries, l \in BOOLEAN : Start(r, l)
BY DEF Next, Edit, WriteFile, MoveFile, RemoveFile, Edited, Start, Cancel, Stop, Crash, vars, env, db,
       process, history

-----------------------------------------------------------------------------
\* What is stored is an outcome, and links are to assets

StoreInv == \A w \in Workers : OutcomeStored(job[w])

LEMMA NextStore == ASSUME TypeInv, StoreInv, [Next]_vars PROVE StoreInv'
<1>1. ASSUME NEW w \in Workers, Work(w) \/ GiveUp(w) PROVE StoreInv'
  BY <1>1, OwnJob, WorkReaches DEF StoreInv, Reaches, OutcomeStored
<1>2. CASE ~ \E w \in Workers : Work(w) \/ GiveUp(w)
  BY <1>2, OtherSteps, IdleJob DEF StoreInv, OutcomeStored
<1> QED  BY <1>1, <1>2

LEMMA StoreInvariant == Spec => []StoreInv
<1>1. Init => StoreInv
  BY IdleJob DEF Init, StoreInv, OutcomeStored
<1> QED  BY <1>1, NextStore, TypeInvariant, PTL DEF Spec

LEMMA RowStays ==
  ASSUME TypeInv, [Next]_vars, NEW row \in FileRow \cup {None}, RowOK(row, assets)
  PROVE  RowOK(row, assets')
<1> SUFFICES ASSUME row # None, row.asset # None PROVE assets'[row.asset] # None
  BY DEF RowOK
<1>1. row.asset \in Contents /\ assets[row.asset] # None
  BY DEF FileRow, RowOK
<1> QED  BY <1>1, AssetsStay

LEMMA FlushRows == ASSUME TypeInv, RowInv, NEW w \in Workers, Flush(w), NEW p \in Paths PROVE RowOK(files'[p], assets)
<1>1. InWalk
  BY DEF Flush, At, InWalk
<1>2. CASE \E b \in walk.batch : b.path = p
  <2> DEFINE b == CHOOSE x \in walk.batch : x.path = p
  <2>1. b \in walk.batch
    BY <1>2
  <2>2. files'[p] = b.row
    BY <1>2 DEF Flush
  <2> QED  BY <1>1, <2>1, <2>2 DEF RowInv
<1>3. CASE ~ \E b \in walk.batch : b.path = p
  BY <1>3 DEF Flush, RowInv
<1> QED  BY <1>2, <1>3

LEMMA MarkOfflineRows ==
  ASSUME TypeInv, RowInv, NEW w \in Workers, MarkOffline(w), NEW p \in Paths
  PROVE  RowOK(files'[p], assets)
<1>1. DataOK /\ SnapshotOK(walk.snapshot, files)
  BY Visiting DEF MarkOffline
<1>2. files'[p] = files[p] \/ (p \in Missing /\ files'[p] = [files[p] EXCEPT !.offline = TRUE])
  BY DEF MarkOffline
<1>3. CASE p \in Missing /\ files'[p] = [files[p] EXCEPT !.offline = TRUE]
  <2>1. files[p] \in FileRow /\ files[p] # None
    BY <1>1, <1>3 DEF Missing, SnapshotOK, DataOK
  <2>2. files'[p].asset = files[p].asset
    BY <1>3, <2>1 DEF FileRow
  <2> QED  BY <2>1, <2>2 DEF RowInv, RowOK
<1> QED  BY <1>2, <1>3 DEF RowInv

LEMMA LinkAssetRows ==
  ASSUME TypeInv, RowInv, NEW w \in Workers, LinkAsset(w), NEW p \in Paths
  PROVE  RowOK(files'[p], assets)
<1>1. /\ Runs(w) /\ TypeOK /\ job[w].path \in Paths /\ files[job[w].path] \in FileRow
  BY Running, IdleJob DEF LinkAsset, At, Runs, TypeInv
<1>2. CASE p = job[w].path
  <2>1. files'[p].asset = job[w].got
    BY <1>1, <1>2 DEF LinkAsset, TypeOK, FileRow
  <2>2. assets[job[w].got] # None
    BY DEF LinkAsset, At, RowInv
  <2> QED  BY <2>1, <2>2 DEF RowOK
<1>3. CASE p # job[w].path
  BY <1>1, <1>3 DEF LinkAsset, TypeOK, RowInv
<1> QED  BY <1>2, <1>3

\* The rows of a walk: those it read, and those it is to write.
LEMMA VisitRows ==
  ASSUME TypeInv, RowInv, NEW w \in Workers, NEW p \in Paths, Visit(w, p)
  PROVE  walk'.snapshot = walk.snapshot /\ \A b \in walk'.batch : RowOK(b.row, assets)
<1>1. DataOK /\ InWalk
  BY Visiting DEF Visit, At, InWalk
<1>2. CASE VisitGone(p) \/ VisitUnread(p) \/ VisitKnown(p)
  BY <1>1, <1>2 DEF VisitGone, VisitUnread, VisitKnown, DataOK, WalkType, RowInv
<1>3. CASE VisitNew(p)
  <2>1. PICK a \in KnownAssets(fs[p]) :
          walk' = [walk EXCEPT !.todo = @ \ {p}, !.seen = @ \cup {p},
                     !.batch = @ \cup {[path |-> p, row |-> [asset |-> a, stamp |-> fs[p].stamp,
                                                             offline |-> FALSE]]}]
    BY <1>3 DEF VisitNew
  <2> DEFINE b == [path |-> p, row |-> [asset |-> a, stamp |-> fs[p].stamp, offline |-> FALSE]]
  <2>2. walk'.snapshot = walk.snapshot /\ walk'.batch = walk.batch \cup {b}
    BY <1>1, <2>1 DEF DataOK, WalkType
  <2>3. a = None \/ assets[a] # None
    BY <1>1 DEF KnownAssets, RowInv, RowOK
  <2>4. RowOK(b.row, assets)
    BY <2>3 DEF RowOK
  <2> HIDE DEF b
  <2> QED  BY <1>1, <2>2, <2>4 DEF RowInv
<1> QED  BY <1>2, <1>3 DEF Visit

LEMMA NextRows == ASSUME TypeInv, RowInv, [Next]_vars PROVE RowInv'
<1>1. TypeOK /\ TypeOK'
  BY NextType DEF TypeInv
<1>2. ASSUME NEW p \in Paths PROVE RowOK(files'[p], assets')
  <2>1. RowOK(files'[p], assets)
    <3>1. CASE files' = files
      BY <3>1 DEF RowInv
    <3>2. CASE files' # files
      <4>1. PICK w \in Workers : Work(w) \/ GiveUp(w)
        BY <3>2, OtherSteps
      <4> QED  BY <3>2, <4>1, FilesChange, FlushRows, MarkOfflineRows, LinkAssetRows
    <3> QED  BY <3>1, <3>2
  <2>2. CASE files'[p] # None
    BY <1>1, <2>1, <2>2, RowStays DEF TypeOK
  <2> QED  BY <2>2 DEF RowOK
<1>3. ASSUME InWalk'
      PROVE  /\ \A p \in Paths : RowOK(walk'.snapshot[p], assets')
             /\ \A b \in walk'.batch : RowOK(b.row, assets')
  <2>1. /\ walk'.snapshot \in [Paths -> FileRow \cup {None}]
        /\ walk'.batch \in SUBSET [path : Paths, row : FileRow]
    BY <1>1, <1>3, NextType DEF TypeInv, Walking, AloneInWalk, InWalk, TypeOK, WalkType
  <2>2. /\ \A p \in Paths : RowOK(walk'.snapshot[p], assets)
        /\ \A b \in walk'.batch : RowOK(b.row, assets)
    <3>1. CASE walk' = walk /\ InWalk
      BY <3>1 DEF RowInv
    <3>2. CASE \E w \in Workers : TakeSnapshot(w)
      BY <3>2 DEF TakeSnapshot, NoWalk, RowInv
    <3>3. CASE \E w \in Workers, p \in Paths : Visit(w, p)
      <4>1. InWalk  BY <3>3 DEF Visit, At, InWalk
      <4> QED  BY <3>3, <4>1, VisitRows DEF RowInv
    <3>4. ASSUME NEW w \in Workers, Flush(w) \/ MarkOffline(w)
          PROVE  InWalk /\ walk'.snapshot = walk.snapshot /\ walk'.batch \subseteq walk.batch
      BY <1>1, <3>4 DEF Flush, MarkOffline, At, InWalk, TypeOK, WalkType
    <3>5. CASE ~ \E w \in Workers : Work(w) \/ GiveUp(w)
      BY <1>3, <3>1, <3>5, OtherSteps, IdleJob DEF InWalk
    <3>6. ASSUME NEW w \in Workers, Work(w) \/ GiveUp(w)
          PROVE  \/ walk' = walk /\ InWalk
                 \/ TakeSnapshot(w) \/ (\E p \in Paths : Visit(w, p)) \/ Flush(w) \/ MarkOffline(w)
      BY <1>3, <3>6, WalkChange
    <3> QED  BY <3>1, <3>2, <3>3, <3>4, <3>5, <3>6 DEF RowInv
  <2> QED  BY <2>1, <2>2, RowStays
<1>4. ASSUME NEW v \in Workers, job'[v].step = "link" PROVE assets'[job'[v].got] # None
  <2>1. CASE job'[v] = job[v]
    <3>1. Runs(v) /\ job[v].got \in Contents
      BY <1>4, <2>1, Running, IdleJob DEF Runs, StepsOf, Kinds, Steps, WalkSteps
    <3> QED  BY <1>4, <2>1, <3>1, AssetsStay DEF RowInv
  <2>2. CASE job'[v] # job[v]
    <3>1. PICK w \in Workers : Work(w) \/ GiveUp(w)
      BY <1>4, <2>2, OtherSteps, IdleJob
    <3>2. v = w
      BY <2>2, <3>1, OwnJob
    <3> QED  BY <1>4, <2>2, <3>1, <3>2, WorkReaches DEF Reaches
  <2> QED  BY <2>1, <2>2
<1> QED  BY <1>2, <1>3, <1>4 DEF RowInv

LEMMA RowInvariant == Spec => []RowInv
<1>1. Init => RowInv
  BY IdleJob DEF Init, RowInv, RowOK, InWalk
<1> QED  BY <1>1, NextRows, TypeInvariant, PTL DEF Spec

-----------------------------------------------------------------------------
\* A calm run has loaded its models and is not canceled

LEMMA WorkCalm ==
  ASSUME NEW w \in Workers, Work(w) \/ GiveUp(w), calm' # 0
  PROVE  /\ Work(w) /\ calm' = calm /\ loaded' = loaded /\ ctxDone' = ctxDone /\ up' = up
         /\ fs' = fs /\ retry' = retry
BY DEF Work, GiveUp, Pop, PushOne, EndPush, TakeSnapshot, Visit, Flush, MarkOffline, Recover,
   ReadChecksum, LookupAsset, InsertAsset, LinkAsset, FindFile, WaitLoad, ReadSource,
   MakeThumbnail, EndThumbnail, StoreResult, env, process, history

LEMMA NextCalm == ASSUME TypeInv, CalmInv, [Next]_vars PROVE CalmInv'
<1>1. ASSUME NEW w \in Workers, Work(w) \/ GiveUp(w) PROVE CalmInv'
  BY <1>1, WorkCalm DEF CalmInv
<1>2. ASSUME NEW r \in Retries, NEW l \in BOOLEAN, Start(r, l) PROVE CalmInv'
  BY <1>2 DEF Start, CalmInv
<1>3. CASE ~ \E w \in Workers : Work(w) \/ GiveUp(w)
  BY <1>2, <1>3, OtherSteps DEF CalmInv
<1> QED  BY <1>1, <1>3

LEMMA CalmInvariant == Spec => []CalmInv
<1>1. Init => CalmInv
  BY DEF Init, CalmInv
<1> QED  BY <1>1, NextCalm, TypeInvariant, PTL DEF Spec

-----------------------------------------------------------------------------
\* The first calm run visits every path and links every file

\* A row that stays what it was for its file, or is linked.
RowKept(p) ==
  /\ Online(p)' <=> Online(p)
  /\ Online(p) => /\ files'[p].stamp = files[p].stamp
                  /\ files[p].asset # None => files'[p].asset # None

LEMMA KeptChecked ==
  ASSUME NEW w \in Workers, Flow(w), NEW p \in Paths, RowKept(p), fs' = fs, fs[p] # None, Checked(p)
  PROVE  Checked(p)'
<1>1. ASSUME files'[p].asset = None PROVE ChecksumTask(p) \in Load'
  <2>1. ChecksumTask(p) \in Load
    BY <1>1 DEF RowKept, Checked
  <2>2. ~Losable(ChecksumTask(p))
    BY <1>1 DEF Losable, Answered, ChecksumTask, Steps
  <2> QED  BY <2>1, <2>2 DEF Flow
<1> QED  BY <1>1 DEF RowKept, Checked, ChecksumTask

LEMMA LinkKeeps == ASSUME TypeInv, NEW w \in Workers, LinkAsset(w), NEW p \in Paths PROVE RowKept(p)
<1>1. /\ Runs(w) /\ TypeOK /\ job[w].path \in Paths /\ files[job[w].path] \in FileRow
      /\ job[w].got \in Contents
  BY Running, IdleJob DEF LinkAsset, At, Runs, TypeInv
<1>2. CASE p = job[w].path
  <2>1. files'[p] = [files[p] EXCEPT !.asset = job[w].got]
    BY <1>1, <1>2 DEF LinkAsset, TypeOK
  <2>2. files'[p] \in FileRow /\ files'[p].asset = job[w].got
        /\ files'[p].stamp = files[p].stamp /\ files'[p].offline = files[p].offline
    BY <1>1, <1>2, <2>1 DEF FileRow
  <2>3. files'[p] # None /\ files[p] # None /\ job[w].got # None
    BY <1>1, <1>2, <2>2, PipelineAssumption
  <2> QED  BY <2>2, <2>3 DEF RowKept, Online
<1>3. CASE p # job[w].path
  BY <1>1, <1>3 DEF LinkAsset, TypeOK, RowKept, Online
<1> QED  BY <1>2, <1>3

LEMMA SameKeeps == ASSUME NEW p \in Paths, files' = files PROVE RowKept(p)
BY DEF RowKept, Online

\* Once the walk is over the rows only get linked.
LEMMA SettledNext ==
  ASSUME TypeInv, FilesInv, calm # 0, NEW w \in Workers, Work(w), Flow(w), fs' = fs, ~WalkAhead'
  PROVE  \A p \in Paths : Settled(p)'
<1>1. CASE ~WalkAhead
  <2> SUFFICES ASSUME NEW p \in Paths PROVE Settled(p)'
    OBVIOUS
  <2>1. Settled(p)
    BY <1>1 DEF FilesInv
  <2>2. ~Flush(w) /\ ~MarkOffline(w)
    BY <1>1 DEF Flush, MarkOffline, At, WalkAhead
  <2>3. RowKept(p)
    BY <2>2, FilesChange, SameKeeps, LinkKeeps
  <2> QED  BY <2>1, <2>3, KeptChecked DEF Settled, RowKept
<1>2. CASE WalkAhead
  <2>1. Recover(w)
    BY <1>2 DEF Flow
  <2>2. InWalk /\ files' = files /\ walk.todo = {} /\ walk.batch = {} /\ Missing = {}
    BY <2>1 DEF Recover, At, InWalk, db
  <2> SUFFICES ASSUME NEW p \in Paths PROVE Settled(p)'
    OBVIOUS
  <2>3. Walked(p)
    BY <2>2 DEF FilesInv
  <2>4. CASE fs[p] # None
    <3>1. Checked(p)
      BY <2>2, <2>3, <2>4 DEF Walked, Batched
    <3> QED  BY <2>2, <2>4, <3>1, KeptChecked, SameKeeps DEF Settled
  <2>5. CASE fs[p] = None
    <3>1. ~Online(p)
      BY <2>2, <2>3, <2>5 DEF Walked, Missing, Online
    <3> QED  BY <2>2, <2>5, <3>1 DEF Settled, Online
  <2> QED  BY <2>4, <2>5
<1> QED  BY <1>1, <1>2

LEMMA VisitWalked ==
  ASSUME TypeInv, FilesInv, calm # 0, NEW w \in Workers, NEW q \in Paths, Visit(w, q), Flow(w), fs' = fs,
         calm' # 0, NEW p \in Paths
  PROVE  Walked(p)'
<1>1. DataOK /\ InWalk /\ files' = files /\ q \in walk.todo
  BY Visiting DEF Visit, At, InWalk, db
<1>2. Walked(p) /\ Walked(q)
  BY <1>1 DEF FilesInv
<1>3. (Checked(p) /\ fs[p] # None => Checked(p)') /\ (Online(p)' <=> Online(p))
  BY <1>1, KeptChecked, SameKeeps DEF Online
<1>4. /\ walk'.snapshot = walk.snapshot /\ walk'.todo = walk.todo \ {q}
      /\ \/ fs[q] = None /\ walk'.seen = walk.seen /\ walk'.batch = walk.batch
         \/ fs[q] # None /\ Unchanged(q) /\ walk'.seen = walk.seen \cup {q} /\ walk'.batch = walk.batch
            /\ (walk.snapshot[q].asset = None => queue' = Insert(queue, ChecksumTask(q)))
         \/ /\ fs[q] # None /\ walk'.seen = walk.seen \cup {q}
            /\ \E b : b.path = q /\ b.row.stamp = fs[q].stamp /\ ~b.row.offline
                        /\ walk'.batch = walk.batch \cup {b}
  <2>1. CASE VisitGone(q) \/ VisitKnown(q)
    BY <1>1, <2>1 DEF VisitGone, VisitKnown, DataOK, WalkType
  <2>2. CASE VisitNew(q)
    <3>1. PICK a \in KnownAssets(fs[q]) :
            walk' = [walk EXCEPT !.todo = @ \ {q}, !.seen = @ \cup {q},
                       !.batch = @ \cup {[path |-> q, row |-> [asset |-> a, stamp |-> fs[q].stamp,
                                                               offline |-> FALSE]]}]
      BY <2>2 DEF VisitNew
    <3> DEFINE b == [path |-> q, row |-> [asset |-> a, stamp |-> fs[q].stamp, offline |-> FALSE]]
    <3>2. /\ walk'.snapshot = walk.snapshot /\ walk'.todo = walk.todo \ {q}
          /\ walk'.seen = walk.seen \cup {q} /\ walk'.batch = walk.batch \cup {b}
      BY <1>1, <3>1 DEF DataOK, WalkType
    <3>3. b.path = q /\ b.row.stamp = fs[q].stamp /\ ~b.row.offline /\ fs[q] # None
      BY <2>2 DEF VisitNew
    <3> HIDE DEF b
    <3> QED  BY <3>2, <3>3
  <2> QED  BY <2>1, <2>2 DEF Visit
<1>5. CASE p # q
  BY <1>1, <1>2, <1>3, <1>4, <1>5 DEF Walked, Batched
<1>6. CASE p = q
  <2>1. files[q] = walk.snapshot[q] /\ ~Batched(q) /\ q \notin walk.seen
    BY <1>1, <1>2 DEF Walked
  <2>2. CASE fs[q] = None
    BY <1>1, <1>2, <1>3, <1>4, <1>6, <2>1, <2>2 DEF Walked, Batched
  <2>3. CASE fs[q] # None /\ walk'.batch = walk.batch /\ Unchanged(q) /\ q \in walk'.seen
             /\ (walk.snapshot[q].asset = None => queue' = Insert(queue, ChecksumTask(q)))
    <3>1. Online(q) /\ files[q].stamp = fs[q].stamp
      BY <2>1, <2>3 DEF Unchanged, Online
    <3>2. ASSUME files[q].asset = None PROVE ChecksumTask(q) \in Load'
      <4>1. ChecksumTask(q) \in Task
        BY DEF ChecksumTask, Task, Kinds, Steps, Status
      <4>2. \E i \in DOMAIN Insert(queue, ChecksumTask(q)) :
              Insert(queue, ChecksumTask(q))[i] = ChecksumTask(q)
        <5>1. queue \in Seq(Task)
          BY DEF TypeInv, TypeOK
        <5>2. \A u : (\E i \in DOMAIN Insert(queue, ChecksumTask(q)) :
                         Insert(queue, ChecksumTask(q))[i] = u)
                       <=> u = ChecksumTask(q) \/ \E i \in DOMAIN queue : queue[i] = u
          BY <4>1, <5>1, InsertAll
        <5> QED  BY <5>2
      <4>3. queue' = Insert(queue, ChecksumTask(q))
        BY <2>1, <2>3, <3>2
      <4> QED  BY <4>1, <4>2, <4>3 DEF Load, InLoad
    <3>3. Checked(q)'
      BY <1>1, <3>1, <3>2 DEF Checked, Online, ChecksumTask
    <3> QED  BY <1>1, <1>4, <1>6, <2>1, <2>3, <3>3 DEF Walked, Batched
  <2>4. CASE fs[q] # None /\ q \in walk'.seen
             /\ \E b : b.path = q /\ b.row.stamp = fs[q].stamp /\ ~b.row.offline
                         /\ walk'.batch = walk.batch \cup {b}
    <3>1. PICK b : b.path = q /\ b.row.stamp = fs[q].stamp /\ ~b.row.offline
                     /\ walk'.batch = walk.batch \cup {b}
      BY <2>4
    <3> QED  BY <1>4, <1>6, <2>1, <2>4, <3>1 DEF Walked, Batched
  <2> QED  BY <1>4, <2>2, <2>3, <2>4
<1> QED  BY <1>5, <1>6

\* What is flushed is checked: its file is linked, or its task is to be pushed.
LEMMA FlushWalked ==
  ASSUME TypeInv, FilesInv, calm # 0, NEW w \in Workers, Flush(w), Flow(w), fs' = fs,
         NEW p \in Paths
  PROVE  Walked(p)'
<1>1. DataOK /\ Runs(w) /\ InWalk
  BY Visiting DEF Flush, At, InWalk
<1>2. Walked(p)
  BY <1>1 DEF FilesInv
<1>3. /\ walk'.snapshot = walk.snapshot /\ walk'.todo = walk.todo /\ walk'.seen = walk.seen
      /\ walk'.batch = {}
  BY <1>1 DEF Flush, DataOK, WalkType
<1>4. ~Batched(p)'
  BY <1>3 DEF Batched
<1>5. CASE ~Batched(p)
  <2>1. files'[p] = files[p]
    BY <1>5 DEF Flush, Batched
  <2>2. RowKept(p) /\ (Online(p)' <=> Online(p))
    BY <2>1 DEF RowKept, Online
  <2>3. Checked(p) /\ fs[p] # None => Checked(p)'
    BY <2>2, KeptChecked
  <2> QED  BY <1>2, <1>3, <1>4, <1>5, <2>1, <2>2, <2>3 DEF Walked
<1>6. CASE Batched(p)
  <2> DEFINE b == CHOOSE x \in walk.batch : x.path = p
             U == {ChecksumTask(x.path) : x \in {y \in walk.batch : y.row.asset = None}}
  <2>1. b \in walk.batch /\ b.path = p
    BY <1>6 DEF Batched
  <2>2. files'[p] = b.row
    BY <1>6 DEF Flush, Batched
  <2>3. fs[p] # None /\ p \notin walk.todo /\ p \in walk.seen
    BY <1>2, <1>6 DEF Walked
  <2>4. b.row \in FileRow /\ b.row # None /\ b.row.stamp = fs[p].stamp /\ ~b.row.offline
    <3>1. b.row \in FileRow
      BY <1>1, <2>1 DEF DataOK, WalkType
    <3> QED  BY <1>2, <2>1, <2>3, <3>1, PipelineAssumption DEF Walked
  <2>5. ASSUME b.row.asset = None PROVE ChecksumTask(p) \in Load'
    <3>1. ChecksumTask(p) \in Task
      BY DEF ChecksumTask, Task, Kinds, Steps, Status
    <3>2. ChecksumTask(p) \in U
      BY <2>1, <2>5
    <3>3. job'[w].outbox = U
      BY <1>1 DEF Flush, TypeInv, TypeOK, JobType
    <3> QED  BY <3>1, <3>2, <3>3 DEF Load, InLoad, HasLoad
  <2> HIDE DEF b, U
  <2>6. Checked(p)'
    BY <2>2, <2>4, <2>5 DEF Checked, Online, ChecksumTask
  <2> QED  BY <1>3, <1>4, <2>3, <2>6 DEF Walked
<1> QED  BY <1>5, <1>6

LEMMA MarkOfflineWalked ==
  ASSUME TypeInv, FilesInv, calm # 0, NEW w \in Workers, MarkOffline(w), Flow(w), fs' = fs,
         NEW p \in Paths
  PROVE  Walked(p)'
<1>1. DataOK /\ InWalk /\ walk.todo = {} /\ SnapshotOK(walk.snapshot, files)
  BY Visiting DEF MarkOffline, At, InWalk
<1>2. Walked(p)
  BY <1>1 DEF FilesInv
<1>3. PICK chunk \in SUBSET Missing \ {{}} :
        /\ files' = [q \in Paths |-> IF q \in chunk THEN [files[q] EXCEPT !.offline = TRUE] ELSE files[q]]
        /\ walk' = [walk EXCEPT !.seen = @ \cup chunk]
  BY DEF MarkOffline
<1>4. /\ walk'.snapshot = walk.snapshot /\ walk'.todo = {} /\ walk'.batch = walk.batch
      /\ walk'.seen = walk.seen \cup chunk
  BY <1>1, <1>3 DEF DataOK, WalkType
<1>5. CASE p \in chunk
  <2>1. p \notin walk.seen /\ files[p] \in FileRow
    BY <1>1, <1>3, <1>5 DEF Missing, SnapshotOK, DataOK
  <2>2. fs[p] = None
    BY <1>1, <1>2, <2>1 DEF Walked
  <2>3. ~Online(p)'
    BY <1>3, <1>5, <2>1 DEF Online, FileRow
  <2> QED  BY <1>2, <1>4, <1>5, <2>2, <2>3 DEF Walked, Batched
<1>6. CASE p \notin chunk
  <2>1. files'[p] = files[p]
    BY <1>3, <1>6
  <2>2. RowKept(p) /\ (Online(p)' <=> Online(p))
    BY <2>1 DEF RowKept, Online
  <2>3. Checked(p) /\ fs[p] # None => Checked(p)'
    BY <2>2, KeptChecked
  <2> QED  BY <1>1, <1>2, <1>4, <1>6, <2>1, <2>2, <2>3 DEF Walked, Batched
<1> QED  BY <1>5, <1>6

LEMMA WalkedNext ==
  ASSUME TypeInv, FilesInv, calm # 0, calm' # 0, NEW w \in Workers, Work(w), Flow(w), fs' = fs, InWalk'
  PROVE  \A p \in Paths : Walked(p)'
<1> SUFFICES ASSUME NEW p \in Paths PROVE Walked(p)'
  OBVIOUS
<1>1. CASE TakeSnapshot(w)
  BY <1>1 DEF TakeSnapshot, NoWalk, Walked, Batched, db
<1>2. CASE walk' = walk /\ InWalk /\ ~Flush(w) /\ ~MarkOffline(w)
  <2>1. Walked(p)
    BY <1>2 DEF FilesInv
  <2>2. ~LinkAsset(w)
    <3>1. PICK v \in Workers : job[v].step \in {"visit", "flush"}
      BY <1>2 DEF InWalk
    <3>2. AloneInWalk(v)
      BY <3>1 DEF TypeInv, Walking
    <3> QED  BY <3>1, <3>2, IdleJob DEF AloneInWalk, LinkAsset, At
  <2>3. files' = files
    BY <1>2, <2>2, FilesChange
  <2>4. (Checked(p) /\ fs[p] # None => Checked(p)') /\ (Online(p)' <=> Online(p))
    BY <2>3, KeptChecked, SameKeeps DEF Online
  <2> QED  BY <1>2, <2>1, <2>3, <2>4 DEF Walked, Batched
<1> QED  BY <1>1, <1>2, WalkChange, VisitWalked, FlushWalked, MarkOfflineWalked

LEMMA NextFiles ==
  ASSUME TypeInv, ClaimInv, StoreInv, CalmInv, FilesInv, [Next]_vars
  PROVE  FilesInv'
<1>1. ASSUME NEW w \in Workers, Work(w) \/ GiveUp(w) PROVE FilesInv'
  <2> SUFFICES ASSUME calm' # 0
               PROVE  /\ ~WalkAhead' => \A p \in Paths : Settled(p)'
                      /\ InWalk' => \A p \in Paths : Walked(p)'
    BY DEF FilesInv
  <2>1. Work(w) /\ calm # 0 /\ fs' = fs
    BY <1>1, WorkCalm
  <2>2. Flow(w)
    BY <2>1, WorkFlow DEF StoreInv
  <2> QED  BY <2>1, <2>2, SettledNext, WalkedNext
<1>2. ASSUME NEW r \in Retries, NEW l \in BOOLEAN, Start(r, l) PROVE FilesInv'
  <2>1. \A v \in Workers : job'[v] = Idle
    BY <1>2 DEF Start, TypeInv, Down, Quiet
  <2>2. 1 \in DOMAIN queue' /\ queue'[1].kind = "index"
    BY <1>2 DEF Start, IndexTask
  <2> QED  BY <2>1, <2>2, IdleJob DEF FilesInv, WalkAhead, InWalk
<1>3. CASE ~ \E w \in Workers : Work(w) \/ GiveUp(w)
  <2> SUFFICES ASSUME calm' # 0, calm' = calm, queue' = queue PROVE FilesInv'
    BY <1>2, <1>3, OtherSteps DEF FilesInv
  <2>1. files' = files /\ job' = job /\ walk' = walk /\ fs' = fs
    BY <1>3, OtherSteps
  <2>2. Load' = Load /\ (WalkAhead' <=> WalkAhead) /\ (InWalk' <=> InWalk)
    BY <2>1 DEF Load, InLoad, WalkAhead, InWalk
  <2>3. \A p \in Paths : (Settled(p)' <=> Settled(p)) /\ (Walked(p)' <=> Walked(p))
    BY <2>1, <2>2 DEF Settled, Walked, Checked, Batched, Online, ChecksumTask
  <2> QED  BY <2>2, <2>3 DEF FilesInv
<1> QED  BY <1>1, <1>3

LEMMA FilesInvariant == Spec => []FilesInv
<1>1. Init => FilesInv
  BY DEF Init, FilesInv
<1> QED  BY <1>1, NextFiles, TypeInvariant, ClaimInvariant, StoreInvariant, CalmInvariant, PTL DEF Spec

-----------------------------------------------------------------------------
\* The second calm run finds the table as it should be

LEMMA QuietLoad == ASSUME Quiet PROVE Load = {} /\ ~WalkAhead /\ ~InWalk
BY IdleJob, PipelineAssumption DEF Quiet, Load, InLoad, HasLoad, WalkAhead, InWalk

\* It writes no row, and its walk brings no checksum task.
LEMMA DoneWork ==
  ASSUME TypeInv, FilesInv, DoneInv, calm = 2, NEW w \in Workers, Work(w), Flow(w)
  PROVE  /\ files' = files /\ ~Flush(w) /\ ~MarkOffline(w)
         /\ InWalk => ~Unlinked
<1>1. /\ \A p \in Paths : Linked(p)
      /\ \A t \in Load : t.kind # "checksum"
      /\ InWalk => walk.snapshot = files /\ walk.batch = {} /\ \A p \in Paths : Walked(p)
  BY DEF DoneInv, FilesInv
<1>2. ~Flush(w)
  BY <1>1 DEF Flush, At, InWalk
<1>3. ~MarkOffline(w)
  <2> SUFFICES ASSUME MarkOffline(w) PROVE FALSE
    OBVIOUS
  <2>1. InWalk /\ walk.todo = {} /\ Missing # {}
    BY DEF MarkOffline, At, InWalk
  <2>2. PICK p \in Paths : files[p] # None /\ ~files[p].offline /\ p \notin walk.seen
    BY <1>1, <2>1 DEF Missing
  <2>3. fs[p] # None
    BY <1>1, <2>2 DEF Linked, Online
  <2> QED  BY <1>1, <2>1, <2>2, <2>3 DEF Walked
<1>4. ~LinkAsset(w)
  <2> SUFFICES ASSUME LinkAsset(w) PROVE FALSE
    OBVIOUS
  <2>1. Runs(w) /\ job[w].task.kind = "checksum" /\ job[w].step = "link"
    BY Running, IdleJob DEF LinkAsset, At
  <2>2. job[w].task \in Load
    BY <2>1 DEF Runs, Load, InLoad, HasLoad
  <2> QED  BY <1>1, <2>1, <2>2
<1>5. InWalk => ~Unlinked
  BY <1>1 DEF Unlinked, Linked, Online
<1> QED  BY <1>2, <1>3, <1>4, <1>5, FilesChange

LEMMA DoneWalk ==
  ASSUME TypeInv, DoneInv, calm = 2, NEW w \in Workers, Work(w), ~Flush(w), ~MarkOffline(w),
         files' = files, InWalk'
  PROVE  walk'.snapshot = files /\ walk'.batch = {}
<1>1. CASE TakeSnapshot(w)
  BY <1>1 DEF TakeSnapshot, NoWalk
<1>2. CASE walk' = walk /\ InWalk
  BY <1>2 DEF DoneInv
<1>3. ASSUME NEW q \in Paths, Visit(w, q) PROVE walk'.snapshot = files /\ walk'.batch = {}
  <2>1. DataOK /\ InWalk
    BY <1>3, Visiting DEF Visit, At, InWalk
  <2>2. walk.snapshot = files /\ walk.batch = {} /\ Linked(q)
    BY <2>1 DEF DoneInv
  <2>3. ~VisitNew(q)
    BY <2>2 DEF VisitNew, Unchanged, Linked, Online
  <2> QED  BY <1>3, <2>1, <2>2, <2>3 DEF Visit, VisitGone, VisitUnread, VisitKnown,
           DataOK, WalkType
<1> QED  BY <1>1, <1>2, <1>3, WalkChange

LEMMA StartDone ==
  ASSUME TypeInv, FilesInv, DoneInv, NEW r \in Retries, NEW l \in BOOLEAN, Start(r, l)
  PROVE  DoneInv'
<1> SUFFICES ASSUME calm' = 2 PROVE DoneInv'
  BY DEF DoneInv
<1>1. /\ files' = files /\ fs' = fs /\ job' = job /\ walk' = walk /\ Quiet /\ queue' = <<IndexTask>>
  BY DEF Start, TypeInv, Down, env, db
<1>2. calm = 1 \/ calm = 2
  BY DEF Start, TypeInv, TypeOK
<1>3. ASSUME NEW p \in Paths PROVE Linked(p)
  <2>1. CASE calm = 1
    <3>1. Settled(p)
      BY <1>1, <2>1, QuietLoad DEF FilesInv
    <3> QED  BY <1>1, <3>1, QuietLoad DEF Settled, Checked, Linked
  <2> QED  BY <1>2, <2>1 DEF DoneInv
<1>4. \A p \in Paths : Linked(p)'
  BY <1>1, <1>3 DEF Linked, Online
<1>5. \A t \in Load' : t.kind # "checksum"
  BY <1>1, IdleJob, PipelineAssumption DEF Load, InLoad, HasLoad, Quiet, IndexTask
<1>6. ~InWalk'
  BY <1>1, QuietLoad DEF InWalk
<1> QED  BY <1>4, <1>5, <1>6 DEF DoneInv

LEMMA NextDone ==
  ASSUME TypeInv, ClaimInv, StoreInv, CalmInv, FilesInv, DoneInv, [Next]_vars
  PROVE  DoneInv'
<1>1. ASSUME NEW w \in Workers, Work(w) \/ GiveUp(w) PROVE DoneInv'
  <2> SUFFICES ASSUME calm' = 2 PROVE DoneInv'
    BY DEF DoneInv
  <2>1. Work(w) /\ calm = 2 /\ fs' = fs
    BY <1>1, WorkCalm
  <2>2. Flow(w)
    BY <2>1, WorkFlow DEF StoreInv
  <2>3. /\ files' = files /\ ~Flush(w) /\ ~MarkOffline(w)
        /\ InWalk => ~Unlinked
    BY <2>1, <2>2, DoneWork
  <2>4. \A p \in Paths : Linked(p)'
    BY <2>1, <2>3 DEF DoneInv, Linked, Online
  <2>5. \A t \in Load' : t.kind # "checksum"
    BY <2>1, <2>2, <2>3 DEF DoneInv, Flow, Gainable, Steps
  <2>6. InWalk' => walk'.snapshot = files' /\ walk'.batch = {}
    BY <2>1, <2>3, DoneWalk
  <2> QED  BY <2>4, <2>5, <2>6 DEF DoneInv
<1>2. CASE ~ \E w \in Workers : Work(w) \/ GiveUp(w)
  <2> SUFFICES ASSUME calm' = 2, calm' = calm, queue' = queue PROVE DoneInv'
    BY <1>2, StartDone, OtherSteps DEF DoneInv
  <2>1. files' = files /\ job' = job /\ walk' = walk /\ fs' = fs
    BY <1>2, OtherSteps
  <2>2. Load' = Load /\ (InWalk' <=> InWalk)
    BY <2>1 DEF Load, InLoad, InWalk
  <2>3. \A p \in Paths : Linked(p)' <=> Linked(p)
    BY <2>1 DEF Linked, Online
  <2> QED  BY <2>1, <2>2, <2>3 DEF DoneInv
<1> QED  BY <1>1, <1>2

LEMMA DoneInvariant == Spec => []DoneInv
<1>1. Init => DoneInv
  BY DEF Init, DoneInv
<1> QED  BY <1>1, NextDone, TypeInvariant, ClaimInvariant, StoreInvariant, CalmInvariant,
            FilesInvariant, PTL DEF Spec

-----------------------------------------------------------------------------
\* And what it re-queues is all that is pending

\* A status that is pending after a step was pending before.
LEMMA PendingBefore ==
  ASSUME TypeInv, ClaimInv, StoreInv, [Next]_vars, NEW c \in Contents, assets[c] # None,
         NEW s \in Steps, assets'[c][s] = "pending"
  PROVE  assets[c][s] = "pending"
<1> SUFFICES ASSUME assets' # assets PROVE assets[c][s] = "pending"
  OBVIOUS
<1>1. PICK w \in Workers : InsertAsset(w) \/ StoreResult(w)
  BY AssetChanges
<1>2. CASE InsertAsset(w)
  BY <1>2, InsertEffects
<1>3. CASE StoreResult(w)
  <2>1. Stores(w, job[w].task.asset, job[w].task.kind)
    BY <1>3, StoreEffect
  <2> QED  BY <2>1 DEF Stores, StoreInv, OutcomeStored
<1> QED  BY <1>1, <1>2, <1>3

\* What Recover re-queues claims every pending step of a file's asset.
LEMMA RecoverHolds ==
  ASSUME TypeInv, TypeInv', RowInv, NEW w \in Workers, Recover(w),
         NEW p \in Paths, Online(p), files[p].asset \in Contents,
         NEW s \in Steps, assets[files[p].asset][s] = "pending"
  PROVE  \E t \in Load' : Claims(t, s, files[p].asset)
<1> DEFINE c == files[p].asset
           U == UNION {PendingTasks(d) : d \in Recoverable}
<1>1. c \in Recoverable
  BY PipelineAssumption DEF Recoverable, LiveFiles, RowInv, RowOK, Online
<1>2. \E t \in PendingTasks(c) : Claims(t, s, c)
  <2>1. ASSUME NEW k \in Steps, ShouldRun(assets[c][k]), k = "clip" => ~ShouldRun(assets[c]["thumbnail"]),
               k = s \/ (k = "thumbnail" /\ s = "clip")
        PROVE  \E t \in PendingTasks(c) : Claims(t, s, c)
    <3> DEFINE t == StepTask(k, c, None, IF k = "thumbnail" THEN assets[c]["clip"] ELSE assets[c]["thumbnail"])
    <3>1. t \in PendingTasks(c)
      BY <2>1 DEF PendingTasks
    <3>2. t.kind = k /\ t.asset = c
      BY DEF StepTask
    <3> QED  BY <2>1, <3>1, <3>2 DEF Claims
  <2>2. ShouldRun(assets[c][s])
    BY DEF ShouldRun
  <2>3. CASE s = "clip" /\ ShouldRun(assets[c]["thumbnail"])
    BY <2>1, <2>3 DEF Steps
  <2>4. CASE ~(s = "clip" /\ ShouldRun(assets[c]["thumbnail"]))
    BY <2>1, <2>2, <2>4
  <2> QED  BY <2>3, <2>4
<1>3. PICK t \in U : Claims(t, s, c)
  BY <1>1, <1>2
<1>4. job'[w].outbox = U /\ job'[w] \in JobType
  <2>1. Runs(w) /\ job \in [Workers -> JobType]
    BY Running, IdleJob DEF Recover, At, TypeInv, TypeOK
  <2>2. job'[w] \in JobType
    BY DEF TypeInv, TypeOK
  <2> QED  BY <2>1, <2>2 DEF Recover, JobType, Runs
<1>5. t \in Load'
  BY <1>4 DEF JobType, Load, InLoad, HasLoad
<1> QED  BY <1>3, <1>5

LEMMA HeldWork ==
  ASSUME TypeInv, TypeInv', ClaimInv, StoreInv, RowInv, FilesInv, DoneInv, HeldInv, calm = 2,
         NEW w \in Workers, Work(w), Flow(w), fs' = fs, ~WalkAhead', [Next]_vars,
         NEW p \in Paths, NEW s \in Steps, Online(p)', assets'[files'[p].asset][s] = "pending"
  PROVE  \E t \in Load' : Claims(t, s, files'[p].asset)
<1> DEFINE c == files[p].asset
<1>1. files' = files /\ Online(p)
  BY DoneWork DEF Online
<1>2. c \in Contents /\ assets[c] # None
  <2>1. c # None /\ files[p] \in FileRow
    BY <1>1 DEF DoneInv, Linked, Online, TypeInv, TypeOK
  <2> QED  BY <1>1, <2>1 DEF FileRow, RowInv, RowOK, Online
<1>3. assets[c][s] = "pending" /\ assets'[c][s] = "pending"
  BY <1>1, <1>2, PendingBefore
<1>4. CASE WalkAhead
  <2>1. Recover(w)
    BY <1>4 DEF Flow
  <2> QED  BY <1>1, <1>2, <1>3, <2>1, RecoverHolds
<1>5. CASE ~WalkAhead
  <2>1. PICK t \in Load : Claims(t, s, c)
    BY <1>1, <1>3, <1>5 DEF HeldInv
  <2>2. CASE t \in Load'
    BY <1>1, <2>1, <2>2
  <2>3. CASE Losable(t)
    <3>1. t.asset = c /\ t.kind \in Steps /\ (t.kind = s \/ (t.kind = "thumbnail" /\ s = "clip"))
      BY <2>1 DEF Claims, Steps
    <3>2. p \in LiveFiles(c)
      BY <1>1 DEF LiveFiles
    <3>3. Answered(t)
      BY <2>3, <3>1, <3>2 DEF Losable, Steps
    <3> QED  BY <1>1, <1>3, <3>1, <3>3 DEF Answered
  <2> QED  BY <2>2, <2>3 DEF Flow
<1> QED  BY <1>4, <1>5

LEMMA NextHeld ==
  ASSUME TypeInv, ClaimInv, StoreInv, RowInv, CalmInv, FilesInv, DoneInv, HeldInv, [Next]_vars
  PROVE  HeldInv'
<1>1. ASSUME NEW w \in Workers, Work(w) \/ GiveUp(w) PROVE HeldInv'
  <2> SUFFICES ASSUME calm' = 2, ~WalkAhead', NEW p \in Paths, NEW s \in Steps,
                      Online(p)', assets'[files'[p].asset][s] = "pending"
               PROVE  \E t \in Load' : Claims(t, s, files'[p].asset)
    BY DEF HeldInv, Claims
  <2>1. Work(w) /\ calm = 2 /\ fs' = fs
    BY <1>1, WorkCalm
  <2>2. Flow(w) /\ TypeInv'
    BY <2>1, WorkFlow, NextType DEF StoreInv
  <2> QED  BY <2>1, <2>2, HeldWork
<1>2. ASSUME NEW r \in Retries, NEW l \in BOOLEAN, Start(r, l) PROVE HeldInv'
  <2>1. 1 \in DOMAIN queue' /\ queue'[1].kind = "index"
    BY <1>2 DEF Start, IndexTask
  <2> QED  BY <2>1 DEF HeldInv, WalkAhead
<1>3. CASE ~ \E w \in Workers : Work(w) \/ GiveUp(w)
  <2> SUFFICES ASSUME calm' = 2, calm' = calm, queue' = queue PROVE HeldInv'
    BY <1>2, <1>3, OtherSteps DEF HeldInv
  <2>1. files' = files /\ job' = job /\ assets' = assets
    BY <1>3, OtherSteps
  <2>2. Load' = Load /\ (WalkAhead' <=> WalkAhead)
    BY <2>1 DEF Load, InLoad, WalkAhead
  <2> QED  BY <2>1, <2>2 DEF HeldInv, Online, Claims
<1> QED  BY <1>1, <1>3

LEMMA HeldInvariant == Spec => []HeldInv
<1>1. Init => HeldInv
  BY DEF Init, HeldInv
<1> QED  BY <1>1, NextHeld, TypeInvariant, ClaimInvariant, StoreInvariant, RowInvariant,
            CalmInvariant, FilesInvariant, DoneInvariant, PTL DEF Spec

\* An empty load leaves nothing pending.
LEMMA CompletesSecond == ASSUME DoneInv, HeldInv PROVE SecondRunCompletes
<1> SUFFICES ASSUME Quiet, calm = 2 PROVE AllProcessed
  BY DEF SecondRunCompletes
<1>1. Load = {} /\ ~WalkAhead
  BY QuietLoad
<1>2. \A p \in Paths : Linked(p)
  BY DEF DoneInv
<1>3. \A p \in Paths, s \in Steps : Online(p) => assets[files[p].asset][s] # "pending"
  BY <1>1 DEF HeldInv
<1> QED  BY <1>2, <1>3 DEF AllProcessed, Linked

\* Recovery: after any crashes, signals, failures and edits, the second
\* undisturbed run in a row has every file on disk indexed and linked and no
\* step of their assets pending when its queue is idle.
THEOREM RecoveryCorrect == Spec => []SecondRunCompletes
BY CompletesSecond, DoneInvariant, HeldInvariant, PTL

=============================================================================
