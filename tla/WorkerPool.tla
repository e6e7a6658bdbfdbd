----------------------------- MODULE WorkerPool -----------------------------
(***************************************************************************)
(* The threads around the queue: main (main.go) pushes the index task,     *)
(* starts the workers, waits for the end of the work or for a signal,      *)
(* closes the queue and waits for the workers; each worker                 *)
(* (internal/tasks/process.go, Worker and run) pops tasks, runs them, and  *)
(* marks them done.  What a task does is abstracted to the tasks it        *)
(* pushes; Pipeline has the rest.                                          *)
(***************************************************************************)
EXTENDS Queue

CONSTANTS Root,       \* the task main pushes: indexTask
          Priority,   \* Priority[v]: the priority task v is pushed with
          Spawns,     \* Spawns[v]: the tasks that task v may push
          IndexOnly,  \* the --index-only flag
          NoItem,     \* "this worker holds no task"
          MaxPushes   \* bound of the model: no task is pushed after this many

ASSUME PoolAssumption ==
  /\ IsFiniteSet(Workers)
  /\ Root \in Values
  /\ Priority \in [Values -> Nat]
  /\ Spawns \in [Values -> SUBSET Values]
  /\ IndexOnly \in BOOLEAN
  /\ NoItem \notin Item
  /\ MaxPushes \in Nat

VARIABLES main,     \* where main is
          ctxDone,  \* the context is canceled: SIGINT or SIGTERM arrived
          pc,       \* where each worker is
          held      \* the entry each worker popped, or NoItem

poolVars == <<main, ctxDone, pc, held>>
vars == <<qvars, poolVars>>

MainPcs == {"enqueue", "start", "select", "join", "exited"}
WorkerPcs == {"new", "pop", "popped", "run", "done", "exited"}

Init ==
  /\ QInit
  /\ main = "enqueue"
  /\ ctxDone = FALSE
  /\ pc = [w \in Workers |-> "new"]
  /\ held = [w \in Workers |-> NoItem]

\* The workers that have a task: between a successful Pop and its Done.
Busy == {w \in Workers : pc[w] \in {"popped", "run", "done"}}
\* The workers in Pop that are not asleep in Wait.
Awake == {w \in Workers : pc[w] = "pop" /\ w \notin waiting}

----------------------------------------------------------------------------
\* The signal handler of signal.NotifyContext, at any time.
Cancel ==
  /\ ~ctxDone /\ main # "exited"
  /\ ctxDone' = TRUE
  /\ UNCHANGED <<qvars, main, pc, held>>

\* main pushes the index task before it starts a worker.
EnqueueIndexTask ==
  /\ main = "enqueue"
  /\ Push(Root, Priority[Root])
  /\ main' = "start"
  /\ UNCHANGED <<ctxDone, pc, held>>

\* main starts one worker after the other; the started ones already run.
StartWorker(w) ==
  /\ main = "start" /\ pc[w] = "new"
  /\ pc' = [pc EXCEPT ![w] = "pop"]
  /\ UNCHANGED <<qvars, main, ctxDone, held>>

AllStarted ==
  /\ main = "start"
  /\ \A w \in Workers : pc[w] # "new"
  /\ main' = "select"
  /\ UNCHANGED <<qvars, ctxDone, pc, held>>

\* --index-only waits for an idle queue or the signal; otherwise the server
\* runs until the signal.  Either way the queue is closed next.
CloseQueue ==
  /\ main = "select"
  /\ ctxDone \/ (IndexOnly /\ idle)
  /\ Close
  /\ main' = "join"
  /\ UNCHANGED <<ctxDone, pc, held>>

\* wg.Wait returns.
Join ==
  /\ main = "join"
  /\ \A w \in Workers : pc[w] = "exited"
  /\ main' = "exited"
  /\ UNCHANGED <<qvars, ctxDone, pc, held>>

----------------------------------------------------------------------------
\* Worker w is in Pop and owns the mutex: one turn of the loop.
WaitForItem(w) ==
  /\ pc[w] = "pop" /\ w \notin waiting
  /\ PopWait(w)
  /\ UNCHANGED poolVars

TakeItem(w) ==
  /\ pc[w] = "pop" /\ w \notin waiting
  /\ \E i \in items : PopItem(i) /\ held' = [held EXCEPT ![w] = i]
  /\ pc' = [pc EXCEPT ![w] = "popped"]
  /\ UNCHANGED <<main, ctxDone>>

\* Pop returned !ok: the worker finishes.
ExitLoop(w) ==
  /\ pc[w] = "pop" /\ w \notin waiting
  /\ PopClosed
  /\ pc' = [pc EXCEPT ![w] = "exited"]
  /\ UNCHANGED <<main, ctxDone, held>>

\* run: once the context is done a popped task is dropped, not run.
StartRun(w) ==
  /\ pc[w] = "popped"
  /\ pc' = [pc EXCEPT ![w] = IF ctxDone THEN "done" ELSE "run"]
  /\ UNCHANGED <<qvars, main, ctxDone, held>>

\* The running task pushes a further task.
PushTask(w, v) ==
  /\ pc[w] = "run"
  /\ v \in Spawns[held[w].value]
  /\ nextSeq < MaxPushes
  /\ Push(v, Priority[v])
  /\ UNCHANGED poolVars

FinishRun(w) ==
  /\ pc[w] = "run"
  /\ pc' = [pc EXCEPT ![w] = "done"]
  /\ UNCHANGED <<qvars, main, ctxDone, held>>

\* q.Done after the task returned, then the next turn of Worker's loop.
MarkDone(w) ==
  /\ pc[w] = "done"
  /\ Done
  /\ pc' = [pc EXCEPT ![w] = "pop"]
  /\ held' = [held EXCEPT ![w] = NoItem]
  /\ UNCHANGED <<main, ctxDone>>

----------------------------------------------------------------------------
MainStep == EnqueueIndexTask \/ AllStarted \/ CloseQueue \/ Join

WorkerStep(w) ==
  \/ WaitForItem(w)
  \/ TakeItem(w)
  \/ ExitLoop(w)
  \/ StartRun(w)
  \/ FinishRun(w)
  \/ MarkDone(w)

\* After main returned nothing happens: the process is gone.
Terminated == main = "exited" /\ UNCHANGED vars

Next ==
  \/ Cancel
  \/ MainStep
  \/ \E w \in Workers : StartWorker(w) \/ WorkerStep(w)
  \/ \E w \in Workers, v \in Values : PushTask(w, v)
  \/ Terminated

Spec == Init /\ [][Next]_vars

\* Goroutines that can run are scheduled, and the mutex is handed over
\* (sync.Mutex has a starvation mode).  A task returns: FinishRun is part of
\* WorkerStep.  Nothing makes a signal arrive or a task push.
FairSpec ==
  /\ Spec
  /\ WF_vars(MainStep)
  /\ \A w \in Workers : WF_vars(StartWorker(w)) /\ WF_vars(WorkerStep(w))

----------------------------------------------------------------------------
TypeOK ==
  /\ QTypeOK
  /\ main \in MainPcs
  /\ ctxDone \in BOOLEAN
  /\ pc \in [Workers -> WorkerPcs]
  /\ held \in [Workers -> Item \cup {NoItem}]

\* The inflight counter of the queue is the number of workers that hold a
\* popped task: no path through Worker skips or repeats Done.
InflightIsBusy == inflight = Cardinality(Busy)

\* No lost wakeup, in its strongest form: while some worker sleeps in
\* Cond.Wait, at most as many tasks are queued as workers are awake to take
\* them.  Push's single Signal is enough.
WorkConserving == waiting # {} => Cardinality(items) <= Cardinality(Awake)

\* "An idle queue means all work is done" (main.go): once Idle's channel is
\* closed nothing is queued and no worker holds a task.
IdleMeansDone == idle => items = {} /\ Busy = {}

\* "No more items will arrive after that" (Idle's doc): after the channel is
\* closed no push ever succeeds, though the queue may still be open.
NothingAfterIdle == [][idle => nextSeq' = nextSeq /\ items' = items]_vars

\* A closed queue leaves nobody asleep, so every worker can drain and exit.
NobodySleepsClosed == closed => waiting = {}

\* The entries in the heap and in the hands of workers are distinct pushes:
\* no task is run twice and none is popped while it is still queued.
SeqsOf(S) == {i.seq : i \in S}
HeldItems == {held[w] : w \in Busy}
RunOnce ==
  /\ SeqsOf(items) \cap SeqsOf(HeldItems) = {}
  /\ \A v, w \in Busy : held[v] = held[w] => v = w
  /\ \A i, j \in items : i.seq = j.seq => i = j

\* After a signal main gets through wg.Wait, no worker stays in Pop or keeps
\* the queue from draining; and with --index-only the process ends by itself,
\* once all work is done.
MainExits ==
  /\ ctxDone ~> main = "exited"
  /\ IndexOnly => <>(main = "exited")
============================================================================
