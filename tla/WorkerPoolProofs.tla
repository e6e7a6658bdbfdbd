-------------------------- MODULE WorkerPoolProofs --------------------------
(***************************************************************************)
(* Proofs about the task queue and its workers, for any set of workers,    *)
(* any task types and any number of pushes.                                *)
(*                                                                         *)
(* Counting is the base: Counted says that the queue's counter is the size *)
(* of the set of busy workers.  The idle flag, the absence of lost wakeups *)
(* and the distinctness of the tasks are invariants on top of it.          *)
(***************************************************************************)
EXTENDS WorkerPoolRefinement, RankingProofs, FiniteSetTheorems, TLAPS

\* The part of the inductive invariant that types and counts the state.
Counted ==
  /\ TypeOK
  /\ IsFiniteSet(items)
  /\ \A w \in Busy : held[w] \in Item
  /\ \A w \in waiting : pc[w] = "pop"
  /\ InflightIsBusy

\* What the start of main and the idle flag need: nothing has run before the
\* index task is queued.
Quiet ==
  /\ main = "enqueue" => ~idle /\ \A w \in Workers : pc[w] = "new"
  /\ IdleMeansDone

----------------------------------------------------------------------------
\* A set of workers and a set of items only grow or shrink by one element.
LEMMA CountAdd ==
  ASSUME NEW S, NEW x, IsFiniteSet(S), x \notin S
  PROVE  IsFiniteSet(S \cup {x}) /\ Cardinality(S \cup {x}) = Cardinality(S) + 1
  BY FS_AddElement

LEMMA CountRemove ==
  ASSUME NEW S, NEW x, IsFiniteSet(S), x \in S
  PROVE  /\ IsFiniteSet(S \ {x})
         /\ Cardinality(S \ {x}) = Cardinality(S) - 1
         /\ Cardinality(S) \in Nat \ {0}
  BY FS_RemoveElement, FS_CardinalityType, FS_EmptySet

\* The sets of busy and of awake workers are finite.
LEMMA FiniteWorkers ==
  /\ IsFiniteSet(Busy) /\ Cardinality(Busy) \in Nat
  /\ IsFiniteSet(Awake) /\ Cardinality(Awake) \in Nat
<1>1. Busy \in SUBSET Workers /\ Awake \in SUBSET Workers
  BY DEF Busy, Awake
<1>2. QED  BY <1>1, PoolAssumption, FS_Subset, FS_CardinalityType

\* A push adds at most one well-formed entry and wakes at most one waiter;
\* it leaves everything else of the queue alone.
LEMMA PushEffect ==
  ASSUME NEW v \in Values, NEW p \in Nat, QTypeOK, IsFiniteSet(items), Push(v, p)
  PROVE  /\ QTypeOK'
         /\ IsFiniteSet(items')
         /\ waiting' \subseteq waiting
         /\ UNCHANGED <<closed, inflight, idle>>
<1>1. CASE closed /\ UNCHANGED qvars
  BY <1>1 DEF QTypeOK, qvars
<1>2. CASE PushOpen(v, p)
  <2> DEFINE e == [value |-> v, priority |-> p, seq |-> nextSeq]
  <2>1. e \in Item  BY DEF QTypeOK, Item
  <2>2. items' = items \cup {e}  BY <1>2 DEF PushOpen
  <2>3. IsFiniteSet(items')  BY <2>2, FS_AddElement
  <2>4. waiting' \subseteq waiting  BY <1>2 DEF PushOpen, Signal
  <2>5. nextSeq' \in Nat /\ UNCHANGED <<closed, inflight, idle>>
    BY <1>2 DEF PushOpen, QTypeOK
  <2>6. QED  BY <2>1, <2>2, <2>3, <2>4, <2>5 DEF QTypeOK
<1>3. QED  BY <1>1, <1>2 DEF Push

----------------------------------------------------------------------------
LEMMA CountedInit == Init => Counted
<1> SUFFICES ASSUME Init PROVE Counted  OBVIOUS
<1>1. Busy = {}  BY DEF Init, Busy
<1>2. TypeOK
  BY DEF Init, QInit, TypeOK, QTypeOK, MainPcs, WorkerPcs
<1>3. IsFiniteSet(items) /\ InflightIsBusy
  BY <1>1, FS_EmptySet DEF Init, QInit, InflightIsBusy
<1>4. QED  BY <1>1, <1>2, <1>3 DEF Counted, Init, QInit

LEMMA CountedNext == Counted /\ [Next]_vars => Counted'
<1> SUFFICES ASSUME Counted, [Next]_vars PROVE Counted'  OBVIOUS
<1> USE DEF Counted, TypeOK, MainPcs, WorkerPcs
<1>0. CASE UNCHANGED vars
  BY <1>0 DEF vars, qvars, poolVars, QTypeOK, Busy, InflightIsBusy
<1>1. CASE Cancel
  BY <1>1 DEF Cancel, qvars, QTypeOK, Busy, InflightIsBusy
<1>2. CASE EnqueueIndexTask
  <2>1. QTypeOK' /\ IsFiniteSet(items') /\ waiting' \subseteq waiting /\ inflight' = inflight
    BY <1>2, PushEffect, PoolAssumption DEF EnqueueIndexTask
  <2>2. QED  BY <1>2, <2>1 DEF EnqueueIndexTask, Busy, InflightIsBusy
<1>3. ASSUME NEW w \in Workers, StartWorker(w) PROVE Counted'
  BY <1>3 DEF StartWorker, qvars, QTypeOK, Busy, InflightIsBusy
<1>4. CASE AllStarted
  BY <1>4 DEF AllStarted, qvars, QTypeOK, Busy, InflightIsBusy
<1>5. CASE CloseQueue
  BY <1>5 DEF CloseQueue, Close, QTypeOK, Busy, InflightIsBusy
<1>6. CASE Join
  BY <1>6 DEF Join, qvars, QTypeOK, Busy, InflightIsBusy
<1>7. ASSUME NEW w \in Workers, WaitForItem(w) PROVE Counted'
  BY <1>7 DEF WaitForItem, PopWait, poolVars, QTypeOK, Busy, InflightIsBusy
<1>8. ASSUME NEW w \in Workers, TakeItem(w) PROVE Counted'
  <2>1. PICK i \in items : PopItem(i) /\ held' = [held EXCEPT ![w] = i]
    BY <1>8 DEF TakeItem
  <2>2. /\ pc[w] = "pop" /\ w \notin waiting
        /\ pc' = [pc EXCEPT ![w] = "popped"]
        /\ UNCHANGED <<main, ctxDone>>
    BY <1>8 DEF TakeItem
  <2>3. i \in Item  BY DEF QTypeOK
  <2>4. IsFiniteSet(items')  BY <2>1, FS_RemoveElement DEF PopItem
  <2>5. Busy' = Busy \cup {w} /\ w \notin Busy  BY <2>2 DEF Busy
  <2>6. InflightIsBusy'
    BY <2>1, <2>5, FiniteWorkers, CountAdd DEF InflightIsBusy, PopItem
  <2>7. TypeOK'  BY <2>1, <2>2, <2>3 DEF PopItem, QTypeOK
  <2>8. \A u \in Busy' : held'[u] \in Item  BY <2>1, <2>2, <2>3, <2>5
  <2>9. \A u \in waiting' : pc'[u] = "pop"  BY <2>1, <2>2 DEF PopItem
  <2>10. QED  BY <2>4, <2>6, <2>7, <2>8, <2>9
<1>9. ASSUME NEW w \in Workers, ExitLoop(w) PROVE Counted'
  BY <1>9 DEF ExitLoop, PopClosed, qvars, QTypeOK, Busy, InflightIsBusy
<1>10. ASSUME NEW w \in Workers, StartRun(w) PROVE Counted'
  <2>1. Busy' = Busy  BY <1>10 DEF StartRun, Busy
  <2>2. QED  BY <1>10, <2>1 DEF StartRun, qvars, QTypeOK, InflightIsBusy
<1>11. ASSUME NEW w \in Workers, FinishRun(w) PROVE Counted'
  <2>1. Busy' = Busy  BY <1>11 DEF FinishRun, Busy
  <2>2. QED  BY <1>11, <2>1 DEF FinishRun, qvars, QTypeOK, InflightIsBusy
<1>12. ASSUME NEW w \in Workers, MarkDone(w) PROVE Counted'
  <2>1. /\ pc[w] = "done" /\ Done
        /\ pc' = [pc EXCEPT ![w] = "pop"]
        /\ held' = [held EXCEPT ![w] = NoItem]
        /\ UNCHANGED <<main, ctxDone>>
    BY <1>12 DEF MarkDone
  <2>2. Busy' = Busy \ {w} /\ w \in Busy  BY <2>1 DEF Busy
  <2>3. InflightIsBusy' /\ inflight' \in Nat
    <3>1. Cardinality(Busy \ {w}) = Cardinality(Busy) - 1 /\ Cardinality(Busy) \in Nat \ {0}
      BY <2>2, FiniteWorkers, CountRemove
    <3>2. inflight' = inflight - 1  BY <2>1 DEF Done
    <3>3. QED  BY <2>2, <3>1, <3>2 DEF InflightIsBusy
  <2>4. TypeOK'  BY <2>1, <2>3 DEF Done, QTypeOK
  <2>5. \A u \in Busy' : held'[u] \in Item  BY <2>1, <2>2 DEF Busy
  <2>6. \A u \in waiting' : pc'[u] = "pop"  BY <2>1 DEF Done, QTypeOK
  <2>7. QED  BY <2>1, <2>3, <2>4, <2>5, <2>6 DEF Done
<1>13. ASSUME NEW w \in Workers, NEW v \in Values, PushTask(w, v) PROVE Counted'
  <2>1. QTypeOK' /\ IsFiniteSet(items') /\ waiting' \subseteq waiting /\ inflight' = inflight
    BY <1>13, PushEffect, PoolAssumption DEF PushTask
  <2>2. QED  BY <1>13, <2>1 DEF PushTask, poolVars, Busy, InflightIsBusy
<1>14. QED
  BY <1>0, <1>1, <1>2, <1>3, <1>4, <1>5, <1>6, <1>7, <1>8, <1>9, <1>10, <1>11, <1>12, <1>13
     DEF Next, MainStep, WorkerStep, Terminated

\* Worker pairs every successful Pop with one Done: the inflight counter of
\* the queue always is the number of workers that hold a task.
THEOREM InflightCorrect == Spec => [](TypeOK /\ InflightIsBusy)
<1>1. Counted => TypeOK /\ InflightIsBusy  BY DEF Counted
<1>2. QED  BY <1>1, CountedInit, CountedNext, PTL DEF Spec

----------------------------------------------------------------------------
(* The idle flag.  It is set by a Done that leaves nothing queued and no   *)
(* busy worker; from then on no step can push, since only a busy worker or *)
(* main's first step does.                                                 *)

LEMMA QuietNext == Counted /\ Quiet /\ [Next]_vars => Quiet'
<1> SUFFICES ASSUME Counted, Quiet, [Next]_vars PROVE Quiet'  OBVIOUS
<1> USE DEF Quiet, IdleMeansDone
<1>0. CASE UNCHANGED vars
  BY <1>0 DEF vars, qvars, poolVars, Busy
<1>1. CASE Cancel
  BY <1>1 DEF Cancel, qvars, Busy
<1>2. CASE EnqueueIndexTask
  <2>1. idle' = idle  BY <1>2 DEF EnqueueIndexTask, Push, PushOpen, qvars
  <2>2. QED  BY <1>2, <2>1 DEF EnqueueIndexTask
<1>3. ASSUME NEW w \in Workers, StartWorker(w) PROVE Quiet'
  <2>1. Busy' = Busy
    BY <1>3 DEF StartWorker, Busy, Counted, TypeOK
  <2>2. QED  BY <1>3, <2>1 DEF StartWorker, qvars
<1>4. CASE AllStarted
  BY <1>4 DEF AllStarted, qvars, Busy
<1>5. CASE CloseQueue
  BY <1>5 DEF CloseQueue, Close, Busy
<1>6. CASE Join
  BY <1>6 DEF Join, qvars, Busy
<1>7. ASSUME NEW w \in Workers, WaitForItem(w) PROVE Quiet'
  BY <1>7 DEF WaitForItem, PopWait, poolVars, Busy
<1>8. ASSUME NEW w \in Workers, TakeItem(w) PROVE Quiet'
  <2>1. PICK i \in items : PopItem(i)  BY <1>8 DEF TakeItem
  <2>2. ~idle  OBVIOUS
  <2>3. main # "enqueue"  BY <1>8 DEF TakeItem
  <2>4. QED  BY <1>8, <2>1, <2>2, <2>3 DEF PopItem, TakeItem
<1>9. ASSUME NEW w \in Workers, ExitLoop(w) PROVE Quiet'
  <2>1. Busy' = Busy
    BY <1>9 DEF ExitLoop, Busy, Counted, TypeOK
  <2>2. QED  BY <1>9, <2>1 DEF ExitLoop, PopClosed, qvars
<1>10. ASSUME NEW w \in Workers, StartRun(w) PROVE Quiet'
  <2>1. w \in Busy  BY <1>10 DEF StartRun, Busy
  <2>2. QED  BY <1>10, <2>1 DEF StartRun, qvars
<1>11. ASSUME NEW w \in Workers, FinishRun(w) PROVE Quiet'
  <2>1. w \in Busy  BY <1>11 DEF FinishRun, Busy
  <2>2. QED  BY <1>11, <2>1 DEF FinishRun, qvars
<1>12. ASSUME NEW w \in Workers, MarkDone(w) PROVE Quiet'
  <2>1. w \in Busy /\ ~idle /\ main # "enqueue"  BY <1>12 DEF MarkDone, Busy
  <2>2. Busy' = Busy \ {w}
    BY <1>12 DEF MarkDone, Busy, Counted, TypeOK, WorkerPcs
  <2>3. ASSUME idle' PROVE items' = {} /\ Busy' = {}
    <3>1. inflight' = 0 /\ items = {} /\ items' = items /\ inflight' = inflight - 1
      BY <1>12, <2>1, <2>3 DEF MarkDone, Done
    <3>2. inflight = 1 /\ Cardinality(Busy) = 1
      BY <3>1 DEF Counted, TypeOK, QTypeOK, InflightIsBusy
    <3>3. PICK u : Busy = {u}  BY <3>2, FiniteWorkers, FS_Singleton
    <3>4. QED  BY <2>1, <2>2, <3>1, <3>3
  <2>4. QED  BY <1>12, <2>1, <2>3 DEF MarkDone
<1>13. ASSUME NEW w \in Workers, NEW v \in Values, PushTask(w, v) PROVE Quiet'
  <2>1. w \in Busy /\ ~idle /\ main # "enqueue"  BY <1>13 DEF PushTask, Busy
  <2>2. idle' = idle /\ main' = main
    BY <1>13 DEF PushTask, Push, PushOpen, qvars, poolVars
  <2>3. QED  BY <2>1, <2>2
<1>14. QED
  BY <1>0, <1>1, <1>2, <1>3, <1>4, <1>5, <1>6, <1>7, <1>8, <1>9, <1>10, <1>11, <1>12, <1>13
     DEF Next, MainStep, WorkerStep, Terminated

LEMMA QuietInit == Init => Quiet
  BY DEF Init, QInit, Quiet, IdleMeansDone, Busy

\* "An idle queue means all work is done" (main.go): when the idle channel is
\* closed nothing is queued and no worker holds a task.
THEOREM IdleCorrect == Spec => []IdleMeansDone
<1>1. Quiet => IdleMeansDone  BY DEF Quiet
<1>2. QED
  BY <1>1, CountedInit, CountedNext, QuietInit, QuietNext, PTL DEF Spec

LEMMA IdleStep ==
  Counted /\ Quiet /\ [Next]_vars => (idle => nextSeq' = nextSeq /\ items' = items)
<1> SUFFICES ASSUME Counted, Quiet, [Next]_vars, idle
             PROVE  nextSeq' = nextSeq /\ items' = items
  OBVIOUS
<1>1. items = {} /\ Busy = {} /\ main # "enqueue"
  BY DEF Quiet, IdleMeansDone
<1>2. ASSUME NEW w \in Workers, WorkerStep(w) PROVE nextSeq' = nextSeq /\ items' = items
  BY <1>1, <1>2 DEF WorkerStep, WaitForItem, PopWait, TakeItem, PopItem, IsTop, ExitLoop,
     PopClosed, StartRun, FinishRun, MarkDone, Done, qvars
<1>3. ASSUME NEW w \in Workers, NEW v \in Values PROVE ~PushTask(w, v)
  BY <1>1 DEF PushTask, Busy
<1>4. CASE MainStep
  BY <1>1, <1>4 DEF MainStep, EnqueueIndexTask, AllStarted, CloseQueue, Close, Join, qvars
<1>5. ASSUME NEW w \in Workers, StartWorker(w) PROVE nextSeq' = nextSeq /\ items' = items
  BY <1>5 DEF StartWorker, qvars
<1>6. CASE Cancel  BY <1>6 DEF Cancel, qvars
<1>7. QED
  BY <1>2, <1>3, <1>4, <1>5, <1>6 DEF Next, Terminated, vars, qvars

\* "No more items will arrive after that" (Idle's doc): once the channel is
\* closed no push ever adds an entry, whether or not the queue is closed.
THEOREM IdleIsFinal == Spec => NothingAfterIdle
  BY CountedInit, CountedNext, QuietInit, QuietNext, IdleStep, PTL
     DEF Spec, NothingAfterIdle

----------------------------------------------------------------------------
(* Wakeups.  A push that finds a sleeper adds one entry and one awake      *)
(* worker; a pop removes one of each; a worker falls asleep only when      *)
(* nothing is queued; and nobody sleeps on a closed queue.                 *)

Wakeful == WorkConserving /\ NobodySleepsClosed

\* A push keeps the balance of queued entries and awake workers.
LEMMA PushWakes ==
  ASSUME NEW v \in Values, NEW p \in Nat, Counted, Wakeful, Push(v, p), pc' = pc
  PROVE  Wakeful'
<1> USE DEF Wakeful, WorkConserving, NobodySleepsClosed
<1>1. CASE closed /\ UNCHANGED qvars
  BY <1>1 DEF qvars, Awake
<1>2. CASE PushOpen(v, p)
  <2>1. PICK e : items' = items \cup {e}
    BY <1>2 DEF PushOpen
  <2>2. closed' = closed /\ ~closed /\ Signal
    BY <1>2 DEF PushOpen
  <2>3. CASE waiting = {}
    BY <2>2, <2>3 DEF Signal
  <2>4. CASE waiting # {}
    <3>1. PICK x \in waiting : waiting' = waiting \ {x}
      BY <2>2, <2>4 DEF Signal
    <3>2. x \in Workers /\ pc[x] = "pop" /\ x \notin Awake
      BY <3>1 DEF Counted, TypeOK, QTypeOK, Awake
    <3>3. Awake' = Awake \cup {x}  BY <3>1, <3>2 DEF Awake
    <3>4. Cardinality(Awake') = Cardinality(Awake) + 1
      BY <3>2, <3>3, CountAdd, FiniteWorkers
    <3>5. IsFiniteSet(items) /\ Cardinality(items) \in Nat
      BY FS_CardinalityType DEF Counted
    <3>6. Cardinality(items') \in {Cardinality(items), Cardinality(items) + 1}
      BY <2>1, <3>5, FS_AddElement
    <3>7. Cardinality(items) <= Cardinality(Awake)  BY <2>4
    <3>8. Cardinality(items') <= Cardinality(Awake')
      BY <3>4, <3>5, <3>6, <3>7, FiniteWorkers
    <3>9. QED  BY <2>2, <3>8
  <2>5. QED  BY <2>3, <2>4
<1>3. QED  BY <1>1, <1>2 DEF Push

LEMMA WakefulInit == Init => Wakeful
  BY DEF Init, QInit, Wakeful, WorkConserving, NobodySleepsClosed

LEMMA WakefulNext == Counted /\ Wakeful /\ [Next]_vars => Wakeful'
<1> SUFFICES ASSUME Counted, Wakeful, [Next]_vars PROVE Wakeful'  OBVIOUS
<1> USE DEF Wakeful, WorkConserving, NobodySleepsClosed
<1>0. CASE UNCHANGED vars
  BY <1>0 DEF vars, qvars, poolVars, Awake
<1>1. CASE Cancel
  BY <1>1 DEF Cancel, qvars, Awake
<1>2. CASE EnqueueIndexTask
  BY <1>2, PushWakes, PoolAssumption DEF EnqueueIndexTask
<1>3. ASSUME NEW w \in Workers, StartWorker(w) PROVE Wakeful'
  <2>1. w \notin waiting /\ w \notin Awake
    BY <1>3 DEF StartWorker, Counted, Awake
  <2>2. Awake' = Awake \cup {w}
    BY <1>3, <2>1 DEF StartWorker, Awake, Counted, TypeOK, qvars
  <2>3. Cardinality(Awake') = Cardinality(Awake) + 1
    BY <2>1, <2>2, CountAdd, FiniteWorkers
  <2>4. items' = items /\ waiting' = waiting /\ closed' = closed
    BY <1>3 DEF StartWorker, qvars
  <2>5. Cardinality(items) \in Nat  BY FS_CardinalityType DEF Counted
  <2>6. QED  BY <2>3, <2>4, <2>5, FiniteWorkers
<1>4. CASE AllStarted
  BY <1>4 DEF AllStarted, qvars, Awake
<1>5. CASE CloseQueue
  BY <1>5 DEF CloseQueue, Close, Awake
<1>6. CASE Join
  BY <1>6 DEF Join, qvars, Awake
<1>7. ASSUME NEW w \in Workers, WaitForItem(w) PROVE Wakeful'
  <2>1. items' = {} /\ ~closed'  BY <1>7 DEF WaitForItem, PopWait
  <2>2. Cardinality(items') = 0  BY <2>1, FS_EmptySet
  <2>3. IsFiniteSet(Awake')
    <3>1. Awake' \in SUBSET Workers
      BY <1>7 DEF WaitForItem, Awake, poolVars
    <3>2. QED  BY <3>1, PoolAssumption, FS_Subset
  <2>4. Cardinality(Awake') \in Nat  BY <2>3, FS_CardinalityType
  <2>5. QED  BY <2>1, <2>2, <2>4
<1>8. ASSUME NEW w \in Workers, TakeItem(w) PROVE Wakeful'
  <2>1. PICK i \in items : PopItem(i)  BY <1>8 DEF TakeItem
  <2>2. items' = items \ {i} /\ waiting' = waiting /\ closed' = closed
    BY <2>1 DEF PopItem
  <2>3. w \in Awake /\ Awake' = Awake \ {w}
    BY <1>8, <2>2 DEF TakeItem, Awake, Counted, TypeOK
  <2>4. Cardinality(Awake') = Cardinality(Awake) - 1
    BY <2>3, CountRemove, FiniteWorkers
  <2>5. Cardinality(items') = Cardinality(items) - 1 /\ Cardinality(items) \in Nat
    BY <2>2, CountRemove DEF Counted
  <2>6. QED  BY <2>2, <2>4, <2>5, FiniteWorkers
<1>9. ASSUME NEW w \in Workers, ExitLoop(w) PROVE Wakeful'
  <2>1. closed /\ closed' /\ waiting' = waiting
    BY <1>9 DEF ExitLoop, PopClosed, qvars
  <2>2. QED  BY <2>1
<1>10. ASSUME NEW w \in Workers, StartRun(w) PROVE Wakeful'
  <2>1. Awake' = Awake
    BY <1>10 DEF StartRun, Awake, Counted, TypeOK, qvars
  <2>2. QED  BY <1>10, <2>1 DEF StartRun, qvars
<1>11. ASSUME NEW w \in Workers, FinishRun(w) PROVE Wakeful'
  <2>1. Awake' = Awake
    BY <1>11 DEF FinishRun, Awake, Counted, TypeOK, qvars
  <2>2. QED  BY <1>11, <2>1 DEF FinishRun, qvars
<1>12. ASSUME NEW w \in Workers, MarkDone(w) PROVE Wakeful'
  <2>1. w \notin waiting /\ w \notin Awake
    BY <1>12 DEF MarkDone, Counted, Awake
  <2>2. items' = items /\ waiting' = waiting /\ closed' = closed
    BY <1>12 DEF MarkDone, Done
  <2>3. Awake' = Awake \cup {w}
    BY <1>12, <2>1, <2>2 DEF MarkDone, Awake, Counted, TypeOK
  <2>4. Cardinality(Awake') = Cardinality(Awake) + 1
    BY <2>1, <2>3, CountAdd, FiniteWorkers
  <2>5. Cardinality(items) \in Nat  BY FS_CardinalityType DEF Counted
  <2>6. QED  BY <2>2, <2>4, <2>5, FiniteWorkers
<1>13. ASSUME NEW w \in Workers, NEW v \in Values, PushTask(w, v) PROVE Wakeful'
  BY <1>13, PushWakes, PoolAssumption DEF PushTask, poolVars
<1>14. QED
  BY <1>0, <1>1, <1>2, <1>3, <1>4, <1>5, <1>6, <1>7, <1>8, <1>9, <1>10, <1>11, <1>12, <1>13
     DEF Next, MainStep, WorkerStep, Terminated

\* One Signal per push loses no wakeup: while a worker sleeps in Pop, no more
\* tasks are queued than workers are on their way to take them.
THEOREM NoLostWakeup == Spec => []WorkConserving
<1>1. Wakeful => WorkConserving  BY DEF Wakeful
<1>2. QED
  BY <1>1, CountedInit, CountedNext, WakefulInit, WakefulNext, PTL DEF Spec

\* After Close no worker sleeps in Pop, nor falls asleep again.
THEOREM CloseWakesAll == Spec => []NobodySleepsClosed
<1>1. Wakeful => NobodySleepsClosed  BY DEF Wakeful
<1>2. QED
  BY <1>1, CountedInit, CountedNext, WakefulInit, WakefulNext, PTL DEF Spec

----------------------------------------------------------------------------
(* Every push has a sequence number of its own, so the entries in the heap *)
(* and the tasks in the workers' hands are all different pushes.           *)

Numbered ==
  /\ \A i \in items : i.seq < nextSeq
  /\ \A w \in Busy : held[w].seq < nextSeq
  /\ \A i, j \in items : i.seq = j.seq => i = j
  /\ \A i \in items, w \in Busy : i.seq # held[w].seq
  /\ \A v, w \in Busy : held[v].seq = held[w].seq => v = w

LEMMA NumberedInit == Init => Numbered
  BY DEF Init, QInit, Numbered, Busy

LEMMA PushNumbers ==
  ASSUME NEW v \in Values, NEW p \in Nat, Counted, Numbered, Push(v, p),
         pc' = pc, held' = held
  PROVE  Numbered'
<1>1. Busy' = Busy  BY DEF Busy
<1>2. nextSeq \in Nat /\ (\A i \in items : i.seq \in Nat) /\ (\A w \in Busy : held[w].seq \in Nat)
  BY DEF Counted, TypeOK, QTypeOK, Item
<1>3. CASE closed /\ UNCHANGED qvars
  BY <1>1, <1>3 DEF qvars, Numbered
<1>4. CASE PushOpen(v, p)
  <2> DEFINE e == [value |-> v, priority |-> p, seq |-> nextSeq]
  <2>1. items' = items \cup {e} /\ nextSeq' = nextSeq + 1
    BY <1>4 DEF PushOpen
  <2>2. e.seq = nextSeq  OBVIOUS
  <2> HIDE DEF e
  <2>3. QED  BY <1>1, <1>2, <2>1, <2>2 DEF Numbered
<1>5. QED  BY <1>3, <1>4 DEF Push

LEMMA NumberedNext == Counted /\ Numbered /\ [Next]_vars => Numbered'
<1> SUFFICES ASSUME Counted, Numbered, [Next]_vars PROVE Numbered'  OBVIOUS
<1>1. CASE EnqueueIndexTask
  BY <1>1, PushNumbers, PoolAssumption DEF EnqueueIndexTask
<1>2. ASSUME NEW w \in Workers, NEW v \in Values, PushTask(w, v) PROVE Numbered'
  BY <1>2, PushNumbers, PoolAssumption DEF PushTask, poolVars
<1>3. ASSUME NEW w \in Workers, TakeItem(w) PROVE Numbered'
  <2>1. PICK i \in items : PopItem(i) /\ held' = [held EXCEPT ![w] = i]
    BY <1>3 DEF TakeItem
  <2>2. Busy' = Busy \cup {w} /\ w \notin Busy
    BY <1>3 DEF TakeItem, Busy, Counted, TypeOK
  <2>3. items' = items \ {i} /\ nextSeq' = nextSeq  BY <2>1 DEF PopItem
  <2>4. held'[w] = i /\ \A u \in Busy : held'[u] = held[u]
    BY <2>1, <2>2 DEF Counted, TypeOK, Busy
  <2>5. QED  BY <2>2, <2>3, <2>4 DEF Numbered
<1>4. ASSUME NEW w \in Workers, MarkDone(w) PROVE Numbered'
  <2>1. Busy' = Busy \ {w} /\ items' = items /\ nextSeq' = nextSeq
    BY <1>4 DEF MarkDone, Done, Busy, Counted, TypeOK
  <2>2. \A u \in Busy' : held'[u] = held[u]
    BY <1>4, <2>1 DEF MarkDone, Counted, TypeOK, Busy
  <2>3. QED  BY <2>1, <2>2 DEF Numbered
<1>5. ASSUME items' = items, nextSeq' = nextSeq, held' = held, Busy' = Busy
      PROVE  Numbered'
  BY <1>5 DEF Numbered
<1>6. CASE Cancel  BY <1>5, <1>6 DEF Cancel, qvars, Busy
<1>7. CASE AllStarted  BY <1>5, <1>7 DEF AllStarted, qvars, Busy
<1>8. CASE CloseQueue  BY <1>5, <1>8 DEF CloseQueue, Close, Busy
<1>9. CASE Join  BY <1>5, <1>9 DEF Join, qvars, Busy
<1>10. ASSUME NEW w \in Workers,
              StartWorker(w) \/ WaitForItem(w) \/ ExitLoop(w) \/ StartRun(w) \/ FinishRun(w)
       PROVE  Numbered'
  <2>1. items' = items /\ nextSeq' = nextSeq /\ held' = held
    BY <1>10 DEF StartWorker, WaitForItem, PopWait, ExitLoop, PopClosed, StartRun, FinishRun,
       qvars, poolVars
  <2>2. Busy' = Busy
    <3>1. CASE StartWorker(w)  BY <3>1 DEF StartWorker, Busy, Counted, TypeOK
    <3>2. CASE WaitForItem(w)  BY <3>2 DEF WaitForItem, poolVars, Busy
    <3>3. CASE ExitLoop(w)  BY <3>3 DEF ExitLoop, Busy, Counted, TypeOK
    <3>4. CASE StartRun(w)  BY <3>4 DEF StartRun, Busy, Counted, TypeOK
    <3>5. CASE FinishRun(w)  BY <3>5 DEF FinishRun, Busy, Counted, TypeOK
    <3>6. QED  BY <1>10, <3>1, <3>2, <3>3, <3>4, <3>5
  <2>3. QED  BY <1>5, <2>1, <2>2
<1>11. CASE UNCHANGED vars  BY <1>5, <1>11 DEF vars, qvars, poolVars, Busy
<1>12. QED
  BY <1>1, <1>2, <1>3, <1>4, <1>6, <1>7, <1>8, <1>9, <1>10, <1>11
     DEF Next, MainStep, WorkerStep, Terminated

\* No queued task is also being run, and no two workers run the same push.
THEOREM TasksRunOnce == Spec => []RunOnce
<1>1. Numbered => RunOnce
  BY DEF Numbered, RunOnce, SeqsOf, HeldItems
<1>2. QED
  BY <1>1, CountedInit, CountedNext, NumberedInit, NumberedNext, PTL DEF Spec

----------------------------------------------------------------------------
(* The queue implements PriorityFifo, apart from fairness                   *)

\* A set of entries whose numbers differ is in order by them.
LEMMA SeqOrder ==
  ASSUME NEW S \in SUBSET Item, \A i, j \in S : i.seq = j.seq => i = j
  PROVE  IsStrictOrder(S, {p \in S \X S : p[1].seq < p[2].seq})
<1> DEFINE less == {p \in S \X S : p[1].seq < p[2].seq}
<1>1. \A i \in S : i.seq \in Nat
  BY DEF Item
<1>2. \A x, y \in S : <<x, y>> \in less <=> x.seq < y.seq
  OBVIOUS
<1> HIDE DEF less
<1>3. \A x \in S : <<x, x>> \notin less
  BY <1>1, <1>2
<1>4. \A x, y, z \in S : <<x, y>> \in less /\ <<y, z>> \in less => <<x, z>> \in less
  BY <1>1, <1>2
<1>5. ASSUME NEW x \in S, NEW y \in S PROVE x = y \/ <<x, y>> \in less \/ <<y, x>> \in less
  <2>1. x.seq = y.seq \/ x.seq < y.seq \/ y.seq < x.seq
    BY <1>1
  <2> QED
    BY <1>2, <2>1
<1>6. IsStrictOrder(S, less)
  BY <1>3, <1>4, <1>5 DEF IsStrictOrder
<1> QED
  BY <1>6 DEF less

\* A lane is empty when nothing of its priority is queued.
LEMMA LaneEmpty ==
  ASSUME NEW S \in SUBSET Item, IsFiniteSet(S), \A i, j \in S : i.seq = j.seq => i = j
  PROVE  LaneOf(S) = <<>> <=> S = {}
<1> DEFINE n == Cardinality(S)
<1>1. n \in Nat /\ BySeq(S) \in [1..n -> S]
  BY SeqOrder, RankedSorts DEF BySeq
<1>2. n = 0 <=> S = {}
  BY FS_EmptySet
<1> HIDE DEF n
<1> DEFINE l == LaneOf(S)
           Pair(i) == <<i.value, i.seq>>
<1>3. l = [k \in 1..n |-> Pair(BySeq(S)[k])]
  BY <1>1 DEF LaneOf
<1> HIDE DEF l, Pair
<1>4. l \in Seq({Pair(i) : i \in S}) /\ Len(l) = n
  BY <1>1, <1>3
<1>5. l = <<>> <=> n = 0
  BY <1>4
<1> QED
  BY <1>2, <1>5 DEF l

\* An entry with a new number joins the end of its lane.
LEMMA LaneAppend ==
  ASSUME NEW S \in SUBSET Item, IsFiniteSet(S), \A i, j \in S : i.seq = j.seq => i = j,
         NEW e \in Item, \A i \in S : i.seq < e.seq
  PROVE  LaneOf(S \cup {e}) = Append(LaneOf(S), <<e.value, e.seq>>)
<1> DEFINE T == S \cup {e}
           less == {p \in S \X S : p[1].seq < p[2].seq}
           more == {p \in T \X T : p[1].seq < p[2].seq}
<1>1. e.seq \in Nat /\ (\A i \in S : i.seq \in Nat) /\ e \notin S
  BY DEF Item
<1>2. IsStrictOrder(S, less)
  BY SeqOrder
<1>3. IsStrictOrder(T, more)
  <2>1. T \in SUBSET Item /\ \A i, j \in T : i.seq = j.seq => i = j
    BY <1>1
  <2> HIDE DEF T
  <2> QED
    BY <2>1, SeqOrder
<1>4. /\ \A y, z \in S : <<y, z>> \in less <=> <<y, z>> \in more
      /\ \A y \in S : <<y, e>> \in more
  OBVIOUS
<1>5. BySeq(S) = Ranked(S, less) /\ BySeq(T) = Ranked(T, more)
  BY DEF BySeq
<1> HIDE DEF less, more
<1>6. BySeq(S) \in Seq(S) /\ BySeq(T) = Append(BySeq(S), e)
  <2>1. /\ Ranked(S, less) \in Seq(S)
        /\ Ranked(S \cup {e}, more) = Append(Ranked(S, less), e)
    BY <1>1, <1>2, <1>3, <1>4, RankedAppend
  <2> QED
    BY <1>5, <2>1
<1> DEFINE s == BySeq(S)
           t == BySeq(T)
           n == Len(s)
<1>7. s \in Seq(Item) /\ n \in Nat /\ t = Append(s, e)
  <2>1. Seq(S) \subseteq Seq(Item)
    OBVIOUS
  <2> HIDE DEF T
  <2> QED
    BY <1>6, <2>1
<1>8. /\ LaneOf(S) = [k \in DOMAIN s |-> <<s[k].value, s[k].seq>>]
      /\ LaneOf(T) = [k \in DOMAIN t |-> <<t[k].value, t[k].seq>>]
  BY DEF LaneOf
<1> HIDE DEF s, t, n, T
<1>9. DOMAIN t = 1..n + 1 /\ DOMAIN s = 1..n /\ t[n + 1] = e /\ \A k \in 1..n : t[k] = s[k]
  BY <1>7 DEF n
<1> DEFINE Pair(i) == <<i.value, i.seq>>
           a == LaneOf(S)
           b == Append(a, Pair(e))
           c == LaneOf(T)
<1>10. a \in Seq({Pair(i) : i \in Item}) /\ Len(a) = n /\ \A k \in 1..n : a[k] = Pair(s[k])
  <2>1. \A k \in 1..n : s[k] \in Item
    BY <1>7, <1>9
  <2> HIDE DEF Pair
  <2>2. a = [k \in 1..n |-> Pair(s[k])]
    BY <1>8, <1>9 DEF Pair
  <2> HIDE DEF a
  <2> QED
    BY <1>7, <2>1, <2>2
<1> HIDE DEF Pair, a
<1>11. b \in Seq({Pair(i) : i \in Item}) /\ Len(b) = n + 1 /\ b[n + 1] = Pair(e)
       /\ \A k \in 1..n : b[k] = Pair(s[k])
  BY <1>7, <1>10
<1>12. b = [k \in 1..n + 1 |-> b[k]]
  BY <1>11, SequenceAsFunction
<1> HIDE DEF b
<1>13. \A k \in 1..n + 1 : b[k] = Pair(t[k])
  <2>1. \A k \in 1..n + 1 : k \in 1..n \/ k = n + 1
    BY <1>7
  <2> QED
    BY <1>9, <1>11, <2>1
<1>14. c = [k \in 1..n + 1 |-> Pair(t[k])]
  BY <1>8, <1>9 DEF Pair
<1> HIDE DEF c
<1>15. b = c
  BY <1>12, <1>13, <1>14
<1> QED
  BY <1>15 DEF a, b, c, Pair, T

\* When its first entry goes, the others of the lane move up.
LEMMA LaneTail ==
  ASSUME NEW S \in SUBSET Item, IsFiniteSet(S), \A i, j \in S : i.seq = j.seq => i = j,
         NEW e \in S, \A i \in S \ {e} : e.seq < i.seq
  PROVE  LaneOf(S \ {e}) = Tail(LaneOf(S))
<1> DEFINE T == S \ {e}
           more == {p \in S \X S : p[1].seq < p[2].seq}
           less == {p \in T \X T : p[1].seq < p[2].seq}
<1>1. IsStrictOrder(S, more)
  BY SeqOrder
<1>2. IsStrictOrder(T, less)
  BY SeqOrder
<1>3. /\ \A y, z \in T : <<y, z>> \in less <=> <<y, z>> \in more
      /\ \A y \in T : <<e, y>> \in more
  OBVIOUS
<1>4. BySeq(S) = Ranked(S, more) /\ BySeq(T) = Ranked(T, less)
  BY DEF BySeq
<1> HIDE DEF less, more
<1>5. BySeq(S) \in Seq(S) /\ BySeq(S) # <<>> /\ BySeq(T) = Tail(BySeq(S))
  <2>1. /\ Ranked(S, more) \in Seq(S) /\ Ranked(S, more) # <<>>
        /\ Ranked(S \ {e}, less) = Tail(Ranked(S, more))
    BY <1>1, <1>2, <1>3, RankedTail
  <2> QED
    BY <1>4, <2>1
<1> DEFINE s == BySeq(S)
           t == BySeq(T)
           n == Len(s) - 1
<1>6. s \in Seq(Item) /\ n \in Nat /\ Len(s) = n + 1 /\ t = Tail(s) /\ s # <<>>
  <2>1. Seq(S) \subseteq Seq(Item)
    OBVIOUS
  <2>2. s \in Seq(S) /\ s # <<>> /\ t = Tail(s)
    BY <1>5
  <2> HIDE DEF s, t
  <2> QED
    BY <2>1, <2>2
<1>7. /\ LaneOf(S) = [k \in DOMAIN s |-> <<s[k].value, s[k].seq>>]
      /\ LaneOf(T) = [k \in DOMAIN t |-> <<t[k].value, t[k].seq>>]
  BY DEF LaneOf
<1> HIDE DEF s, t, n, T
<1>8. DOMAIN t = 1..n /\ DOMAIN s = 1..n + 1 /\ \A k \in 1..n : t[k] = s[k + 1]
  BY <1>6
<1> DEFINE Pair(i) == <<i.value, i.seq>>
           a == LaneOf(S)
           b == Tail(a)
           c == LaneOf(T)
<1>9. a \in Seq({Pair(i) : i \in Item}) /\ Len(a) = n + 1 /\ \A k \in 1..n + 1 : a[k] = Pair(s[k])
  <2>1. \A k \in 1..n + 1 : s[k] \in Item
    BY <1>6, <1>8
  <2> HIDE DEF Pair
  <2>2. a = [k \in 1..n + 1 |-> Pair(s[k])]
    BY <1>7, <1>8 DEF Pair
  <2> HIDE DEF a
  <2> QED
    BY <1>6, <2>1, <2>2
<1> HIDE DEF Pair, a
<1>10. b \in Seq({Pair(i) : i \in Item}) /\ Len(b) = n /\ \A k \in 1..n : b[k] = a[k + 1]
  BY <1>6, <1>9
<1>11. b = [k \in 1..n |-> b[k]]
  BY <1>10, SequenceAsFunction
<1> HIDE DEF b
<1>12. \A k \in 1..n : b[k] = Pair(t[k])
  <2>1. \A k \in 1..n : k + 1 \in 1..n + 1
    BY <1>6
  <2> QED
    BY <1>8, <1>9, <1>10, <2>1
<1>13. c = [k \in 1..n |-> Pair(t[k])]
  BY <1>7, <1>8 DEF Pair
<1> HIDE DEF c
<1>14. b = c
  BY <1>11, <1>12, <1>13
<1> QED
  BY <1>14 DEF a, b, c, T

\* Every queued entry has the priority of some task, hence a lane.
Laned == \A i \in items : i.priority \in Priorities

\* What the steps of the promise need of the queue.
FifoInv == Counted /\ Quiet /\ Numbered /\ Laned

LEMMA LanedNext == Laned /\ [Next]_vars => Laned'
<1> SUFFICES ASSUME Laned, [Next]_vars PROVE Laned'
  OBVIOUS
<1>1. ASSUME NEW v \in Values, Push(v, Priority[v]) PROVE Laned'
  BY <1>1 DEF Push, PushOpen, Laned, Priorities, qvars
<1>2. ASSUME items' \subseteq items PROVE Laned'
  BY <1>2 DEF Laned
<1>3. CASE EnqueueIndexTask
  BY <1>1, <1>3, PoolAssumption DEF EnqueueIndexTask
<1>4. ASSUME NEW w \in Workers, NEW v \in Values, PushTask(w, v) PROVE Laned'
  BY <1>1, <1>4 DEF PushTask
<1>5. ASSUME NEW w \in Workers, StartWorker(w) \/ WorkerStep(w) PROVE items' \subseteq items
  BY <1>5 DEF StartWorker, WorkerStep, WaitForItem, PopWait, TakeItem, PopItem, ExitLoop, PopClosed,
              StartRun, FinishRun, MarkDone, Done, qvars
<1>6. CASE Cancel \/ AllStarted \/ CloseQueue \/ Join \/ UNCHANGED vars
  BY <1>2, <1>6 DEF Cancel, AllStarted, CloseQueue, Close, Join, qvars, vars
<1> QED
  BY <1>2, <1>3, <1>4, <1>5, <1>6 DEF Next, MainStep, Terminated

LEMMA FifoInvariant == Spec => []FifoInv
<1>1. Init => FifoInv
  BY CountedInit, QuietInit, NumberedInit DEF FifoInv, Laned, Init, QInit
<1>2. FifoInv /\ [Next]_vars => FifoInv'
  BY CountedNext, QuietNext, NumberedNext, LanedNext DEF FifoInv
<1> QED
  BY <1>1, <1>2, PTL DEF Spec

\* The entries of a lane.
LEMMA LaneEntries ==
  ASSUME FifoInv, NEW p
  PROVE  /\ Entries(p) \in SUBSET Item /\ IsFiniteSet(Entries(p))
         /\ \A i, j \in Entries(p) : i.seq = j.seq => i = j
<1>1. Entries(p) \in SUBSET items /\ items \in SUBSET Item /\ IsFiniteSet(items)
  BY DEF FifoInv, Counted, TypeOK, QTypeOK, Entries
<1>2. \A i, j \in items : i.seq = j.seq => i = j
  BY DEF FifoInv, Numbered, RunOnce
<1> QED
  BY <1>1, <1>2, FS_Subset

LEMMA LanesEmpty == FifoInv => (Fifo!Empty <=> items = {})
<1> SUFFICES ASSUME FifoInv PROVE Fifo!Empty <=> items = {}
  OBVIOUS
<1>1. \A p \in Priorities : Lanes[p] = LaneOf(Entries(p))
  BY DEF Lanes
<1>2. \A p \in Priorities : Lanes[p] = <<>> <=> Entries(p) = {}
  BY <1>1, LaneEntries, LaneEmpty
<1>3. items = {} <=> \A p \in Priorities : Entries(p) = {}
  BY DEF FifoInv, Laned, Entries
<1> QED
  BY <1>2, <1>3 DEF Fifo!Empty

\* A push joins the lane of its priority.
LEMMA PushIsPut ==
  ASSUME FifoInv, NEW v \in Values, PushOpen(v, Priority[v]), ~idle
  PROVE  Fifo!Put(v, Priority[v])
<1> DEFINE p == Priority[v]
           e == [value |-> v, priority |-> p, seq |-> nextSeq]
<1>1. /\ p \in Priorities /\ p \in Nat /\ nextSeq \in Nat /\ e \in Item
      /\ e.value = v /\ e.priority = p /\ e.seq = nextSeq
  BY PoolAssumption DEF Priorities, FifoInv, Counted, TypeOK, QTypeOK, Item
<1>2. items' = items \cup {e} /\ nextSeq' = nextSeq + 1 /\ ~closed
      /\ closed' = closed /\ inflight' = inflight /\ idle' = idle
  BY DEF PushOpen
<1> HIDE DEF e, p
<1>3. Entries(p)' = Entries(p) \cup {e} /\ \A o \in Priorities \ {p} : Entries(o)' = Entries(o)
  BY <1>1, <1>2 DEF Entries
<1>4. \A i \in Entries(p) : i.seq < e.seq
  BY <1>1 DEF Entries, FifoInv, Numbered
<1>5. LaneOf(Entries(p) \cup {e}) = Append(LaneOf(Entries(p)), <<v, nextSeq>>)
  BY <1>1, <1>4, LaneEntries, LaneAppend
<1>6. Lanes' = [o \in Priorities |-> LaneOf(Entries(o)')]
  BY DEF Lanes, Entries
<1>7. Lanes' = [Lanes EXCEPT ![p] = Append(@, <<v, nextSeq>>)]
  BY <1>1, <1>3, <1>5, <1>6 DEF Lanes
<1> QED
  BY <1>2, <1>7 DEF Fifo!Put, p

\* What Pop takes is the head of the first lane that is not empty.
LEMMA PopIsTake == ASSUME FifoInv, NEW i \in items, PopItem(i) PROVE Fifo!Take
<1> DEFINE p == i.priority
<1>1. /\ i \in Item /\ p \in Priorities /\ p \in Nat /\ i \in Entries(p)
      /\ \A j \in items : j \in Item /\ j.priority \in Nat /\ j.seq \in Nat
      /\ Priorities \subseteq Nat
  BY PoolAssumption DEF FifoInv, Laned, Counted, TypeOK, QTypeOK, Item, Entries, Priorities
<1>2. /\ items' = items \ {i} /\ inflight' = inflight + 1
      /\ nextSeq' = nextSeq /\ closed' = closed /\ idle' = idle
      /\ \A j \in items \ {i} : Less(i, j)
  BY DEF PopItem, IsTop
<1> HIDE DEF p
<1>3. Entries(p)' = Entries(p) \ {i} /\ \A o \in Priorities \ {p} : Entries(o)' = Entries(o)
  BY <1>1, <1>2 DEF Entries, p
<1>4. \A j \in Entries(p) \ {i} : i.seq < j.seq
  BY <1>1, <1>2 DEF Entries, Less, p
<1>5. \A o \in Priorities : o > p => Entries(o) = {}
  <2> SUFFICES ASSUME NEW o \in Priorities, o > p, NEW j \in Entries(o) PROVE FALSE
    OBVIOUS
  <2>1. j \in items /\ j.priority = o /\ j # i
    BY <1>1 DEF Entries, p
  <2>2. i.priority > j.priority \/ i.priority = j.priority
    BY <1>2, <2>1 DEF Less
  <2> QED
    BY <1>1, <2>1, <2>2 DEF p
<1>6. \A o \in Priorities : Lanes[o] = LaneOf(Entries(o))
  BY DEF Lanes
<1>7. \A o \in Priorities : Lanes[o] = <<>> <=> Entries(o) = {}
  BY <1>6, LaneEntries, LaneEmpty
<1>8. Lanes[p] # <<>> /\ \A o \in Priorities : o > p => Lanes[o] = <<>>
  BY <1>1, <1>5, <1>7
<1>9. LaneOf(Entries(p) \ {i}) = Tail(LaneOf(Entries(p)))
  BY <1>1, <1>4, LaneEntries, LaneTail
<1>10. Lanes' = [o \in Priorities |-> LaneOf(Entries(o)')]
  BY DEF Lanes, Entries
<1>11. Lanes' = [Lanes EXCEPT ![p] = Tail(@)]
  BY <1>1, <1>3, <1>9, <1>10 DEF Lanes
<1> QED
  BY <1>1, <1>2, <1>8, <1>11 DEF Fifo!Take

LEMMA FifoStep == FifoInv /\ [Next]_vars => [Fifo!Next]_(Fifo!vars)
<1> SUFFICES ASSUME FifoInv, [Next]_vars PROVE [Fifo!Next]_(Fifo!vars)
  OBVIOUS
<1>0. ASSUME UNCHANGED <<items, nextSeq, closed, inflight, idle>> PROVE UNCHANGED Fifo!vars
  BY <1>0 DEF Fifo!vars, Lanes, Entries
<1>1. ASSUME NEW v \in Values, Push(v, Priority[v]), ~idle PROVE [Fifo!Next]_(Fifo!vars)
  <2>1. CASE PushOpen(v, Priority[v])
    <3>1. Fifo!Put(v, Priority[v]) /\ Priority[v] \in Priorities
      BY <1>1, <2>1, PushIsPut DEF Priorities
    <3> QED
      BY <3>1 DEF Fifo!Next
  <2>2. CASE UNCHANGED qvars
    BY <1>0, <2>2 DEF qvars
  <2> QED
    BY <1>1, <2>1, <2>2 DEF Push
<1>2. CASE EnqueueIndexTask
  BY <1>1, <1>2, PoolAssumption DEF EnqueueIndexTask, FifoInv, Quiet
<1>3. ASSUME NEW w \in Workers, NEW v \in Values, PushTask(w, v) PROVE [Fifo!Next]_(Fifo!vars)
  <2>1. w \in Busy
    BY <1>3 DEF PushTask, Busy
  <2>2. ~idle
    BY <2>1 DEF FifoInv, Quiet, IdleMeansDone
  <2> QED
    BY <1>1, <1>3, <2>2 DEF PushTask
<1>4. ASSUME NEW w \in Workers, TakeItem(w) PROVE [Fifo!Next]_(Fifo!vars)
  <2>1. PICK i \in items : PopItem(i)
    BY <1>4 DEF TakeItem
  <2> QED
    BY <2>1, PopIsTake DEF Fifo!Next
<1>5. ASSUME NEW w \in Workers, MarkDone(w) PROVE [Fifo!Next]_(Fifo!vars)
  <2>1. inflight \in Nat /\ inflight > 0
    <3>1. w \in Busy
      BY <1>5 DEF MarkDone, Busy
    <3>2. Cardinality(Busy) \in Nat \ {0}
      BY <3>1, FiniteWorkers, CountRemove
    <3> QED
      BY <3>2 DEF FifoInv, Counted, InflightIsBusy
  <2>2. /\ inflight' = inflight - 1 /\ idle' = (idle \/ (inflight' = 0 /\ items = {}))
        /\ items' = items /\ nextSeq' = nextSeq /\ closed' = closed
    BY <1>5 DEF MarkDone, Done
  <2>3. Lanes' = Lanes
    BY <2>2 DEF Lanes, Entries
  <2>4. Fifo!Finish
    BY <2>1, <2>2, <2>3, LanesEmpty DEF Fifo!Finish
  <2> QED
    BY <2>4 DEF Fifo!Next
<1>6. CASE CloseQueue
  <2>1. /\ closed' = TRUE /\ items' = items /\ nextSeq' = nextSeq
        /\ inflight' = inflight /\ idle' = idle
    BY <1>6 DEF CloseQueue, Close
  <2>2. Lanes' = Lanes
    BY <2>1 DEF Lanes, Entries
  <2>3. Fifo!Shut
    BY <2>1, <2>2 DEF Fifo!Shut
  <2> QED
    BY <2>3 DEF Fifo!Next
<1>7. ASSUME NEW w \in Workers,
             StartWorker(w) \/ WaitForItem(w) \/ ExitLoop(w) \/ StartRun(w) \/ FinishRun(w)
      PROVE  [Fifo!Next]_(Fifo!vars)
  BY <1>0, <1>7 DEF StartWorker, WaitForItem, PopWait, ExitLoop, PopClosed, StartRun, FinishRun, qvars
<1>8. CASE Cancel \/ AllStarted \/ Join \/ UNCHANGED vars
  BY <1>0, <1>8 DEF Cancel, AllStarted, Join, qvars, vars
<1> QED
  BY <1>2, <1>3, <1>4, <1>5, <1>6, <1>7, <1>8 DEF Next, MainStep, WorkerStep, Terminated

\* For any workers, tasks and priorities, the queue with its heap, counter,
\* condition variable and threads implements PriorityFifo: a highest priority
\* first, first in first out, nothing lost and nothing twice, and quiet exactly
\* when nothing is left.  (That everything is served in the end is a question of
\* fairness, which the run checks.)
THEOREM QueueIsFifo == Spec => Fifo!Spec
<1>1. Init => Fifo!Init
  <2> SUFFICES ASSUME Init PROVE Fifo!Init
    OBVIOUS
  <2>1. items = {} /\ nextSeq = 0 /\ closed = FALSE /\ inflight = 0 /\ idle = FALSE
    BY DEF Init, QInit
  <2>2. \A p \in Priorities : Entries(p) = {}
    BY <2>1 DEF Entries
  <2>3. LaneOf({}) = <<>>
    BY LaneEmpty, FS_EmptySet
  <2>4. Lanes = [p \in Priorities |-> <<>>]
    BY <2>2, <2>3 DEF Lanes
  <2> QED
    BY <2>1, <2>4 DEF Fifo!Init
<1>2. FifoInv /\ [Next]_vars => [Fifo!Next]_(Fifo!vars)
  BY FifoStep
<1> QED
  BY <1>1, <1>2, FifoInvariant, PTL DEF Spec, Fifo!Spec
=============================================================================
