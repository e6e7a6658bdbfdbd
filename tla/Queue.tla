------------------------------- MODULE Queue -------------------------------
(***************************************************************************)
(* The in-memory task queue, internal/queue/queue.go.                      *)
(*                                                                         *)
(* Every method of Queue holds q.mu from its first line to its return, so  *)
(* one method call is one atomic step.  The exception is Pop: the          *)
(* condition variable's Wait puts the caller in the list of waiters and    *)
(* releases the mutex in one step, and a signalled caller competes for the *)
(* mutex again before it re-evaluates the loop condition.  A call of Pop   *)
(* is therefore any number of PopWait steps, each followed by a Signal or  *)
(* a Broadcast, and at last a PopItem or a PopClosed step.                 *)
(*                                                                         *)
(* This module has the state and the operations; WorkerPool and Pipeline   *)
(* extend it with the threads that call them.                              *)
(***************************************************************************)
EXTENDS Naturals, FiniteSets

CONSTANTS Workers,  \* the threads that call Pop
          Values    \* what can be queued

VARIABLES items,     \* q.items: the heap, as the set of its entries
          nextSeq,   \* q.nextSeq
          closed,    \* q.closed
          inflight,  \* q.inflight
          idle,      \* q.idle is closed
          waiting    \* the goroutines in q.notEmpty's wait list

qvars == <<items, nextSeq, closed, inflight, idle, waiting>>

\* type priorityQueueItem
Item == [value : Values, priority : Nat, seq : Nat]

QInit ==
  /\ items = {}
  /\ nextSeq = 0
  /\ closed = FALSE
  /\ inflight = 0
  /\ idle = FALSE
  /\ waiting = {}

----------------------------------------------------------------------------
\* Bug form: entries of one priority leave in last-in first-out order.
LessLifo(a, b) ==
  \/ a.priority > b.priority
  \/ a.priority = b.priority /\ a.seq > b.seq
\* The heap order: the higher priority first, then the lower sequence number.
Less(a, b) ==
  \/ a.priority > b.priority
  \/ a.priority = b.priority /\ a.seq < b.seq

\* What heap.Pop returns: the entry that Less puts before every other one.
IsTop(i) == i \in items /\ \A j \in items \ {i} : Less(i, j)

\* Bug form: the wakeup is missing.
NoSignal == UNCHANGED waiting
\* notEmpty.Signal: wakes one waiter, when there is one.
Signal ==
  IF waiting = {} THEN waiting' = waiting
                  ELSE \E w \in waiting : waiting' = waiting \ {w}

\* Push on an open queue: the entry is queued and one waiter is woken.
PushOpen(v, p) ==
  /\ ~closed
  /\ items' = items \cup {[value |-> v, priority |-> p, seq |-> nextSeq]}
  /\ nextSeq' = nextSeq + 1
  /\ Signal
  /\ UNCHANGED <<closed, inflight, idle>>

\* Push after Close is a no-op.
Push(v, p) == PushOpen(v, p) \/ (closed /\ UNCHANGED qvars)

\* Pop, the body of its loop: nothing is queued, so the caller waits.
PopWait(w) ==
  /\ items = {} /\ ~closed
  /\ waiting' = waiting \cup {w}
  /\ UNCHANGED <<items, nextSeq, closed, inflight, idle>>

\* Pop, its early return: closed and drained.
PopClosed ==
  /\ items = {} /\ closed
  /\ UNCHANGED qvars

\* Pop, its success: the first entry leaves the heap and is in flight.
PopItem(i) ==
  /\ IsTop(i)
  /\ items' = items \ {i}
  /\ inflight' = inflight + 1
  /\ UNCHANGED <<nextSeq, closed, idle, waiting>>

\* Bug form: idle is signalled as soon as nothing is in flight.
DoneIgnoresQueued ==
  /\ inflight' = inflight - 1
  /\ idle' = (idle \/ inflight' = 0)
  /\ UNCHANGED <<items, nextSeq, closed, waiting>>
\* Bug form: idle is signalled as soon as nothing is queued.
DoneIgnoresInflight ==
  /\ inflight' = inflight - 1
  /\ idle' = (idle \/ items = {})
  /\ UNCHANGED <<items, nextSeq, closed, waiting>>
\* Done closes the idle channel when nothing is queued or in flight.
Done ==
  /\ inflight' = inflight - 1
  /\ idle' = (idle \/ (inflight' = 0 /\ items = {}))
  /\ UNCHANGED <<items, nextSeq, closed, waiting>>

\* Bug form: Signal in the place of Broadcast.
CloseSignal ==
  /\ closed' = TRUE
  /\ Signal
  /\ UNCHANGED <<items, nextSeq, inflight, idle>>
\* Close, which wakes every waiter the first time.
Close ==
  /\ closed' = TRUE
  /\ waiting' = IF closed THEN waiting ELSE {}
  /\ UNCHANGED <<items, nextSeq, inflight, idle>>

QTypeOK ==
  /\ items \subseteq Item
  /\ nextSeq \in Nat
  /\ closed \in BOOLEAN
  /\ inflight \in Nat
  /\ idle \in BOOLEAN
  /\ waiting \subseteq Workers
============================================================================
