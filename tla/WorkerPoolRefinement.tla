------------------------ MODULE WorkerPoolRefinement ------------------------
(* The queue with its condition variable and worker threads implements     *)
(* PriorityFifo: each lane is the heap's entries of that priority, in the  *)
(* order of their sequence numbers.                                        *)
EXTENDS WorkerPool, Sequences, Ranking

\* Entries, oldest first, and what the promise says of them.
BySeq(S) == Ranked(S, {p \in S \X S : p[1].seq < p[2].seq})
LaneOf(S) == [k \in DOMAIN BySeq(S) |-> <<BySeq(S)[k].value, BySeq(S)[k].seq>>]

Priorities == {Priority[v] : v \in Values}
Entries(p) == {i \in items : i.priority = p}
Lanes == [p \in Priorities |-> LaneOf(Entries(p))]

Fifo == INSTANCE PriorityFifo WITH
          lanes <- Lanes, tickets <- nextSeq, open <- ~closed,
          taken <- inflight, quiet <- idle

\* Every push, pop, Done and Close is a step the promise allows, in priority
\* then arrival order, and no other step touches what the promise is about.
\* Every queued task is popped and every popped task finished: no worker
\* sleeps for ever while there is work, before or after Close.
ServesFifo == Fifo!FairSpec
============================================================================
