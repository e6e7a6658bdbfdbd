-------------------------------- MODULE Disk --------------------------------
(***************************************************************************)
(* The lock on the library's storage, internal/disk/disk.go: a semaphore   *)
(* channel of Concurrency slots inside the read side of a RWMutex, whose   *)
(* write side is DoExclusive, and the bookkeeping that Watch reports.      *)
(*                                                                         *)
(* Each access to the RWMutex, to the channel and to the mu-protected      *)
(* fields is a step of its own, so callers interleave between them.  The   *)
(* RWMutex is Go's: a writer that waits keeps new readers out.  The        *)
(* function a holder runs is the time it spends in "read".                 *)
(***************************************************************************)
EXTENDS Naturals, FiniteSets

CONSTANTS Readers,      \* threads that call Do (tasks reading files)
          Writers,      \* threads that call DoExclusive (the library walk)
          Concurrency,  \* --max-disk-concurrency; 0 means no maximum
          NoOne         \* not a thread

ASSUME DiskAssumption ==
  /\ IsFiniteSet(Readers) /\ IsFiniteSet(Writers)
  /\ Readers \cap Writers = {}
  /\ Concurrency \in Nat
  /\ NoOne \notin Readers \cup Writers

Callers == Readers \cup Writers

VARIABLES pc,       \* where each caller is
          rlocked,  \* the readers that hold exclusive.RLock
          writer,   \* the caller of exclusive.Lock: pending or holding, or NoOne
          sem,      \* the callers that occupy a slot of d.sem
          holders,  \* d.holders, as the callers registered in it
          waiting,  \* d.waiting
          ctxDone   \* the context passed to the calls is done

vars == <<pc, rlocked, writer, sem, holders, waiting, ctxDone>>
lockVars == <<rlocked, writer, sem>>
watchVars == <<holders, waiting>>

Pcs == {"idle", "rlock", "slot", "lock", "pending", "check", "hold", "read",
        "unhold", "freeSlot", "unlock", "abort", "leave"}

Init ==
  /\ pc = [c \in Callers |-> "idle"]
  /\ rlocked = {} /\ writer = NoOne /\ sem = {}
  /\ holders = {} /\ waiting = 0
  /\ ctxDone = FALSE

Goto(c, there) == pc' = [pc EXCEPT ![c] = there]

----------------------------------------------------------------------------
Cancel ==
  /\ ~ctxDone
  /\ ctxDone' = TRUE
  /\ UNCHANGED <<pc, lockVars, watchVars>>

\* Do and DoExclusive: the caller counts itself as waiting.
Enter(c) ==
  /\ pc[c] = "idle"
  /\ waiting' = waiting + 1
  /\ Goto(c, IF c \in Readers THEN "rlock" ELSE "lock")
  /\ UNCHANGED <<lockVars, holders, ctxDone>>

\* Do, exclusive.RLock.
RLock(r) ==
  /\ pc[r] = "rlock" /\ writer = NoOne
  /\ rlocked' = rlocked \cup {r}
  /\ Goto(r, "slot")
  /\ UNCHANGED <<writer, sem, watchVars, ctxDone>>

\* Bug form: the channel has one slot too many.
TakeSlotExtra(r) ==
  /\ pc[r] = "slot"
  /\ IF Concurrency = 0
       THEN UNCHANGED sem
       ELSE Cardinality(sem) <= Concurrency /\ sem' = sem \cup {r}
  /\ Goto(r, "hold")
  /\ UNCHANGED <<rlocked, writer, watchVars, ctxDone>>
\* Do, the send case of its select; without a semaphore there is no select.
TakeSlot(r) ==
  /\ pc[r] = "slot"
  /\ IF Concurrency = 0
       THEN UNCHANGED sem
       ELSE Cardinality(sem) < Concurrency /\ sem' = sem \cup {r}
  /\ Goto(r, "hold")
  /\ UNCHANGED <<rlocked, writer, watchVars, ctxDone>>

\* Bug form: the read lock is kept on the error return.
GiveUpLocked(r) ==
  /\ pc[r] = "slot" /\ Concurrency > 0 /\ ctxDone
  /\ Goto(r, "leave")
  /\ UNCHANGED <<lockVars, watchVars, ctxDone>>
\* Do, the ctx.Done case of its select: the read lock is released.
GiveUp(r) ==
  /\ pc[r] = "slot" /\ Concurrency > 0 /\ ctxDone
  /\ rlocked' = rlocked \ {r}
  /\ Goto(r, "leave")
  /\ UNCHANGED <<writer, sem, watchVars, ctxDone>>

\* DoExclusive, exclusive.Lock: the writer announces itself ...
AnnounceLock(w) ==
  /\ pc[w] = "lock" /\ writer = NoOne
  /\ writer' = w
  /\ Goto(w, "pending")
  /\ UNCHANGED <<rlocked, sem, watchVars, ctxDone>>

\* ... and has the lock when the last reader has left.
Lock(w) ==
  /\ pc[w] = "pending" /\ rlocked = {}
  /\ Goto(w, "check")
  /\ UNCHANGED <<lockVars, watchVars, ctxDone>>

\* Bug form: the context is not looked at after the wait.
CheckCtxNot(w) ==
  /\ pc[w] = "check"
  /\ Goto(w, "hold")
  /\ UNCHANGED <<lockVars, watchVars, ctxDone>>
\* DoExclusive returns ctx's error without running its function.
CheckCtx(w) ==
  /\ pc[w] = "check"
  /\ Goto(w, IF ctxDone THEN "abort" ELSE "hold")
  /\ UNCHANGED <<lockVars, watchVars, ctxDone>>

\* Bug form: the error return leaves the caller counted as waiting.
AbortExclusiveCounted(w) ==
  /\ pc[w] = "abort"
  /\ writer' = NoOne
  /\ Goto(w, "idle")
  /\ UNCHANGED <<rlocked, sem, watchVars, ctxDone>>
\* Unlock on the error return.
AbortExclusive(w) ==
  /\ pc[w] = "abort"
  /\ writer' = NoOne
  /\ Goto(w, "leave")
  /\ UNCHANGED <<rlocked, sem, watchVars, ctxDone>>

\* The error returns of Do and DoExclusive no longer count as waiting.
Leave(c) ==
  /\ pc[c] = "leave"
  /\ waiting' = waiting - 1
  /\ Goto(c, "idle")
  /\ UNCHANGED <<lockVars, holders, ctxDone>>

\* hold: the caller is registered as a holder and runs its function.
Hold(c) ==
  /\ pc[c] = "hold"
  /\ waiting' = waiting - 1
  /\ holders' = holders \cup {c}
  /\ Goto(c, "read")
  /\ UNCHANGED <<lockVars, ctxDone>>

\* The function returns.
EndRead(c) ==
  /\ pc[c] = "read"
  /\ Goto(c, "unhold")
  /\ UNCHANGED <<lockVars, watchVars, ctxDone>>

\* hold's deferred function: the registration is deleted ...
Unhold(c) ==
  /\ pc[c] = "unhold"
  /\ holders' = holders \ {c}
  /\ Goto(c, IF c \in sem THEN "freeSlot" ELSE "unlock")
  /\ UNCHANGED <<lockVars, waiting, ctxDone>>

\* ... the slot is received back ...
FreeSlot(r) ==
  /\ pc[r] = "freeSlot"
  /\ sem' = sem \ {r}
  /\ Goto(r, "unlock")
  /\ UNCHANGED <<rlocked, writer, watchVars, ctxDone>>

\* ... and the RWMutex is unlocked.
Unlock(c) ==
  /\ pc[c] = "unlock"
  /\ rlocked' = rlocked \ {c}
  /\ writer' = IF c \in Writers THEN NoOne ELSE writer
  /\ Goto(c, "idle")
  /\ UNCHANGED <<sem, watchVars, ctxDone>>

----------------------------------------------------------------------------
ReaderStep(r) == RLock(r) \/ TakeSlot(r) \/ GiveUp(r) \/ FreeSlot(r)
WriterStep(w) == AnnounceLock(w) \/ Lock(w) \/ CheckCtx(w) \/ AbortExclusive(w)
HolderStep(c) == Hold(c) \/ EndRead(c) \/ Unhold(c) \/ Unlock(c) \/ Leave(c)

Next ==
  \/ Cancel
  \/ \E c \in Callers : Enter(c) \/ HolderStep(c)
  \/ \E r \in Readers : ReaderStep(r)
  \/ \E w \in Writers : WriterStep(w)

Spec == Init /\ [][Next]_vars

\* A thread that can step does; a function that holds the disk returns.
\* Strong fairness where threads compete: Go's channels hand a slot to the
\* sender that waits longest, and a RWMutex lets the readers that queued up
\* behind a writer in before the next writer.
FairSpec ==
  /\ Spec
  /\ \A c \in Callers : WF_vars(HolderStep(c))
  /\ \A r \in Readers : SF_vars(ReaderStep(r))
  /\ \A w \in Writers : SF_vars(WriterStep(w))

----------------------------------------------------------------------------
\* Between its registration and the end of its function.
Reading == {c \in Callers : pc[c] = "read"}
\* Between Enter and hold, or the error return.
Before == {c \in Callers : pc[c] \in {"rlock", "slot", "lock", "pending",
                                      "check", "abort", "hold", "leave"}}

TypeOK ==
  /\ pc \in [Callers -> Pcs]
  /\ rlocked \subseteq Readers
  /\ writer \in Writers \cup {NoOne}
  /\ sem \subseteq Readers
  /\ holders \subseteq Callers
  /\ waiting \in Nat
  /\ ctxDone \in BOOLEAN

\* The walk reads alone, and shared reads never exceed the flag's maximum.
SharedOrExclusive ==
  /\ Concurrency > 0 => Cardinality(Reading \cap Readers) <= Concurrency
  /\ \A w \in Writers : w \in Reading => Reading = {w}

\* What Watch logs: the registered holders are those that read or have just
\* finished, and the number of waiters counts exactly the calls that have
\* not got the disk, on every path including the error returns, which give
\* back the lock first and the count later.
WatchAccurate ==
  /\ holders = {c \in Callers : pc[c] \in {"read", "unhold"}}
  /\ waiting = Cardinality(Before)

\* The lock refines its promise: a reader's function may run from the moment
\* it leaves the lock's code until its deferred release, and a walk is let in
\* when it has looked at the context, alone from then on: one that gets the
\* lock after the shutdown began reads no directory for a run that is over.
Promise == INSTANCE ReadersWriters WITH
             shared <- {r \in Readers : pc[r] \in {"read", "unhold"}},
             exclusive <- {w \in Writers : pc[w] \in {"hold", "read", "unhold"}},
             over <- ctxDone
ImplementsPromise == Promise!Spec

\* Every call returns, also when calls of both kinds compete for ever:
\* a reader that waits for a slot while a writer waits for it is no deadlock.
CallsReturn == \A c \in Callers : pc[c] # "idle" ~> pc[c] = "idle"
============================================================================
