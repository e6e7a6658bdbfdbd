----------------------------- MODULE DiskProofs -----------------------------
(***************************************************************************)
(* Proofs about the disk lock, for any number of readers and writers and   *)
(* any maximum of concurrent reads: mutual exclusion, the limit, and the   *)
(* refinement of ReadersWriters.                                           *)
(***************************************************************************)
EXTENDS Disk, FiniteSetTheorems, TLAPS

\* Readers and writers stay in their own method's code.
Lanes ==
  /\ \A r \in Readers : pc[r] \notin {"lock", "pending", "check", "abort"}
  /\ \A w \in Writers : pc[w] \notin {"rlock", "slot", "freeSlot"}

\* Who holds which lock follows from where the callers are.
LocksMatch ==
  /\ rlocked = {r \in Readers : pc[r] \in {"slot", "hold", "read", "unhold", "freeSlot", "unlock"}}
  /\ sem = IF Concurrency = 0 THEN {}
           ELSE {r \in Readers : pc[r] \in {"hold", "read", "unhold", "freeSlot"}}
  /\ \A w \in Writers :
       writer = w <=> pc[w] \in {"pending", "check", "hold", "read", "unhold", "unlock", "abort"}

\* A writer that got past "pending" has no reader beside it, and the channel
\* never holds more than its capacity.
Excluded ==
  /\ \A w \in Writers :
       pc[w] \in {"check", "hold", "read", "unhold", "unlock", "abort"} => rlocked = {}
  /\ Concurrency > 0 => Cardinality(sem) <= Concurrency

\* All of TypeOK but the range of the waiting counter, which needs counting.
Typed ==
  /\ pc \in [Callers -> Pcs]
  /\ rlocked \subseteq Readers
  /\ writer \in Writers \cup {NoOne}
  /\ sem \subseteq Readers

LockInv == Typed /\ Lanes /\ LocksMatch /\ Excluded

LEMMA LockInvInit == Init => LockInv
  BY DiskAssumption, FS_EmptySet
     DEF Init, LockInv, Typed, Lanes, LocksMatch, Excluded, Callers, Pcs

\* A step that moves one caller to "there" changes no other caller's place.
LEMMA GotoEffect ==
  ASSUME Typed, NEW c \in Callers, NEW there \in Pcs, Goto(c, there)
  PROVE  /\ pc' \in [Callers -> Pcs] /\ pc'[c] = there
         /\ \A d \in Callers : d # c => pc'[d] = pc[d]
  BY DEF Goto, Typed

LEMMA LockInvNext == LockInv /\ [Next]_vars => LockInv'
<1> SUFFICES ASSUME LockInv, [Next]_vars PROVE LockInv'  OBVIOUS
<1> USE DiskAssumption DEF LockInv, Lanes, LocksMatch, Excluded, Callers
<1>a. IsFiniteSet(sem)
  BY FS_Subset DEF Typed
<1>0. CASE UNCHANGED vars
  BY <1>0 DEF vars, Typed
<1>1. CASE Cancel
  BY <1>1 DEF Cancel, lockVars, Typed
<1>2. ASSUME NEW c \in Callers, Enter(c) PROVE LockInv'
  BY <1>2 DEF Enter, lockVars, Goto, Typed, Pcs
<1>3. ASSUME NEW r \in Readers, RLock(r) PROVE LockInv'
  BY <1>3 DEF RLock, Goto, Typed, Pcs
<1>4. ASSUME NEW r \in Readers, TakeSlot(r) PROVE LockInv'
  <2>1. pc[r] = "slot" /\ Goto(r, "hold") /\ UNCHANGED <<rlocked, writer>>
    BY <1>4 DEF TakeSlot
  <2>2. CASE Concurrency = 0
    BY <1>4, <2>1, <2>2 DEF TakeSlot, Goto, Typed, Pcs
  <2>3. CASE Concurrency # 0
    <3>1. Cardinality(sem) < Concurrency /\ sem' = sem \cup {r}
      BY <1>4, <2>3 DEF TakeSlot
    <3>2. r \notin sem  BY <2>1
    <3>3. Cardinality(sem') = Cardinality(sem) + 1 /\ Cardinality(sem) \in Nat
      BY <1>a, <3>1, <3>2, FS_AddElement, FS_CardinalityType
    <3>4. Cardinality(sem') <= Concurrency  BY <3>1, <3>3
    <3>5. QED  BY <2>1, <2>3, <3>1, <3>4 DEF Goto, Typed, Pcs
  <2>4. QED  BY <2>2, <2>3
<1>5. ASSUME NEW r \in Readers, GiveUp(r) PROVE LockInv'
  BY <1>5 DEF GiveUp, Goto, Typed, Pcs
<1>6. ASSUME NEW r \in Readers, FreeSlot(r) PROVE LockInv'
  <2>0. sem' = sem \ {r}  BY <1>6 DEF FreeSlot
  <2>1. /\ Cardinality(sem) \in Nat
        /\ Cardinality(sem') \in {Cardinality(sem), Cardinality(sem) - 1}
    BY <1>a, <2>0, FS_RemoveElement, FS_CardinalityType
  <2>2. Concurrency > 0 => Cardinality(sem') <= Concurrency  BY <2>1
  <2>3. QED  BY <1>6, <2>2 DEF FreeSlot, Goto, Typed, Pcs
<1>7. ASSUME NEW w \in Writers, AnnounceLock(w) PROVE LockInv'
  BY <1>7 DEF AnnounceLock, Goto, Typed, Pcs
<1>8. ASSUME NEW w \in Writers, Lock(w) PROVE LockInv'
  BY <1>8 DEF Lock, lockVars, Goto, Typed, Pcs
<1>9. ASSUME NEW w \in Writers, CheckCtx(w) PROVE LockInv'
  BY <1>9 DEF CheckCtx, lockVars, Goto, Typed, Pcs
<1>10. ASSUME NEW w \in Writers, AbortExclusive(w) PROVE LockInv'
  BY <1>10 DEF AbortExclusive, Goto, Typed, Pcs
<1>11. ASSUME NEW c \in Callers, Hold(c) PROVE LockInv'
  BY <1>11 DEF Hold, lockVars, Goto, Typed, Pcs
<1>12. ASSUME NEW c \in Callers, EndRead(c) PROVE LockInv'
  BY <1>12 DEF EndRead, lockVars, Goto, Typed, Pcs
<1>13. ASSUME NEW c \in Callers, Unhold(c) PROVE LockInv'
  BY <1>13 DEF Unhold, lockVars, Goto, Typed, Pcs
<1>14. ASSUME NEW c \in Callers, Unlock(c) PROVE LockInv'
  BY <1>14 DEF Unlock, Goto, Typed, Pcs
<1>15. ASSUME NEW c \in Callers, Leave(c) PROVE LockInv'
  BY <1>15 DEF Leave, lockVars, Goto, Typed, Pcs
<1>16. QED
  BY <1>0, <1>1, <1>2, <1>3, <1>4, <1>5, <1>6, <1>7, <1>8, <1>9, <1>10, <1>11, <1>12,
     <1>13, <1>14, <1>15 DEF Next, ReaderStep, WriterStep, HolderStep

\* The walk reads alone and shared reads never exceed the maximum, whatever
\* the number of threads and of slots.
THEOREM DiskExclusion == Spec => []SharedOrExclusive
<1>1. LockInv => SharedOrExclusive
  <2> SUFFICES ASSUME LockInv PROVE SharedOrExclusive  OBVIOUS
  <2> USE DiskAssumption DEF LockInv, Lanes, LocksMatch, Excluded, Callers
  <2>1. ASSUME Concurrency > 0 PROVE Cardinality(Reading \cap Readers) <= Concurrency
    <3>1. Concurrency \in Nat /\ Concurrency # 0  BY <2>1
    <3>2. Reading \cap Readers \in SUBSET sem  BY <3>1 DEF Reading
    <3>3. IsFiniteSet(sem)  BY FS_Subset DEF Typed
    <3>4. /\ Cardinality(Reading \cap Readers) <= Cardinality(sem)
          /\ IsFiniteSet(Reading \cap Readers)
      BY <3>2, <3>3, FS_Subset
    <3>5. Cardinality(sem) \in Nat /\ Cardinality(Reading \cap Readers) \in Nat
      BY <3>3, <3>4, FS_CardinalityType
    <3>6. QED  BY <2>1, <3>4, <3>5
  <2>2. ASSUME NEW w \in Writers, w \in Reading PROVE Reading = {w}
    <3>1. pc[w] = "read" /\ writer = w /\ rlocked = {}  BY <2>2 DEF Reading
    <3>2. \A r \in Readers : r \notin Reading  BY <3>1 DEF Reading
    <3>3. \A v \in Writers : v \in Reading => v = w  BY <3>1 DEF Reading
    <3>4. QED  BY <2>2, <3>2, <3>3 DEF Reading
  <2>3. QED  BY <2>1, <2>2 DEF SharedOrExclusive
<1>2. QED  BY <1>1, LockInvInit, LockInvNext, PTL DEF Spec

----------------------------------------------------------------------------
(* The refinement.  Hold starts a reader's function, CheckCtx lets a walk  *)
(* in unless the context is done, and Unhold ends both; every other step   *)
(* but Cancel leaves the mapped variables as they are.                     *)

Shared == {r \in Readers : pc[r] \in {"read", "unhold"}}
Alone == {w \in Writers : pc[w] \in {"hold", "read", "unhold"}}

LEMMA PromiseStep == LockInv /\ [Next]_vars => [Promise!Next]_(Promise!vars)
<1> SUFFICES ASSUME LockInv, [Next]_vars PROVE [Promise!Next]_(Promise!vars)
  OBVIOUS
<1>s. Shared = {r \in Readers : pc[r] \in {"read", "unhold"}}
      /\ Alone = {w \in Writers : pc[w] \in {"hold", "read", "unhold"}}
  BY DEF Shared, Alone
<1>m. Promise!vars = <<Shared, Alone, ctxDone>>
  BY <1>s DEF Promise!vars
<1>1. ASSUME Shared' = Shared, Alone' = Alone, ctxDone' = ctxDone
      PROVE  [Promise!Next]_(Promise!vars)
  BY <1>1, <1>m DEF Promise!vars, Shared, Alone
<1>2. ASSUME NEW r \in Readers, Hold(r) PROVE Promise!BeginShared(r)
  <2> USE DiskAssumption DEF LockInv, Lanes, LocksMatch, Excluded, Callers
  <2>1. pc[r] = "hold" /\ Goto(r, "read") /\ ctxDone' = ctxDone  BY <1>2 DEF Hold
  <2>2. r \notin Shared /\ Shared' = Shared \cup {r} /\ Alone' = Alone
    BY <2>1 DEF Goto, Typed, Shared, Alone
  <2>3. Alone = {}
    <3>1. r \in rlocked  BY <2>1
    <3>2. QED  BY <3>1 DEF Alone
  <2>4. Concurrency = 0 \/ Cardinality(Shared) < Concurrency
    <3> SUFFICES ASSUME Concurrency # 0 PROVE Cardinality(Shared) < Concurrency
      OBVIOUS
    <3>1. r \in sem /\ Shared \subseteq sem \ {r}  BY <2>1 DEF Shared
    <3>2. IsFiniteSet(sem)  BY FS_Subset DEF Typed
    <3>3. /\ IsFiniteSet(sem \ {r}) /\ Cardinality(sem) \in Nat
          /\ Cardinality(sem \ {r}) = Cardinality(sem) - 1
      BY <3>1, <3>2, FS_RemoveElement, FS_CardinalityType
    <3>4. Cardinality(Shared) <= Cardinality(sem \ {r}) /\ IsFiniteSet(Shared)
      BY <3>1, <3>3, FS_Subset
    <3>5. Cardinality(Shared) \in Nat  BY <3>4, FS_CardinalityType
    <3>6. Cardinality(sem) <= Concurrency  OBVIOUS
    <3>7. QED  BY <3>3, <3>4, <3>5, <3>6
  <2>5. /\ r \notin Shared /\ Alone = {}
        /\ Concurrency = 0 \/ Cardinality(Shared) < Concurrency
        /\ Shared' = Shared \cup {r} /\ Alone' = Alone
    BY <2>2, <2>3, <2>4
  \* The instance has a Cardinality of its own, equal by definition.
  <2>6. QED
    BY <2>1, <2>5 DEF Promise!BeginShared, Promise!Cardinality, Cardinality, Shared, Alone
<1>3. ASSUME NEW w \in Writers, CheckCtx(w), ~ctxDone PROVE Promise!BeginExclusive(w)
  <2> USE DiskAssumption DEF LockInv, Lanes, LocksMatch, Excluded, Callers
  <2>1. pc[w] = "check" /\ Goto(w, "hold") /\ ctxDone' = ctxDone  BY <1>3 DEF CheckCtx
  <2>2. Shared = {} /\ Alone = {}  BY <2>1 DEF Shared, Alone
  <2>3. Alone' = {w} /\ Shared' = Shared
    BY <2>1, <2>2 DEF Goto, Typed, Shared, Alone
  <2>4. QED  BY <1>3, <2>1, <2>2, <2>3 DEF Promise!BeginExclusive, Shared, Alone
<1>4. ASSUME NEW r \in Readers, Unhold(r) PROVE Promise!EndShared(r)
  BY <1>4, DiskAssumption
     DEF Unhold, Goto, LockInv, Typed, Callers, Promise!EndShared
<1>5. ASSUME NEW w \in Writers, Unhold(w) PROVE Promise!EndExclusive(w)
  BY <1>5, DiskAssumption
     DEF Unhold, Goto, LockInv, Typed, Callers, Promise!EndExclusive
<1>6. ASSUME NEW c \in Callers, Enter(c) \/ EndRead(c) \/ Unlock(c) \/ Leave(c)
      PROVE  Shared' = Shared /\ Alone' = Alone /\ ctxDone' = ctxDone
  BY <1>6 DEF Enter, EndRead, Unlock, Leave, Goto, LockInv, Typed, Callers,
     Shared, Alone
<1>7. ASSUME NEW r \in Readers, ReaderStep(r)
      PROVE  Shared' = Shared /\ Alone' = Alone /\ ctxDone' = ctxDone
  BY <1>7, DiskAssumption DEF ReaderStep, RLock, TakeSlot, GiveUp, FreeSlot, Goto, LockInv, Typed,
     Callers, Shared, Alone
<1>8. ASSUME NEW w \in Writers, WriterStep(w), ~CheckCtx(w) \/ ctxDone
      PROVE  Shared' = Shared /\ Alone' = Alone /\ ctxDone' = ctxDone
  BY <1>8, DiskAssumption DEF WriterStep, AnnounceLock, Lock, CheckCtx, AbortExclusive, Goto, LockInv,
     Typed, Callers, Shared, Alone
<1>9. ASSUME NEW w \in Writers, Hold(w)
      PROVE  Shared' = Shared /\ Alone' = Alone /\ ctxDone' = ctxDone
  BY <1>9, DiskAssumption DEF Hold, Goto, LockInv, Typed, Callers, Shared, Alone
<1>10. CASE Cancel
  <2>1. Shared' = Shared /\ Alone' = Alone /\ ctxDone'
    BY <1>10 DEF Cancel, Shared, Alone
  <2>2. Promise!ShutDown  BY <2>1 DEF Promise!ShutDown, Shared, Alone
  <2>3. QED  BY <2>2 DEF Promise!Next
<1>11. CASE UNCHANGED vars
  <2>1. Shared' = Shared /\ Alone' = Alone /\ ctxDone' = ctxDone
    BY <1>11 DEF vars, Shared, Alone
  <2>2. QED  BY <1>1, <2>1
<1>12. CASE \E c \in Callers : Enter(c) \/ HolderStep(c)
  <2>1. PICK c \in Callers : Enter(c) \/ HolderStep(c)  BY <1>12
  <2>2. CASE Hold(c)
    BY <1>1, <1>2, <1>9, <2>2 DEF Callers, Promise!Next
  <2>3. CASE Unhold(c)
    BY <1>4, <1>5, <2>3 DEF Callers, Promise!Next
  <2>4. CASE Enter(c) \/ EndRead(c) \/ Unlock(c) \/ Leave(c)
    BY <1>1, <1>6, <2>4
  <2>5. QED  BY <2>1, <2>2, <2>3, <2>4 DEF HolderStep
<1>13. CASE \E w \in Writers : WriterStep(w)
  <2>1. PICK w \in Writers : WriterStep(w)  BY <1>13
  <2>2. CASE CheckCtx(w) /\ ~ctxDone
    BY <1>3, <2>2 DEF Promise!Next
  <2>3. CASE ~CheckCtx(w) \/ ctxDone
    BY <1>1, <1>8, <2>1, <2>3
  <2>4. QED  BY <2>2, <2>3
<1>14. QED  BY <1>1, <1>7, <1>10, <1>11, <1>12, <1>13 DEF Next

\* The RWMutex with a channel of slots inside implements the abstract lock:
\* at most Concurrency shared holders, or one exclusive holder alone, which
\* was not let in after the shutdown began.
THEOREM DiskImplements == Spec => ImplementsPromise
<1>1. Init => Promise!Init
  BY DEF Init, Callers, Promise!Init
<1>2. QED
  BY <1>1, LockInvInit, LockInvNext, PromiseStep, PTL
     DEF Spec, ImplementsPromise, Promise!Spec

----------------------------------------------------------------------------
(* What Watch reports.  Each call is counted once from its first step to   *)
(* its registration or its error return, and registered once.              *)

Reported ==
  /\ holders = {c \in Callers : pc[c] \in {"read", "unhold"}}
  /\ waiting = Cardinality(Before)

LEMMA ReportedInit == Init => Reported
  BY FS_EmptySet DEF Init, Reported, Before

LEMMA ReportedNext == LockInv /\ Reported /\ [Next]_vars => Reported'
<1> SUFFICES ASSUME LockInv, Reported, [Next]_vars PROVE Reported'  OBVIOUS
<1> USE DEF LockInv, Typed, Lanes
<1>a. IsFiniteSet(Before) /\ Cardinality(Before) \in Nat
  <2>1. IsFiniteSet(Callers)  BY DiskAssumption, FS_Union DEF Callers
  <2>2. Before \in SUBSET Callers  BY DEF Before
  <2>3. QED  BY <2>1, <2>2, FS_Subset, FS_CardinalityType
<1>1. ASSUME Before' = Before, waiting' = waiting,
             holders' = {c \in Callers : pc'[c] \in {"read", "unhold"}}
      PROVE  Reported'
  BY <1>1 DEF Reported
<1>2. ASSUME NEW c \in Callers, Enter(c) PROVE Reported'
  <2>1. c \notin Before /\ Before' = Before \cup {c}
    BY <1>2 DEF Enter, Goto, Before
  <2>2. Cardinality(Before') = Cardinality(Before) + 1
    BY <1>a, <2>1, FS_AddElement
  <2>3. holders' = holders /\ waiting' = waiting + 1  BY <1>2 DEF Enter
  <2>4. {d \in Callers : pc'[d] \in {"read", "unhold"}} = {d \in Callers : pc[d] \in {"read", "unhold"}}
    BY <1>2 DEF Enter, Goto
  <2>5. QED  BY <2>2, <2>3, <2>4 DEF Reported
<1>3. ASSUME NEW c \in Callers, Hold(c) PROVE Reported'
  <2>1. c \in Before /\ Before' = Before \ {c}
    BY <1>3 DEF Hold, Goto, Before
  <2>2. Cardinality(Before') = Cardinality(Before) - 1
    BY <1>a, <2>1, FS_RemoveElement
  <2>3. holders' = holders \cup {c} /\ waiting' = waiting - 1  BY <1>3 DEF Hold
  <2>4. {d \in Callers : pc'[d] \in {"read", "unhold"}}
          = {d \in Callers : pc[d] \in {"read", "unhold"}} \cup {c}
    BY <1>3 DEF Hold, Goto
  <2>5. QED  BY <2>2, <2>3, <2>4 DEF Reported
<1>4. ASSUME NEW c \in Callers, Leave(c) PROVE Reported'
  <2>1. c \in Before /\ Before' = Before \ {c}
    BY <1>4 DEF Leave, Goto, Before
  <2>2. Cardinality(Before') = Cardinality(Before) - 1
    BY <1>a, <2>1, FS_RemoveElement
  <2>3. holders' = holders /\ waiting' = waiting - 1  BY <1>4 DEF Leave
  <2>4. {d \in Callers : pc'[d] \in {"read", "unhold"}} = {d \in Callers : pc[d] \in {"read", "unhold"}}
    BY <1>4 DEF Leave, Goto
  <2>5. QED  BY <2>2, <2>3, <2>4 DEF Reported
<1>5. ASSUME NEW c \in Callers, Unhold(c) PROVE Reported'
  <2>1. Before' = Before /\ waiting' = waiting /\ holders' = holders \ {c}
    BY <1>5 DEF Unhold, Goto, Before
  <2>2. {d \in Callers : pc'[d] \in {"read", "unhold"}}
          = {d \in Callers : pc[d] \in {"read", "unhold"}} \ {c}
    BY <1>5 DEF Unhold, Goto
  <2>3. QED  BY <1>1, <2>1, <2>2 DEF Reported
<1>6. ASSUME NEW c \in Callers, EndRead(c) \/ Unlock(c) PROVE Reported'
  <2>1. Before' = Before /\ waiting' = waiting /\ holders' = holders
    BY <1>6 DEF EndRead, Unlock, Goto, Before, watchVars
  <2>2. {d \in Callers : pc'[d] \in {"read", "unhold"}} = {d \in Callers : pc[d] \in {"read", "unhold"}}
    BY <1>6 DEF EndRead, Unlock, Goto
  <2>3. QED  BY <1>1, <2>1, <2>2 DEF Reported
<1>7. ASSUME NEW r \in Readers, ReaderStep(r) PROVE Reported'
  <2>1. waiting' = waiting /\ holders' = holders
    BY <1>7 DEF ReaderStep, RLock, TakeSlot, GiveUp, FreeSlot, watchVars
  <2>2. Before' = Before
    BY <1>7 DEF ReaderStep, RLock, TakeSlot, GiveUp, FreeSlot, Goto, Before, Callers
  <2>3. {d \in Callers : pc'[d] \in {"read", "unhold"}} = {d \in Callers : pc[d] \in {"read", "unhold"}}
    BY <1>7 DEF ReaderStep, RLock, TakeSlot, GiveUp, FreeSlot, Goto, Callers
  <2>4. QED  BY <1>1, <2>1, <2>2, <2>3 DEF Reported
<1>8. ASSUME NEW w \in Writers, WriterStep(w) PROVE Reported'
  <2>1. waiting' = waiting /\ holders' = holders
    BY <1>8 DEF WriterStep, AnnounceLock, Lock, CheckCtx, AbortExclusive, watchVars
  <2>2. Before' = Before
    BY <1>8 DEF WriterStep, AnnounceLock, Lock, CheckCtx, AbortExclusive, Goto, Before, Callers
  <2>3. {d \in Callers : pc'[d] \in {"read", "unhold"}} = {d \in Callers : pc[d] \in {"read", "unhold"}}
    BY <1>8 DEF WriterStep, AnnounceLock, Lock, CheckCtx, AbortExclusive, Goto, Callers
  <2>4. QED  BY <1>1, <2>1, <2>2, <2>3 DEF Reported
<1>9. CASE Cancel \/ UNCHANGED vars
  BY <1>9 DEF Cancel, watchVars, vars, Reported, Before
<1>10. QED
  BY <1>2, <1>3, <1>4, <1>5, <1>6, <1>7, <1>8, <1>9 DEF Next, HolderStep

\* The log of Watch is right: its holders are the calls whose function runs
\* or has just returned, and its waiters exactly those without the disk.
THEOREM WatchCorrect == Spec => []WatchAccurate
<1>1. Reported => WatchAccurate  BY DEF Reported, WatchAccurate
<1>2. QED
  BY <1>1, LockInvInit, LockInvNext, ReportedInit, ReportedNext, PTL DEF Spec

CtxTyped == ctxDone \in BOOLEAN

LEMMA CtxNext == CtxTyped /\ [Next]_vars => CtxTyped'
<1> SUFFICES ASSUME CtxTyped, [Next]_vars PROVE CtxTyped'  OBVIOUS
<1> USE DEF CtxTyped
<1>1. ASSUME NEW c \in Callers, Enter(c) \/ HolderStep(c) PROVE ctxDone' = ctxDone
  BY <1>1 DEF Enter, HolderStep, Hold, EndRead, Unhold, Unlock, Leave
<1>2. ASSUME NEW r \in Readers, ReaderStep(r) PROVE ctxDone' = ctxDone
  BY <1>2 DEF ReaderStep, RLock, TakeSlot, GiveUp, FreeSlot
<1>3. ASSUME NEW w \in Writers, WriterStep(w) PROVE ctxDone' = ctxDone
  BY <1>3 DEF WriterStep, AnnounceLock, Lock, CheckCtx, AbortExclusive
<1>4. CASE Cancel \/ UNCHANGED vars
  BY <1>4 DEF Cancel, vars
<1>5. QED
  BY <1>1, <1>2, <1>3, <1>4 DEF Next

\* The state of the lock is well typed; the waiting counter never falls below
\* zero because it counts the callers before the disk.
THEOREM TypeCorrect == Spec => []TypeOK
<1>1. Init => CtxTyped  BY DEF Init, CtxTyped
<1>2. LockInv /\ Reported /\ CtxTyped => TypeOK
  <2> SUFFICES ASSUME LockInv, Reported, CtxTyped PROVE TypeOK  OBVIOUS
  <2>1. IsFiniteSet(Callers)  BY DiskAssumption, FS_Union DEF Callers
  <2>2. Before \in SUBSET Callers  BY DEF Before
  <2>3. waiting \in Nat  BY <2>1, <2>2, FS_Subset, FS_CardinalityType DEF Reported
  <2>4. holders \subseteq Callers  BY DEF Reported
  <2>5. QED  BY <2>3, <2>4 DEF TypeOK, LockInv, Typed, CtxTyped
<1>3. QED
  BY <1>1, <1>2, CtxNext, LockInvInit, LockInvNext, ReportedInit, ReportedNext, PTL DEF Spec

-----------------------------------------------------------------------------
\* Nobody waits for somebody who waits for him.

\* The guards of RLock, AnnounceLock, Lock, TakeSlot and GiveUp, and of the
\* steps that wait for nothing.
CanGo(c) ==
  \/ c \in Readers /\ pc[c] = "rlock" /\ writer = NoOne
  \/ c \in Writers /\ pc[c] = "lock" /\ writer = NoOne
  \/ c \in Writers /\ pc[c] = "pending" /\ rlocked = {}
  \/ c \in Readers /\ pc[c] = "slot" /\ (Concurrency = 0 \/ Cardinality(sem) < Concurrency)
  \/ c \in Readers /\ pc[c] = "slot" /\ Concurrency > 0 /\ ctxDone
  \/ c \in Writers /\ pc[c] \in {"check", "abort"}
  \/ c \in Readers /\ pc[c] = "freeSlot"
  \/ pc[c] \in {"hold", "read", "unhold", "unlock", "leave"}
SomebodyCanGo == (\E c \in Callers : pc[c] # "idle") => \E c \in Callers : CanGo(c)

LEMMA LockIsFree == LockInv => SomebodyCanGo
<1> SUFFICES ASSUME LockInv, \A c \in Callers : ~CanGo(c), NEW d \in Callers, pc[d] # "idle"
             PROVE  FALSE
  BY DEF SomebodyCanGo
<1>1. \A c \in Callers : pc[c] \in {"idle", "rlock", "lock", "pending", "slot"}
  BY DEF CanGo, LockInv, Typed, Lanes, Callers, Pcs
<1>2. sem = {}
  BY <1>1 DEF LockInv, LocksMatch, Callers
<1>3. \A c \in Callers : pc[c] # "slot"
  <2>1. Cardinality(sem) = 0
    BY <1>2, FS_EmptySet
  <2> QED
    BY <2>1, DiskAssumption DEF CanGo, LockInv, Lanes, Callers
<1>4. rlocked = {}
  BY <1>1, <1>3 DEF LockInv, LocksMatch, Callers
<1>5. \A c \in Callers : pc[c] # "pending"
  BY <1>4 DEF CanGo, LockInv, Lanes, Callers
<1>6. writer = NoOne
  BY <1>1, <1>5 DEF LockInv, Typed, LocksMatch, Callers
<1> QED
  BY <1>1, <1>3, <1>5, <1>6 DEF CanGo, LockInv, Lanes, Callers

\* The lock never deadlocks: whenever a call of Do or DoExclusive is under
\* way, some call can take its next step.  A reader that waits for a slot
\* holds the read lock that a writer waits for, and readers that come later
\* wait for that writer, but slots belong to readers that only go on.
THEOREM NeverStuck == Spec => []SomebodyCanGo
BY LockInvInit, LockInvNext, LockIsFree, PTL DEF Spec
============================================================================
