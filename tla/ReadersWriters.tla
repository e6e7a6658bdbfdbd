--------------------------- MODULE ReadersWriters ---------------------------
(***************************************************************************)
(* What the disk lock promises of its holders (internal/disk/disk.go): at  *)
(* most Concurrency shared ones at a time, or any number when Concurrency  *)
(* is 0 (the comment of Disk), an exclusive one alone, and none let in     *)
(* after the shutdown began (DoExclusive).                                 *)
(*                                                                         *)
(* The clause of Do that "when ctx is done before a slot of the disk is    *)
(* acquired, fn is not run" is no part of it, since Do does not keep it:   *)
(* the select takes a free slot or the done context at random, and without *)
(* slots Do never looks at the context.  A shared holder may begin late.   *)
(***************************************************************************)
EXTENDS Naturals, FiniteSets

CONSTANTS Readers, Writers, Concurrency

VARIABLES shared,     \* the callers of Do whose function may run
          exclusive,  \* the callers of DoExclusive that were let in
          over        \* the context is done

vars == <<shared, exclusive, over>>

Init == shared = {} /\ exclusive = {} /\ over = FALSE

\* Also after the shutdown began.
BeginShared(r) ==
  /\ r \notin shared /\ exclusive = {}
  /\ Concurrency = 0 \/ Cardinality(shared) < Concurrency
  /\ shared' = shared \cup {r}
  /\ UNCHANGED <<exclusive, over>>

EndShared(r) == shared' = shared \ {r} /\ UNCHANGED <<exclusive, over>>

BeginExclusive(w) ==
  /\ shared = {} /\ exclusive = {} /\ ~over
  /\ exclusive' = {w}
  /\ UNCHANGED <<shared, over>>

EndExclusive(w) == exclusive' = exclusive \ {w} /\ UNCHANGED <<shared, over>>

\* Nothing is taken from who is in already.
ShutDown == over' = TRUE /\ UNCHANGED <<shared, exclusive>>

Next ==
  \/ ShutDown
  \/ \E r \in Readers : BeginShared(r) \/ EndShared(r)
  \/ \E w \in Writers : BeginExclusive(w) \/ EndExclusive(w)

Spec == Init /\ [][Next]_vars
============================================================================
