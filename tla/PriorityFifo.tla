---------------------------- MODULE PriorityFifo ----------------------------
(***************************************************************************)
(* What the task queue promises, after the doc comments of                 *)
(* internal/queue/queue.go and without its mutex, heap, condition variable *)
(* and workers: one first-in first-out lane per priority, of which the     *)
(* highest that is not empty is served first; a count of the entries taken *)
(* and not yet finished; and a flag that tells, once and for all, that no  *)
(* work is left.                                                           *)
(***************************************************************************)
EXTENDS Naturals, Sequences

CONSTANTS Values, Priorities

VARIABLES lanes,   \* lanes[p]: the entries of priority p, oldest first
          tickets, \* how many entries were ever put
          open,    \* entries are still accepted
          taken,   \* entries taken and not finished
          quiet    \* nothing is left to do

vars == <<lanes, tickets, open, taken, quiet>>

Empty == \A p \in Priorities : lanes[p] = <<>>

Init ==
  /\ lanes = [p \in Priorities |-> <<>>]
  /\ tickets = 0 /\ taken = 0
  /\ open = TRUE /\ quiet = FALSE

Put(v, p) ==
  /\ open /\ ~quiet
  /\ lanes' = [lanes EXCEPT ![p] = Append(@, <<v, tickets>>)]
  /\ tickets' = tickets + 1
  /\ UNCHANGED <<open, taken, quiet>>

Take ==
  \E p \in Priorities :
    /\ lanes[p] # <<>>
    /\ \A o \in Priorities : o > p => lanes[o] = <<>>
    /\ lanes' = [lanes EXCEPT ![p] = Tail(@)]
    /\ taken' = taken + 1
    /\ UNCHANGED <<tickets, open, quiet>>

\* The work is over as soon as nothing is queued and nothing is taken.
Finish ==
  /\ taken > 0
  /\ taken' = taken - 1
  /\ quiet' = (quiet \/ (taken' = 0 /\ Empty))
  /\ UNCHANGED <<lanes, tickets, open>>

Shut ==
  /\ open' = FALSE
  /\ UNCHANGED <<lanes, tickets, taken, quiet>>

Next == Take \/ Finish \/ Shut \/ \E v \in Values, p \in Priorities : Put(v, p)

Spec == Init /\ [][Next]_vars

\* Whatever is queued is taken, and whatever is taken is finished.
FairSpec == Spec /\ WF_vars(Take) /\ WF_vars(Finish)
============================================================================
