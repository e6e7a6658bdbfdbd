------------------------------ MODULE Ranking ------------------------------
(* A finite set as a sequence in a given order, without recursion.         *)
EXTENDS Naturals, FiniteSets

\* less, a set of pairs, is a strict total order of S.
IsStrictOrder(S, less) ==
  /\ \A x \in S : <<x, x>> \notin less
  /\ \A x, y, z \in S : <<x, y>> \in less /\ <<y, z>> \in less => <<x, z>> \in less
  /\ \A x, y \in S : x = y \/ <<x, y>> \in less \/ <<y, x>> \in less

Below(S, less, x) == {y \in S : <<y, x>> \in less}

\* The elements of S, the least first: the k-th has k - 1 below it.
Ranked(S, less) ==
  [k \in 1..Cardinality(S) |-> CHOOSE x \in S : Cardinality(Below(S, less, x)) = k - 1]

\* The same for numbers.
Ascending(S) == Ranked(S, {p \in S \X S : p[1] < p[2]})
=============================================================================
