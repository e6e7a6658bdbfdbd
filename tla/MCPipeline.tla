----------------------------- MODULE MCPipeline -----------------------------
(* TLC instances of Pipeline. *)
EXTENDS Pipeline, TLC

CONSTANTS p1, p2, c1, c2

\* two copies of one photo
Copies == p1 :> [content |-> c1, stamp |-> 1] @@ p2 :> [content |-> c1, stamp |-> 2]
\* one file, and a path it may be moved to
Single == p1 :> [content |-> c1, stamp |-> 1] @@ p2 :> None
\* one file in a library of one path
Alone == p1 :> [content |-> c1, stamp |-> 1]

WorkerSymmetry == Permutations(Workers)
============================================================================
