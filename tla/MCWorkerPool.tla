---------------------------- MODULE MCWorkerPool ----------------------------
(* TLC instance of WorkerPool: the six task types of internal/tasks with   *)
(* their priorities and the tasks each of them pushes.                     *)
EXTENDS WorkerPoolRefinement

MCValues == {"index", "checksum", "metadata", "thumbnail", "clip", "ocr"}
\* process.go, the priority constants
MCPriority == [index |-> 5, checksum |-> 4, metadata |-> 3,
               thumbnail |-> 2, clip |-> 1, ocr |-> 0]
\* index.go and EnqueuePendingTasks, checksum.go, thumbnail.go
MCSpawns == [v \in MCValues |->
               CASE v = "index"     -> MCValues \ {"index"}
                 [] v = "checksum"  -> {"metadata", "thumbnail", "ocr"}
                 [] v = "thumbnail" -> {"clip"}
                 [] OTHER           -> {}]
============================================================================
