------------------------------ MODULE Progress ------------------------------
(***************************************************************************)
(* The progress that the API reports: the atomic counters of TaskState     *)
(* (internal/tasks/taskstate.go), which the walk (index.go) and the        *)
(* checksum tasks (process.go) count in, and Status, which reads them one  *)
(* by one while they change.                                               *)
(*                                                                         *)
(* A place says how far a library file has got:                            *)
(*   unseen -> found -> lost             its stat failed                   *)
(*                   -> queued -> busy -> done                             *)
(*                   -> batched -> queued or known                         *)
(*                   -> known -> skipped -> done                           *)
(***************************************************************************)
EXTENDS Integers, FiniteSets

CONSTANT Files  \* the media files of the library

ASSUME ProgressAssumption == IsFiniteSet(Files)

Places == {"unseen", "found", "lost", "batched", "known", "skipped", "queued", "busy", "done"}

VARIABLES
  place,      \* how far each file has got
  walk,       \* the index task: "queued", "walking" or "over"
  canceled,   \* the context of the program
  discovered, processed, skipped, errored, completed, failed,  \* TaskState
  at,         \* the next load of the request that runs Status, or "none"
  seen,       \* what it has loaded
  answer,     \* the last answer
  ran         \* history: how many checksum tasks ended in this run

counters == <<discovered, processed, skipped, errored, completed, failed>>
reader == <<at, seen, answer>>
progressVars == <<place, walk, canceled, counters, reader, ran>>

Blank == [discovered |-> 0, processed |-> 0, errored |-> 0, sum |-> 0, phase |-> "none"]
NoAnswer == [remaining |-> 0, done |-> 0, phase |-> "none"]

\* With --serve-only there is no walk, and main calls Complete.
ProgressInit ==
  /\ place = [f \in Files |-> "unseen"]
  /\ walk \in {"queued", "over"}
  /\ canceled = FALSE
  /\ discovered = 0 /\ processed = 0 /\ skipped = 0 /\ errored = 0
  /\ completed = (walk = "over") /\ failed = FALSE
  /\ at = "none" /\ seen = Blank /\ answer = NoAnswer
  /\ ran = 0

In(places) == {f \in Files : place[f] \in places}
Goto(f, p) == place' = [place EXCEPT ![f] = p]

CancelRun ==
  /\ ~canceled
  /\ canceled' = TRUE
  /\ UNCHANGED <<place, walk, counters, reader, ran>>

----------------------------------------------------------------------------
\* The walk

\* The index task is popped; after a signal it is dropped.
BeginWalk ==
  /\ walk = "queued"
  /\ walk' = IF canceled THEN "over" ELSE "walking"
  /\ UNCHANGED <<place, canceled, counters, reader, ran>>

\* Bug form: the file is not counted here.
DiscoverUncounted(f) ==
  /\ walk = "walking" /\ place[f] = "unseen" /\ In({"found", "known", "skipped"}) = {}
  /\ Goto(f, "found")
  /\ UNCHANGED <<walk, canceled, counters, reader, ran>>
\* visitFile counts the file first.
Discover(f) ==
  /\ walk = "walking" /\ place[f] = "unseen" /\ In({"found", "known", "skipped"}) = {}
  /\ discovered' = discovered + 1
  /\ Goto(f, "found")
  /\ UNCHANGED <<walk, canceled, processed, skipped, errored, completed, failed, reader, ran>>

\* Its stat fails, its row is as it was (with an asset or without), or the
\* row has to be written.
StatFile(f) ==
  /\ place[f] = "found"
  /\ \E p \in {"lost", "known", "queued", "batched"} : Goto(f, p)
  /\ UNCHANGED <<walk, canceled, counters, reader, ran>>

\* flush committed the batch: each of its files is queued, or was only moved.
Flush ==
  /\ walk = "walking" /\ In({"batched"}) # {} /\ In({"found", "known", "skipped"}) = {}
  /\ \E moved \in SUBSET In({"batched"}) :
       place' = [f \in Files |-> IF place[f] # "batched" THEN place[f]
                                 ELSE IF f \in moved THEN "known" ELSE "queued"]
  /\ UNCHANGED <<walk, canceled, counters, reader, ran>>

\* Bug form: the two counters of a skipped file in the other order.
CountSkippedLast(f) ==
  /\ \/ place[f] = "known" /\ Goto(f, "skipped") /\ processed' = processed + 1 /\ UNCHANGED skipped
     \/ place[f] = "skipped" /\ Goto(f, "done") /\ skipped' = skipped + 1 /\ UNCHANGED processed
  /\ UNCHANGED <<walk, canceled, discovered, errored, completed, failed, reader, ran>>
CountSkipped(f) ==
  /\ \/ place[f] = "known" /\ Goto(f, "skipped") /\ skipped' = skipped + 1 /\ UNCHANGED processed
     \/ place[f] = "skipped" /\ Goto(f, "done") /\ processed' = processed + 1 /\ UNCHANGED skipped
  /\ UNCHANGED <<walk, canceled, discovered, errored, completed, failed, reader, ran>>

EndWalk ==
  /\ walk = "walking" /\ In({"unseen", "found", "batched", "known", "skipped"}) = {}
  /\ completed' = TRUE
  /\ walk' = "over"
  /\ UNCHANGED <<place, canceled, discovered, processed, skipped, errored, failed, reader, ran>>

\* A canceled context, or an error of a directory or a statement.
FailWalk ==
  /\ walk = "walking" /\ In({"found", "known", "skipped"}) = {}
  /\ failed' = TRUE
  /\ walk' = "over"
  /\ UNCHANGED <<place, canceled, discovered, processed, skipped, errored, completed, reader, ran>>

----------------------------------------------------------------------------
\* The checksum tasks

\* A task reads the library once the walk has released the disk.
Take(f) ==
  /\ place[f] = "queued" /\ ~canceled /\ walk = "over"
  /\ Goto(f, "busy")
  /\ UNCHANGED <<walk, canceled, counters, reader, ran>>

Count(f, ok) ==
  /\ Goto(f, "done")
  /\ processed' = IF ok THEN processed + 1 ELSE processed
  /\ errored' = IF ok THEN errored ELSE errored + 1
  /\ ran' = ran + 1
  /\ UNCHANGED <<walk, canceled, discovered, skipped, completed, failed, reader>>

\* Bug form: an error is logged and not counted.
EndTaskUncounted(f) ==
  /\ place[f] = "busy"
  /\ Count(f, TRUE) \/ (Goto(f, "done") /\ UNCHANGED <<walk, canceled, counters, reader, ran>>)
EndTask(f) ==
  /\ place[f] = "busy"
  /\ \E ok \in BOOLEAN : Count(f, ok)

\* After a signal the workers drain the queue.
Drain(f) ==
  /\ place[f] = "queued" /\ canceled
  /\ Count(f, FALSE)

----------------------------------------------------------------------------
\* Status

Poll ==
  /\ at = "none"
  /\ at' = "discovered" /\ seen' = Blank
  /\ UNCHANGED <<place, walk, canceled, counters, answer, ran>>

See(field, value, next) == seen' = [seen EXCEPT ![field] = value] /\ at' = next

\* Bug form: completed is loaded after the counters.
LoadReversed ==
  /\ \/ at = "discovered" /\ See("discovered", discovered, "processed")
     \/ at = "processed" /\ See("processed", processed, "errored")
     \/ at = "errored" /\ See("errored", errored, "compare")
     \/ at = "compare" /\ See("sum", discovered, "sum")
     \/ at = "sum" /\ See("phase", IF processed + errored < seen.sum THEN "processing" ELSE "completed", "failed")
     \/ /\ at = "failed"
        /\ IF failed THEN See("phase", "failed", "skipped") ELSE See("phase", seen.phase, "completed")
     \/ /\ at = "completed"
        /\ IF completed THEN See("phase", seen.phase, "skipped") ELSE See("phase", "indexing", "skipped")
  /\ UNCHANGED <<place, walk, canceled, counters, answer, ran>>
\* The counters of the answer, then the loads that decide the phase.
Load ==
  /\ \/ at = "discovered" /\ See("discovered", discovered, "processed")
     \/ at = "processed" /\ See("processed", processed, "errored")
     \/ at = "errored" /\ See("errored", errored, "failed")
     \/ /\ at = "failed"
        /\ IF failed THEN See("phase", "failed", "skipped") ELSE See("phase", "none", "completed")
     \/ /\ at = "completed"
        /\ IF completed THEN See("phase", "none", "sum") ELSE See("phase", "indexing", "skipped")
     \/ at = "sum" /\ See("sum", processed, "sumErrored")
     \/ at = "sumErrored" /\ See("sum", seen.sum + errored, "compare")
     \/ /\ at = "compare"
        /\ See("phase", IF seen.sum < discovered THEN "processing" ELSE "completed", "skipped")
  /\ UNCHANGED <<place, walk, canceled, counters, answer, ran>>

\* The load of skipped, and the answer: done and remaining give the ETA.
Answer ==
  /\ at = "skipped"
  /\ answer' = [remaining |-> seen.discovered - seen.processed - seen.errored,
                done |-> seen.processed - skipped + seen.errored,
                phase |-> seen.phase]
  /\ at' = "none" /\ seen' = Blank
  /\ UNCHANGED <<place, walk, canceled, counters, ran>>

----------------------------------------------------------------------------
Walk ==
  \/ BeginWalk \/ Flush \/ EndWalk
  \/ \E f \in Files : Discover(f) \/ StatFile(f) \/ CountSkipped(f)
Tasks == \E f \in Files : Take(f) \/ EndTask(f) \/ Drain(f)
Status == Poll \/ Load \/ Answer

ProgressNext == CancelRun \/ FailWalk \/ Walk \/ Tasks \/ Status

ProgressSpec == ProgressInit /\ [][ProgressNext]_progressVars

\* The walk, the workers, and the client that polls go on.
ProgressFairSpec ==
  /\ ProgressSpec
  /\ WF_progressVars(Walk) /\ WF_progressVars(Tasks) /\ WF_progressVars(Status)

----------------------------------------------------------------------------
Uncounted == In({"found", "lost", "batched", "known", "skipped", "queued", "busy"})

ProgressTypeOK ==
  /\ place \in [Files -> Places]
  /\ walk \in {"queued", "walking", "over"} /\ canceled \in BOOLEAN
  /\ {discovered, processed, skipped, errored, ran} \subseteq Nat
  /\ completed \in BOOLEAN /\ failed \in BOOLEAN
  /\ at \in {"none", "discovered", "processed", "errored", "failed", "completed",
             "sum", "sumErrored", "compare", "skipped"}
  /\ seen \in [discovered : Nat, processed : Nat, errored : Nat, sum : Nat,
               phase : {"none", "failed", "indexing", "processing", "completed"}]
  /\ answer \in [remaining : Int, done : Int,
                 phase : {"none", "failed", "indexing", "processing", "completed"}]

\* A discovered file is counted as processed or errored once it is finished,
\* and never twice, whichever way it takes: skipped by the walk, moved,
\* checksummed, failed, or drained after a signal.
CountersExact ==
  /\ processed + errored + Cardinality(Uncounted) = discovered
  /\ skipped <= processed + Cardinality(In({"skipped"}))

\* Status says "completed" only when no discovered file is left, although it
\* loads the counters one by one.
PhaseHonest == answer.phase = "completed" => Uncounted = {}

\* The phase never goes back: not from "completed" to "processing", nor from
\* any later phase to "indexing".
Rank(p) == CASE p = "none" -> 0 [] p = "indexing" -> 1 [] p = "processing" -> 2
             [] p \in {"completed", "failed"} -> 3
PhaseForward == [][Rank(answer'.phase) >= Rank(answer.phase)]_progressVars

\* "Skipped files were counted at walk speed, so including them in the rate
\* would understate the remaining time": what the ETA takes for done was done
\* by tasks of this run, in every interleaving of the loads.
EtaCountsTasks == answer.done <= ran

\* The client sees the end of the run, unless a signal comes first or the
\* stat of a file failed: such a file is counted as discovered only, so the
\* phase stays "processing".
StatusSettles ==
  walk = "walking" ~> \/ answer.phase \in {"completed", "failed"}
                      \/ canceled \/ In({"lost"}) # {}
=============================================================================
