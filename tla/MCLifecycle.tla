---------------------------- MODULE MCLifecycle ----------------------------
(* TLC instances of Lifecycle. *)
EXTENDS Lifecycle, TLC

\* a step that uses the worker's own exiftool, and one that uses a model, in
\* one run or two; a clip step is one of ocr that needs no second run
MCTasks == {"probe", "texts"}
MCUses == "probe" :> "exiftool" @@ "texts" :> "ocr"
============================================================================
