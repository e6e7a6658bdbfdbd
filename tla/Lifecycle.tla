----------------------------- MODULE Lifecycle -----------------------------
(***************************************************************************)
(* The life of the process after its set-up (main.go): main runs the       *)
(* server (internal/api/server.go, RunServer) or waits for the end of the  *)
(* work, closes the queue, joins the workers, and runs its deferred Close  *)
(* calls, while workers, requests, and models that still load go on in     *)
(* goroutines of their own.                                                *)
(*                                                                         *)
(* Released at the end, in this order: the exiftool child of each worker,  *)
(* the ocr and clip models, the database, the textual model (its tokenizer *)
(* first).  A task is a processing step that uses one of them, for one run *)
(* or two, and stores its outcome in the database; the order of the queue  *)
(* is WorkerPool's, the rest of a step Pipeline's.  A failed set-up        *)
(* (log.Fatalf) is a process that never got here.                          *)
(***************************************************************************)
EXTENDS Naturals, FiniteSets

CONSTANTS Workers,   \* the worker goroutines
          Requests,  \* the connections of the server, one request at a time
          Tasks,     \* the processing steps that the index task queued
          Uses,      \* Uses[t]: "exiftool", "clip" or "ocr"
          None       \* nobody, no task

Models == {"clip", "ocr", "textual"}
Modes == {"all", "index", "serve"}

ASSUME LifecycleAssumption ==
  /\ Uses \in [Tasks -> {"exiftool", "clip", "ocr"}]
  /\ Workers \cap (Models \cup {"database", "tokenizer"} \cup Requests) = {}
  /\ None \notin Tasks \cup Workers \cup Requests

VARIABLES
  mode,     \* --index-only, --serve-only, or neither
  main,     \* where main is
  ctxDone,  \* the signal arrived
  expired,  \* five seconds passed since the server started
  server,   \* "off", "listening", "closed" (ErrServerClosed) or "failed"
  runtime,  \* the ONNX Runtime: "loading", "ok" or "failed"
  model,    \* each model: "loading", "ok" or "failed"
  gpu,      \* the holder of onnxruntime's mutex
  closed,   \* what was closed: workers (their exiftool), models, "database", "tokenizer"
  todo,     \* the queued tasks
  open,     \* the queue is open
  worker,   \* what each worker does
  request,  \* where each request is
  status    \* the stored status of each step

mainVars == <<mode, main, closed>>
signals == <<ctxDone, expired>>
models == <<runtime, model, gpu>>
work == <<todo, open, worker, status>>
vars == <<mainVars, signals, server, models, work, request>>

Idle == [at |-> "pop", task |-> None, result |-> "pending", broken |-> FALSE]
Exited == [Idle EXCEPT !.at = "exited"]

\* Which models a mode sets up.
SetUp == CASE mode = "index" -> {"clip", "ocr"}
           [] mode = "serve" -> {"textual"}
           [] mode = "all" -> Models

Init ==
  /\ mode \in Modes
  /\ main = IF mode = "index" THEN "wait" ELSE "serve"
  /\ ctxDone = FALSE /\ expired = FALSE
  /\ server = "off"
  /\ runtime = "loading" /\ model = [m \in Models |-> "loading"] /\ gpu = None
  /\ closed = {}
  /\ todo = IF mode = "serve" THEN {} ELSE Tasks
  /\ open = TRUE
  /\ worker = [w \in Workers |-> IF mode = "serve" THEN Exited ELSE Idle]
  /\ request = [r \in Requests |-> "none"]
  /\ status = [t \in Tasks |-> "pending"]

Alive == main \notin {"exited", "died"}

----------------------------------------------------------------------------
\* The signal, and time

Cancel ==
  /\ Alive /\ ~ctxDone
  /\ ctxDone' = TRUE
  /\ UNCHANGED <<mainVars, expired, server, models, work, request>>

Expire ==
  /\ Alive /\ server # "off" /\ ~expired
  /\ expired' = TRUE
  /\ UNCHANGED <<mainVars, ctxDone, server, models, work, request>>

----------------------------------------------------------------------------
\* The runtime and the models

LoadRuntime ==
  /\ Alive /\ runtime = "loading"
  /\ runtime' \in {"ok", "failed"}
  /\ UNCHANGED <<mainVars, signals, server, model, gpu, work, request>>

\* main's goroutine that waits for the runtime calls log.Fatalf.
FatalRuntime ==
  /\ Alive /\ runtime = "failed"
  /\ main' = "died"
  /\ UNCHANGED <<mode, closed, signals, server, models, work, request>>

\* The session is created under the mutex, once the runtime is ready.
LoadModel(m) ==
  /\ Alive /\ m \in SetUp /\ model[m] = "loading"
  /\ \/ runtime = "failed" /\ model' = [model EXCEPT ![m] = "failed"]
     \/ /\ runtime = "ok" /\ gpu = None
        /\ \E s \in {"ok", "failed"} : model' = [model EXCEPT ![m] = s]
  /\ UNCHANGED <<mainVars, signals, server, runtime, gpu, work, request>>

Load == LoadRuntime \/ \E m \in Models : LoadModel(m)

----------------------------------------------------------------------------
\* RunServer

Listen ==
  /\ main = "serve" /\ server = "off"
  /\ server' \in {"listening", "failed"}
  /\ UNCHANGED <<mainVars, signals, models, work, request>>

\* Serve returns an error of its own.
ServeFails ==
  /\ main = "serve" /\ server = "listening"
  /\ server' = "failed"
  /\ UNCHANGED <<mainVars, signals, models, work, request>>

\* The goroutine of RunServer calls Shutdown, which closes the listener: Serve
\* returns.  Shutdown itself waits for the requests, until shutdownCtx ends
\* five seconds after the server started or when RunServer returns, but
\* nothing waits for Shutdown.
Shutdown ==
  /\ Alive /\ server = "listening" /\ ctxDone
  /\ server' = "closed"
  /\ UNCHANGED <<mainVars, signals, models, work, request>>

Active == {r \in Requests : request[r] # "none"}

----------------------------------------------------------------------------
\* main

\* The first deferred call.
FirstClose == IF mode = "serve" THEN "database" ELSE "exiftool"

\* Serve returned: an error makes main return, past the rest of its body.
ServerReturns ==
  /\ main = "serve" /\ server \in {"closed", "failed"}
  /\ IF server = "failed"
       THEN main' = FirstClose /\ UNCHANGED open
       ELSE main' = "join" /\ open' = FALSE
  /\ UNCHANGED <<mode, closed, signals, server, models, todo, worker, status, request>>

QueueIdle == todo = {} /\ \A w \in Workers : worker[w].at = "pop"

\* Bug form: the queue is not closed.
EndWaitOpen ==
  /\ main = "wait"
  /\ ctxDone \/ QueueIdle
  /\ main' = "join"
  /\ UNCHANGED <<mode, closed, signals, server, models, work, request>>
\* --index-only: the queue is idle or the signal arrived; the queue is closed.
EndWait ==
  /\ main = "wait"
  /\ ctxDone \/ QueueIdle
  /\ main' = "join" /\ open' = FALSE
  /\ UNCHANGED <<mode, closed, signals, server, models, todo, worker, status, request>>

\* Bug form: main does not wait for the workers.
JoinNobody ==
  /\ main = "join"
  /\ main' = FirstClose
  /\ UNCHANGED <<mode, closed, signals, server, models, work, request>>
\* wg.Wait
Join ==
  /\ main = "join"
  /\ \A w \in Workers : worker[w] = Exited
  /\ main' = FirstClose
  /\ UNCHANGED <<mode, closed, signals, server, models, work, request>>

\* Exiftool.Close takes the mutex of the instance, so it waits for a probe.
CloseExiftool(w) ==
  /\ main = "exiftool" /\ w \notin closed
  /\ ~(worker[w].at = "using" /\ Uses[worker[w].task] = "exiftool")
  /\ closed' = closed \cup {w}
  /\ main' = IF Workers \subseteq closed' THEN "ocr" ELSE main
  /\ UNCHANGED <<mode, signals, server, models, work, request>>

\* Close of a model waits for its load and for the mutex.
CloseModel(m, next) ==
  /\ main = m
  /\ model[m] # "loading"
  /\ model[m] = "ok" => gpu = None
  /\ closed' = closed \cup {m}
  /\ main' = next
  /\ UNCHANGED <<mode, signals, server, models, work, request>>

CloseDatabase ==
  /\ main = "database"
  /\ closed' = closed \cup {"database"}
  /\ main' = IF mode = "index" THEN "exited" ELSE "tokenizer"
  /\ UNCHANGED <<mode, signals, server, models, work, request>>

\* The first half of the textual model's Close, without a mutex.
CloseTokenizer ==
  /\ main = "tokenizer"
  /\ model["textual"] # "loading"
  /\ closed' = closed \cup {"tokenizer"}
  /\ main' = "textual"
  /\ UNCHANGED <<mode, signals, server, models, work, request>>

MainStep ==
  \/ Listen \/ ServerReturns \/ EndWait \/ Join
  \/ \E w \in Workers : CloseExiftool(w)
  \/ CloseModel("ocr", "clip") \/ CloseModel("clip", "database")
  \/ CloseDatabase
  \/ CloseTokenizer \/ CloseModel("textual", "exited")

----------------------------------------------------------------------------
\* The workers

Set(w, j) == worker' = [worker EXCEPT ![w] = j]
UnlessWorker == <<mainVars, signals, server, runtime, model, open, request>>

\* Pop and run: a task popped after the signal is dropped.
Pop(w) ==
  /\ Alive /\ worker[w].at = "pop"
  /\ \E t \in todo :
       /\ todo' = todo \ {t}
       /\ Set(w, IF ctxDone THEN Idle
                 ELSE [Idle EXCEPT !.task = t,
                         !.at = IF Uses[t] = "exiftool" THEN "use" ELSE "load"])
  /\ UNCHANGED <<UnlessWorker, gpu, status>>

Leave(w) ==
  /\ Alive /\ worker[w].at = "pop" /\ todo = {} /\ ~open
  /\ Set(w, Exited)
  /\ UNCHANGED <<UnlessWorker, gpu, todo, status>>

\* Bug form: a model that cannot be loaded fails the step.
WaitLoadFails(w) ==
  /\ Alive /\ worker[w].at = "load"
  /\ LET m == Uses[worker[w].task]
     IN  \/ ctxDone /\ Set(w, Idle)
         \/ model[m] = "failed" /\ Set(w, [worker[w] EXCEPT !.at = "store", !.result = "failed"])
         \/ model[m] = "ok" /\ Set(w, [worker[w] EXCEPT !.at = "use"])
  /\ UNCHANGED <<UnlessWorker, gpu, todo, status>>
\* WaitLoad: a done context or a failed load ends the task.
WaitLoad(w) ==
  /\ Alive /\ worker[w].at = "load"
  /\ LET m == Uses[worker[w].task]
     IN  \/ (ctxDone \/ model[m] = "failed") /\ Set(w, Idle)
         \/ model[m] = "ok" /\ Set(w, [worker[w] EXCEPT !.at = "use"])
  /\ UNCHANGED <<UnlessWorker, gpu, todo, status>>

\* The resource of the task: the worker's own exiftool, or a model.
Resource(w) == IF Uses[worker[w].task] = "exiftool" THEN w ELSE Uses[worker[w].task]

\* The second run of a metadata step, whose failure is only logged.
Geocoding(w) == Uses[worker[w].task] = "exiftool" /\ worker[w].result = "ok"

\* A use is one run of exiftool or of a session, under its mutex.  When it is
\* closed it answers with an error.
BeginUse(w) ==
  /\ Alive /\ worker[w].at = "use"
  /\ \/ /\ Resource(w) \in closed
        /\ Set(w, IF Geocoding(w)
                    THEN [worker[w] EXCEPT !.at = "store"]
                    ELSE [worker[w] EXCEPT !.at = "store", !.result = "failed", !.broken = TRUE])
        /\ UNCHANGED gpu
     \/ /\ Resource(w) = w /\ w \notin closed
        /\ Set(w, [worker[w] EXCEPT !.at = "using"])
        /\ UNCHANGED gpu
     \/ /\ Resource(w) \in Models \ closed /\ gpu = None
        /\ Set(w, [worker[w] EXCEPT !.at = "using"])
        /\ gpu' = w
  /\ UNCHANGED <<UnlessWorker, todo, status>>

\* The run ends the step, or the step goes on with a second run: the places of
\* exiftool, or the texts of ocr (more batches of texts are each like it).
EndUse(w) ==
  /\ Alive /\ worker[w].at = "using"
  /\ \/ \E r \in {"ok", "failed"} :
          /\ Geocoding(w) => r = "ok"
          /\ Set(w, [worker[w] EXCEPT !.at = "store", !.result = r])
     \/ /\ worker[w].result = "pending" /\ Uses[worker[w].task] # "clip"
        /\ Set(w, [worker[w] EXCEPT !.at = "use", !.result = "ok"])
  /\ gpu' = IF gpu = w THEN None ELSE gpu
  /\ UNCHANGED <<UnlessWorker, todo, status>>

\* Bug form: an error is returned and not stored.
StoreOnlyOk(w) ==
  /\ Alive /\ worker[w].at = "store"
  /\ status' = IF ctxDone \/ "database" \in closed \/ worker[w].result # "ok"
                 THEN status
                 ELSE [status EXCEPT ![worker[w].task] = "ok"]
  /\ Set(w, Idle)
  /\ UNCHANGED <<UnlessWorker, gpu, todo>>
\* The outcome is stored, unless the context or the database is gone.
Store(w) ==
  /\ Alive /\ worker[w].at = "store"
  /\ status' = IF ctxDone \/ "database" \in closed
                 THEN status
                 ELSE [status EXCEPT ![worker[w].task] = worker[w].result]
  /\ Set(w, Idle)
  /\ UNCHANGED <<UnlessWorker, gpu, todo>>

WorkerStep(w) ==
  Pop(w) \/ Leave(w) \/ WaitLoad(w) \/ BeginUse(w) \/ EndUse(w) \/ Store(w)

----------------------------------------------------------------------------
\* The requests

GotoR(r, there) == request' = [request EXCEPT ![r] = there]
UnlessRequest == <<mainVars, signals, server, runtime, model, work>>

\* A request that only reads the database, or a text search.
BeginRequest(r) ==
  /\ Alive /\ server = "listening" /\ request[r] = "none"
  /\ \E p \in {"load", "query"} : GotoR(r, p)
  /\ UNCHANGED <<UnlessRequest, gpu>>

WaitTextual(r) ==
  /\ Alive /\ request[r] = "load" /\ model["textual"] # "loading"
  /\ GotoR(r, IF model["textual"] = "ok" THEN "tokenize" ELSE "none")
  /\ UNCHANGED <<UnlessRequest, gpu>>

\* EncodeErr, which may fail; one whose tokenizer is gone may do anything.
Tokenize(r) ==
  /\ Alive /\ request[r] = "tokenize"
  /\ \E p \in {"embed", "none"} : GotoR(r, p)
  /\ UNCHANGED <<UnlessRequest, gpu>>

\* It may also take the process down.
TokenizeFreed(r) ==
  /\ Alive /\ request[r] = "tokenize" /\ "tokenizer" \in closed
  /\ main' = "died"
  /\ UNCHANGED <<mode, closed, signals, server, models, work, request>>

\* Embed, whose session answers with an error when it is closed.
BeginEmbed(r) ==
  /\ Alive /\ request[r] = "embed"
  /\ \/ "textual" \in closed /\ GotoR(r, "none") /\ UNCHANGED gpu
     \/ "textual" \notin closed /\ gpu = None /\ gpu' = r /\ GotoR(r, "embedding")
  /\ UNCHANGED UnlessRequest

EndEmbed(r) ==
  /\ Alive /\ request[r] = "embedding"
  /\ gpu' = None
  /\ \E p \in {"query", "none"} : GotoR(r, p)
  /\ UNCHANGED UnlessRequest

\* The query and the response.
EndRequest(r) ==
  /\ Alive /\ request[r] = "query"
  /\ GotoR(r, "none")
  /\ UNCHANGED <<UnlessRequest, gpu>>

RequestStep(r) ==
  WaitTextual(r) \/ Tokenize(r) \/ BeginEmbed(r) \/ EndEmbed(r) \/ EndRequest(r)

----------------------------------------------------------------------------
Next ==
  \/ Cancel \/ Expire \/ Load \/ FatalRuntime \/ ServeFails
  \/ Shutdown \/ MainStep
  \/ \E w \in Workers : WorkerStep(w)
  \/ \E r \in Requests : BeginRequest(r) \/ RequestStep(r) \/ TokenizeFreed(r)

Spec == Init /\ [][Next]_vars

\* Goroutines run, and loads, uses, and queries end.  Weak fairness of each
\* kind of goroutine is enough: after a signal or a failed server only
\* finitely many uses compete for the mutex of the sessions.
FairSpec ==
  /\ Spec
  /\ WF_vars(Load) /\ WF_vars(MainStep) /\ WF_vars(Shutdown)
  /\ WF_vars(\E w \in Workers : WorkerStep(w))
  /\ WF_vars(\E r \in Requests : RequestStep(r))

----------------------------------------------------------------------------
\* The types; whoever holds the mutex of the sessions is using one.
TypeOK ==
  /\ mode \in Modes
  /\ main \in {"wait", "serve", "join", "exiftool", "ocr", "clip", "database",
               "tokenizer", "textual", "exited", "died"}
  /\ ctxDone \in BOOLEAN /\ expired \in BOOLEAN /\ open \in BOOLEAN
  /\ server \in {"off", "listening", "closed", "failed"}
  /\ runtime \in {"loading", "ok", "failed"}
  /\ model \in [Models -> {"loading", "ok", "failed"}]
  /\ gpu \in {w \in Workers : worker[w].at = "using"}
             \cup {r \in Requests : request[r] = "embedding"} \cup {None}
  /\ closed \subseteq Workers \cup Models \cup {"database", "tokenizer"}
  /\ todo \subseteq Tasks
  /\ worker \in [Workers -> [at : {"pop", "load", "use", "using", "store", "exited"},
                             task : Tasks \cup {None},
                             result : {"pending", "ok", "failed"}, broken : BOOLEAN]]
  /\ request \in [Requests -> {"none", "load", "tokenize", "embed", "embedding", "query"}]
  /\ status \in [Tasks -> {"pending", "ok", "failed"}]

\* Nothing is released under a worker, unless the server failed: the join
\* comes before every Close in every mode.
WorkersGoneFirst ==
  closed # {} /\ server # "failed" => \A w \in Workers : worker[w] = Exited

\* "A model that failed to load leaves the step pending" (processClip,
\* processOCR), also when the runtime itself fails and main dies meanwhile.
FailedLoadKeepsPending ==
  \A t \in Tasks :
    status[t] # "pending" /\ Uses[t] \in Models => model[Uses[t]] = "ok"

\* --index-only ends with nothing left to do: when no signal came and the
\* models loaded, each step was tried and its outcome reached the database
\* before that was closed.
IndexOnlyComplete ==
  main = "exited" /\ mode = "index" /\ ~ctxDone /\ model["clip"] = "ok" /\ model["ocr"] = "ok"
    => \A t \in Tasks : status[t] # "pending"

\* After a signal, and after a server that failed, the process ends: no
\* Close waits for ever for a load, a probe or the mutex of the sessions.
ProcessEnds == ctxDone \/ server = "failed" \/ mode = "index" ~> ~Alive

\* "A metadata step interrupted by shutdown stays pending, to be retried on
\* the next startup" (processMetadata; processClip and processOCR say the
\* same): no step is stored as failed because what it needs was released.
InterruptedStaysPending ==
  [][\A t \in Tasks : status'[t] # status[t] =>
       \E w \in Workers : worker[w].task = t /\ ~worker[w].broken]_vars

\* "RunServer serves until the context is canceled, then shuts down
\* gracefully": no request loses the database or the model it uses within
\* the time it is given.
GracefulShutdown ==
  [][/\ closed' # closed /\ ~expired /\ server = "closed"
     /\ closed' \cap {"database", "tokenizer", "textual"} # {}
       => Active = {}]_vars
============================================================================
