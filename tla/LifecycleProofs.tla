-------------------------- MODULE LifecycleProofs --------------------------
(***************************************************************************)
(* Theorems about Lifecycle, for any workers, requests and steps.          *)
(***************************************************************************)
EXTENDS Lifecycle, TLAPS

\* Where main runs its deferred calls, or has run them all.
Releasing == {"exiftool", "ocr", "clip", "database", "tokenizer", "textual", "exited"}

\* Main reaches its first Close over an empty pool, or because the server
\* failed; a worker that left does not come back.
JoinedInv ==
  (closed # {} \/ main \in Releasing) /\ server # "failed"
    => \A w \in Workers : worker[w] = Exited

LEMMA JoinedInit == Init => JoinedInv
BY DEF Init, JoinedInv, Releasing

\* No worker step moves a worker that left.
LEMMA ExitedStays ==
  ASSUME NEW w \in Workers, WorkerStep(w),
         \A v \in Workers : worker[v] = Exited
  PROVE  FALSE
<1>1. worker[w].at = "exited"
  BY DEF Exited, Idle
<1> QED
  BY <1>1 DEF WorkerStep, Pop, Leave, WaitLoad, BeginUse, EndUse, Store

LEMMA JoinedStep == JoinedInv /\ [Next]_vars => JoinedInv'
<1> SUFFICES ASSUME JoinedInv, [Next]_vars PROVE JoinedInv'
  OBVIOUS
<1>1. ASSUME Cancel \/ Expire \/ Load PROVE JoinedInv'
  BY <1>1 DEF JoinedInv, Releasing, Cancel, Expire, Load, LoadRuntime, LoadModel,
              mainVars, work, signals, models
<1>2. ASSUME FatalRuntime \/ \E r \in Requests : TokenizeFreed(r) PROVE JoinedInv'
  BY <1>2 DEF JoinedInv, Releasing, FatalRuntime, TokenizeFreed, work
<1>3. ASSUME ServeFails \/ Shutdown PROVE JoinedInv'
  BY <1>3 DEF JoinedInv, Releasing, ServeFails, Shutdown, mainVars, work
<1>4. CASE MainStep
  <2>1. ASSUME Listen \/ ServerReturns \/ EndWait PROVE JoinedInv'
    BY <2>1 DEF JoinedInv, Releasing, Listen, ServerReturns, EndWait, FirstClose, mainVars, work
  <2>2. CASE Join
    BY <2>2 DEF JoinedInv, Join, work
  <2>3. ASSUME NEW w \in Workers, CloseExiftool(w) PROVE JoinedInv'
    BY <2>3 DEF JoinedInv, Releasing, CloseExiftool, work
  <2>4. ASSUME NEW m \in Models, NEW next, CloseModel(m, next) PROVE JoinedInv'
    BY <2>4 DEF JoinedInv, Releasing, CloseModel, Models, work
  <2>5. ASSUME CloseDatabase \/ CloseTokenizer PROVE JoinedInv'
    BY <2>5 DEF JoinedInv, Releasing, CloseDatabase, CloseTokenizer, work
  <2> QED
    BY <1>4, <2>1, <2>2, <2>3, <2>4, <2>5 DEF MainStep, Models
<1>5. ASSUME NEW w \in Workers, WorkerStep(w) PROVE JoinedInv'
  <2>1. UNCHANGED <<closed, main, server>>
    BY <1>5 DEF WorkerStep, Pop, Leave, WaitLoad, BeginUse, EndUse, Store, UnlessWorker, mainVars
  <2> QED
    BY <1>5, <2>1, ExitedStays DEF JoinedInv
<1>6. ASSUME NEW r \in Requests, BeginRequest(r) \/ RequestStep(r) PROVE JoinedInv'
  BY <1>6 DEF JoinedInv, BeginRequest, RequestStep, WaitTextual, Tokenize, BeginEmbed, EndEmbed,
              EndRequest, UnlessRequest, mainVars, work
<1>7. CASE UNCHANGED vars
  BY <1>7 DEF JoinedInv, vars, mainVars, work
<1> QED
  BY <1>1, <1>2, <1>3, <1>4, <1>5, <1>6, <1>7 DEF Next

\* Nothing is released under a worker unless the server failed: the join of
\* main comes before every deferred Close, in each of the three modes.
THEOREM ReleaseAfterJoin == Spec => []WorkersGoneFirst
<1>1. JoinedInv => WorkersGoneFirst
  BY DEF JoinedInv, WorkersGoneFirst
<1> QED
  BY JoinedInit, JoinedStep, <1>1, PTL DEF Spec

----------------------------------------------------------------------------
\* A worker past WaitLoad has a model that loaded; a stored outcome is that
\* of such a worker.
Loaded(t) == Uses[t] \in Models => model[Uses[t]] = "ok"

LoadedInv ==
  /\ \A w \in Workers : worker[w].at \in {"use", "using", "store"}
                          => worker[w].task \in Tasks /\ Loaded(worker[w].task)
  /\ \A w \in Workers : worker[w].at = "load" => worker[w].task \in Tasks
  /\ FailedLoadKeepsPending

\* The models only become ready.
ModelsStay == \A m \in Models : model[m] = "ok" => model'[m] = "ok"

LEMMA LoadedInit == Init => LoadedInv
<1> USE DEF Init, Idle, Exited
<1>1. Init => \A w \in Workers : worker[w].at \in {"pop", "exited"}
  OBVIOUS
<1> QED
  BY <1>1 DEF LoadedInv, FailedLoadKeepsPending

\* Steps that leave the workers and the statuses alone keep the invariant.
LEMMA LoadedFrame ==
  ASSUME LoadedInv, UNCHANGED <<worker, status>>, ModelsStay
  PROVE  LoadedInv'
BY DEF LoadedInv, Loaded, FailedLoadKeepsPending, ModelsStay

\* So does a worker that goes on with a task whose model is ready.
LEMMA LoadedMove ==
  ASSUME LoadedInv, UNCHANGED <<status, model>>, NEW w \in Workers,
         worker[w].at \in {"use", "using"}, worker'[w].task = worker[w].task,
         \A v \in Workers \ {w} : worker'[v] = worker[v]
  PROVE  LoadedInv'
<1>1. (worker[w].task \in Tasks /\ Loaded(worker[w].task))'
  BY DEF LoadedInv, Loaded
<1>2. \A v \in Workers \ {w} : Loaded(worker[v].task) => Loaded(worker[v].task)'
  BY DEF Loaded
<1>3. FailedLoadKeepsPending'
  BY DEF LoadedInv, FailedLoadKeepsPending
<1> QED
  BY <1>1, <1>2, <1>3 DEF LoadedInv

\* What a worker goes on with when it comes to a run, and after one.
BegunUses(w) == {[worker[w] EXCEPT !.at = "store"],
                 [worker[w] EXCEPT !.at = "store", !.result = "failed", !.broken = TRUE],
                 [worker[w] EXCEPT !.at = "using"]}
EndedUses(w) == {[worker[w] EXCEPT !.at = "store", !.result = "ok"],
                 [worker[w] EXCEPT !.at = "store", !.result = "failed"],
                 [worker[w] EXCEPT !.at = "use", !.result = "ok"]}

LEMMA BeginUseJob ==
  ASSUME NEW w \in Workers, BeginUse(w)
  PROVE  \E j \in BegunUses(w) : Set(w, j)
BY DEF BeginUse, BegunUses

LEMMA EndUseJob ==
  ASSUME NEW w \in Workers, EndUse(w)
  PROVE  \E j \in EndedUses(w) : Set(w, j)
BY DEF EndUse, EndedUses

\* It goes on with the same task.
LEMMA UseKeepsTask ==
  ASSUME TypeOK, NEW w \in Workers, NEW j \in BegunUses(w) \cup EndedUses(w)
  PROVE  j.task = worker[w].task
<1> DEFINE lost == [worker[w] EXCEPT !.at = "store", !.result = "failed", !.broken = TRUE]
<1>1. lost.task = worker[w].task
  BY DEF TypeOK
<1>2. /\ [worker[w] EXCEPT !.at = "store"].task = worker[w].task
      /\ [worker[w] EXCEPT !.at = "using"].task = worker[w].task
  BY DEF TypeOK
<1>3. /\ [worker[w] EXCEPT !.at = "store", !.result = "ok"].task = worker[w].task
      /\ [worker[w] EXCEPT !.at = "store", !.result = "failed"].task = worker[w].task
      /\ [worker[w] EXCEPT !.at = "use", !.result = "ok"].task = worker[w].task
  BY DEF TypeOK
<1> QED
  BY <1>1, <1>2, <1>3 DEF BegunUses, EndedUses

LEMMA LoadedStep == TypeOK /\ LoadedInv /\ [Next]_vars => LoadedInv'
<1> SUFFICES ASSUME TypeOK, LoadedInv, [Next]_vars PROVE LoadedInv'
  OBVIOUS
<1>1. ASSUME NEW m \in Models, LoadModel(m) PROVE LoadedInv'
  <2>1. ModelsStay
    BY <1>1 DEF LoadModel, ModelsStay, TypeOK
  <2> QED
    BY <1>1, <2>1, LoadedFrame DEF LoadModel, work
<1>2. ASSUME \/ Cancel \/ Expire \/ LoadRuntime \/ FatalRuntime \/ ServeFails \/ Shutdown
             \/ \E r \in Requests : TokenizeFreed(r)
      PROVE  LoadedInv'
  BY <1>2, LoadedFrame
     DEF Cancel, Expire, LoadRuntime, FatalRuntime, TokenizeFreed, ServeFails, Shutdown, work,
         models, ModelsStay
<1>3. CASE MainStep
  <2>1. UNCHANGED <<worker, status, model>>
    BY <1>3 DEF MainStep, Listen, ServerReturns, EndWait, Join, CloseExiftool, CloseModel,
                CloseDatabase, CloseTokenizer, work, models
  <2> QED
    BY <2>1, LoadedFrame DEF ModelsStay
<1>4. ASSUME NEW w \in Workers, WorkerStep(w) PROVE LoadedInv'
  <2>1. CASE Pop(w)
    <3>1. PICK t \in todo :
            worker' = [worker EXCEPT ![w] =
              IF ctxDone THEN Idle
              ELSE [Idle EXCEPT !.task = t,
                      !.at = IF Uses[t] = "exiftool" THEN "use" ELSE "load"]]
      BY <2>1 DEF Pop, Set
    <3>2. t \in Tasks /\ "exiftool" \notin Models
      BY DEF Models, TypeOK
    <3> QED
      BY <2>1, <3>1, <3>2 DEF Pop, Idle,
           LoadedInv, Loaded, FailedLoadKeepsPending, UnlessWorker, Set, TypeOK
  <2>2. CASE Leave(w)
    BY <2>2 DEF Leave, Exited, Idle,
           LoadedInv, Loaded, FailedLoadKeepsPending, UnlessWorker, Set, TypeOK
  <2>3. CASE WaitLoad(w)
    BY <2>3 DEF WaitLoad, Idle,
           LoadedInv, Loaded, FailedLoadKeepsPending, UnlessWorker, Set, TypeOK
  <2>4. CASE BeginUse(w)
    <3>1. PICK j \in BegunUses(w) : Set(w, j)
      BY <2>4, BeginUseJob
    <3>2. j.task = worker[w].task
      BY <3>1, UseKeepsTask
    <3>3. worker[w].at = "use" /\ UNCHANGED <<status, model>>
      BY <2>4 DEF BeginUse, UnlessWorker
    <3>4. worker'[w] = j /\ \A v \in Workers \ {w} : worker'[v] = worker[v]
      BY <3>1 DEF Set, TypeOK
    <3> QED
      BY <3>2, <3>3, <3>4, LoadedMove
  <2>5. CASE EndUse(w)
    <3>1. PICK j \in EndedUses(w) : Set(w, j)
      BY <2>5, EndUseJob
    <3>2. j.task = worker[w].task
      BY <3>1, UseKeepsTask
    <3>3. worker[w].at = "using" /\ UNCHANGED <<status, model>>
      BY <2>5 DEF EndUse, UnlessWorker
    <3>4. worker'[w] = j /\ \A v \in Workers \ {w} : worker'[v] = worker[v]
      BY <3>1 DEF Set, TypeOK
    <3> QED
      BY <3>2, <3>3, <3>4, LoadedMove
  <2>6. CASE Store(w)
    BY <2>6 DEF Store, Idle,
           LoadedInv, Loaded, FailedLoadKeepsPending, UnlessWorker, Set, TypeOK
  <2> QED
    BY <1>4, <2>1, <2>2, <2>3, <2>4, <2>5, <2>6 DEF WorkerStep
<1>5. ASSUME NEW r \in Requests, BeginRequest(r) \/ RequestStep(r) PROVE LoadedInv'
  BY <1>5, LoadedFrame
     DEF BeginRequest, RequestStep, WaitTextual, Tokenize, BeginEmbed, EndEmbed, EndRequest,
         UnlessRequest, work, ModelsStay
<1>6. CASE UNCHANGED vars
  BY <1>6, LoadedFrame DEF vars, work, models, ModelsStay
<1> QED
  BY <1>1, <1>2, <1>3, <1>4, <1>5, <1>6 DEF Next, Load

----------------------------------------------------------------------------
\* Type correctness

Job == [at : {"pop", "load", "use", "using", "store", "exited"}, task : Tasks \cup {None},
        result : {"pending", "ok", "failed"}, broken : BOOLEAN]
Holders == {w \in Workers : worker[w].at = "using"}
           \cup {r \in Requests : request[r] = "embedding"} \cup {None}

\* A worker step that changes only the job of the worker, the mutex, the
\* queue and the statuses is well typed when these are.
LEMMA WorkerType ==
  ASSUME TypeOK, NEW w \in Workers, UNCHANGED UnlessWorker, NEW j \in Job, Set(w, j),
         todo' \subseteq Tasks, status' \in [Tasks -> {"pending", "ok", "failed"}],
         \/ UNCHANGED gpu /\ (worker[w].at = "using" => gpu # w)
         \/ gpu' = None
         \/ gpu' = w /\ j.at = "using"
  PROVE  TypeOK'
<1> USE DEF Set, UnlessWorker, mainVars, signals
<1>1. worker \in [Workers -> Job]
  BY DEF TypeOK, Job
<1>2. worker' \in [Workers -> Job]
  BY <1>1
<1>3. \A v \in Workers : worker'[v] = IF v = w THEN j ELSE worker[v]
  BY <1>1
<1>4. gpu \in Holders
  BY DEF TypeOK, Holders
<1>5. gpu' \in Holders'
  <2>1. CASE UNCHANGED gpu /\ (worker[w].at = "using" => gpu # w)
    BY <1>3, <1>4, <2>1 DEF Holders
  <2>2. CASE gpu' = None
    BY <2>2 DEF Holders
  <2>3. CASE gpu' = w /\ j.at = "using"
    BY <1>3, <2>3 DEF Holders
  <2> QED
    BY <2>1, <2>2, <2>3
<1> QED
  BY <1>2, <1>5 DEF TypeOK, Job, Holders

LEMMA TypeInit == Init => TypeOK
<1> SUFFICES ASSUME Init PROVE TypeOK
  OBVIOUS
<1> USE DEF Init
<1>1. Idle \in Job /\ Exited \in Job
  BY DEF Idle, Exited, Job
<1>2. worker \in [Workers -> Job]
  BY <1>1
<1> QED
  BY <1>2 DEF TypeOK, Modes, Models, Job

LEMMA TypeStep == TypeOK /\ LoadedInv /\ [Next]_vars => TypeOK'
<1> SUFFICES ASSUME TypeOK, LoadedInv, [Next]_vars PROVE TypeOK'
  OBVIOUS
<1>1. ASSUME NEW m \in Models, LoadModel(m) PROVE TypeOK'
  BY <1>1 DEF TypeOK, LoadModel, mainVars, signals, work
<1>2. ASSUME Cancel \/ Expire \/ FatalRuntime \/ \E r \in Requests : TokenizeFreed(r)
      PROVE  TypeOK'
  <2>1. UNCHANGED <<mode, server, runtime, model, gpu, closed, work, request>>
    BY <1>2 DEF Cancel, Expire, FatalRuntime, TokenizeFreed, mainVars, models
  <2>2. main' \in {main, "died"} /\ ctxDone' \in BOOLEAN /\ expired' \in BOOLEAN
    BY <1>2 DEF TypeOK, Cancel, Expire, FatalRuntime, TokenizeFreed, mainVars, signals
  <2> QED
    BY <2>1, <2>2 DEF TypeOK, work
<1>7. ASSUME LoadRuntime \/ ServeFails \/ Shutdown PROVE TypeOK'
  BY <1>7 DEF TypeOK, LoadRuntime, ServeFails, Shutdown, mainVars, signals, models, work
<1>3. CASE MainStep
  <2>1. ASSUME Listen \/ ServerReturns \/ EndWait \/ Join PROVE TypeOK'
    BY <2>1 DEF TypeOK, Listen, ServerReturns, EndWait, Join, FirstClose, mainVars, signals,
                models, work
  <2>2. ASSUME NEW w \in Workers, CloseExiftool(w) PROVE TypeOK'
    BY <2>2 DEF TypeOK, CloseExiftool, signals, models, work
  <2>3. ASSUME NEW m \in Models, NEW next \in {"clip", "database", "exited"}, CloseModel(m, next)
        PROVE  TypeOK'
    BY <2>3 DEF TypeOK, CloseModel, signals, models, work
  <2>4. ASSUME CloseDatabase \/ CloseTokenizer PROVE TypeOK'
    BY <2>4 DEF TypeOK, CloseDatabase, CloseTokenizer, signals, models, work
  <2> QED
    BY <1>3, <2>1, <2>2, <2>3, <2>4 DEF MainStep, Models
<1>4. ASSUME NEW w \in Workers, WorkerStep(w) PROVE TypeOK'
  <2>w. worker[w] \in Job /\ todo \subseteq Tasks /\ status \in [Tasks -> {"pending", "ok", "failed"}]
    BY DEF TypeOK, Job
  <2>i. Idle \in Job /\ Exited \in Job
    BY DEF Idle, Exited, Job
  <2>1. CASE Pop(w)
    <3>1. PICK t \in todo :
            /\ todo' = todo \ {t}
            /\ Set(w, IF ctxDone THEN Idle
                      ELSE [Idle EXCEPT !.task = t,
                              !.at = IF Uses[t] = "exiftool" THEN "use" ELSE "load"])
      BY <2>1 DEF Pop
    <3> DEFINE j == IF ctxDone THEN Idle
                    ELSE [Idle EXCEPT !.task = t,
                            !.at = IF Uses[t] = "exiftool" THEN "use" ELSE "load"]
    <3>2. j \in Job
      BY <2>w, <2>i DEF Idle, Job
    <3>3. Set(w, j)
      BY <3>1
    <3> HIDE DEF j
    <3> QED
      BY <2>1, <2>w, <3>1, <3>2, <3>3, WorkerType DEF Pop
  <2>2. CASE Leave(w)
    BY <2>2, <2>w, <2>i, WorkerType DEF Leave
  <2>3. CASE WaitLoad(w)
    <3>1. PICK j \in {Idle, [worker[w] EXCEPT !.at = "use"]} : Set(w, j)
      BY <2>3 DEF WaitLoad
    <3>2. j \in Job
      BY <2>w, <2>i DEF Job
    <3> QED
      BY <2>3, <2>w, <3>1, <3>2, WorkerType DEF WaitLoad
  <2>4. CASE BeginUse(w)
    <3>1. PICK j \in {[worker[w] EXCEPT !.at = "store"],
                      [worker[w] EXCEPT !.at = "store", !.result = "failed", !.broken = TRUE],
                      [worker[w] EXCEPT !.at = "using"]} :
            /\ Set(w, j)
            /\ UNCHANGED gpu \/ (gpu' = w /\ j = [worker[w] EXCEPT !.at = "using"])
      BY <2>4 DEF BeginUse
    <3>2. j \in Job
      BY <2>w DEF Job
    <3>3. j = [worker[w] EXCEPT !.at = "using"] => j.at = "using"
      BY <2>w DEF Job
    <3> QED
      BY <2>4, <2>w, <3>1, <3>2, <3>3, WorkerType DEF BeginUse
  <2>5. CASE EndUse(w)
    <3>1. PICK j \in EndedUses(w) : Set(w, j)
      BY <2>5, EndUseJob
    <3>2. j \in Job
      BY <2>w, <3>1 DEF Job, EndedUses
    <3> QED
      BY <2>5, <2>w, <3>1, <3>2, WorkerType DEF EndUse
  <2>6. CASE Store(w)
    <3>1. worker[w].task \in Tasks /\ worker[w].result \in {"pending", "ok", "failed"}
      BY <2>6, <2>w DEF Store, LoadedInv, Job
    <3>2. status' \in [Tasks -> {"pending", "ok", "failed"}]
      BY <2>6, <2>w, <3>1 DEF Store
    <3> QED
      BY <2>6, <2>w, <2>i, <3>2, WorkerType DEF Store
  <2> QED
    BY <1>4, <2>1, <2>2, <2>3, <2>4, <2>5, <2>6 DEF WorkerStep
<1>5. ASSUME NEW r \in Requests, BeginRequest(r) \/ RequestStep(r) PROVE TypeOK'
  <2> USE DEF TypeOK, UnlessRequest, GotoR, mainVars, signals, work
  <2>1. CASE BeginRequest(r)
    BY <2>1 DEF BeginRequest
  <2>2. CASE WaitTextual(r) \/ Tokenize(r)
    BY <2>2 DEF WaitTextual, Tokenize
  <2>3. CASE BeginEmbed(r)
    BY <2>3 DEF BeginEmbed
  <2>4. CASE EndEmbed(r)
    BY <2>4 DEF EndEmbed
  <2>5. CASE EndRequest(r)
    BY <2>5 DEF EndRequest
  <2> QED
    BY <1>5, <2>1, <2>2, <2>3, <2>4, <2>5 DEF RequestStep
<1>6. CASE UNCHANGED vars
  BY <1>6 DEF TypeOK, vars, mainVars, signals, models, work
<1> QED
  BY <1>1, <1>2, <1>3, <1>4, <1>5, <1>6, <1>7 DEF Next, Load

\* Every variable has its type, and the mutex of the sessions is held by
\* somebody who uses one.
THEOREM TypeCorrect == Spec => []TypeOK
<1>1. Init => TypeOK /\ LoadedInv
  BY TypeInit, LoadedInit
<1>2. TypeOK /\ LoadedInv /\ [Next]_vars => TypeOK' /\ LoadedInv'
  BY TypeStep, LoadedStep
<1> QED
  BY <1>1, <1>2, PTL DEF Spec

\* "A model that failed to load leaves the step pending" (processClip,
\* processOCR): an outcome is stored only of a step whose model is ready.
THEOREM FailedLoadSafe == Spec => []FailedLoadKeepsPending
<1>1. Init => TypeOK /\ LoadedInv
  BY TypeInit, LoadedInit
<1>2. TypeOK /\ LoadedInv /\ [Next]_vars => TypeOK' /\ LoadedInv'
  BY TypeStep, LoadedStep
<1>3. LoadedInv => FailedLoadKeepsPending
  BY DEF LoadedInv
<1> QED
  BY <1>1, <1>2, <1>3, PTL DEF Spec

----------------------------------------------------------------------------
\* --index-only: main waits for every outcome

\* Who has taken a step and has not stored its outcome.
Handles(w, t) == worker[w].at \in {"load", "use", "using", "store"} /\ worker[w].task = t

\* A step that is pending is queued, or somebody handles it, or its model
\* cannot be loaded; nothing is closed before main stops waiting, and main
\* stops waiting over an empty queue and workers that do nothing.
IndexedInv ==
  mode = "index" /\ ~ctxDone =>
    /\ main # "serve"
    /\ main = "wait" => closed = {}
    /\ main \notin {"wait", "died"} =>
         todo = {} /\ \A w \in Workers : worker[w].at \in {"pop", "exited"}
    /\ \A t \in Tasks : status[t] = "pending" =>
         \/ t \in todo
         \/ \E w \in Workers : Handles(w, t)
         \/ Uses[t] \in Models /\ model[Uses[t]] = "failed"

\* A worker that is about to store has an outcome, and one that waits for a
\* load has a step that uses a model.
OutcomeInv ==
  \A w \in Workers :
    /\ worker[w].at = "store" => worker[w].result \in {"ok", "failed"}
    /\ worker[w].at = "load" => Uses[worker[w].task] # "exiftool"

LEMMA IndexedInit == Init => IndexedInv /\ OutcomeInv
BY DEF Init, IndexedInv, OutcomeInv, Idle, Exited

\* Steps that leave the workers and the queue alone, and neither main nor
\* what is closed, keep the invariant.
LEMMA IndexedFrame ==
  ASSUME IndexedInv, OutcomeInv, UNCHANGED <<mode, worker, todo, status>>,
         ctxDone => ctxDone',
         main' = "died" \/ UNCHANGED <<main, closed>>,
         \A m \in Models : model[m] = "failed" => model'[m] = "failed"
  PROVE  IndexedInv' /\ OutcomeInv'
BY DEF IndexedInv, OutcomeInv, Handles

\* So does a worker that moves on to job j, when that still handles the step
\* it has, or the outcome of the step is stored, or its model failed.
LEMMA IndexedMove ==
  ASSUME TypeOK, IndexedInv, OutcomeInv, UNCHANGED <<mode, main, closed, ctxDone, model>>,
         NEW w \in Workers, NEW j, worker' = [worker EXCEPT ![w] = j],
         j.at = "store" => j.result \in {"ok", "failed"},
         j.at = "load" => Uses[j.task] # "exiftool",
         todo' \subseteq todo,
         mode = "index" /\ ~ctxDone =>
           /\ j.at \in {"pop", "exited"} \/ main \in {"wait", "died"}
           /\ \A t \in Tasks : status'[t] = "pending" =>
                /\ status[t] = "pending"
                /\ t \in todo \ todo' => Handles(w, t)'
                /\ Handles(w, t) =>
                     Handles(w, t)' \/ (Uses[t] \in Models /\ model[Uses[t]] = "failed")
  PROVE  IndexedInv' /\ OutcomeInv'
<1>1. \A v \in Workers : worker'[v] = IF v = w THEN j ELSE worker[v]
  BY DEF TypeOK
<1>2. OutcomeInv'
  BY <1>1 DEF OutcomeInv
<1>3. ASSUME mode = "index", ~ctxDone, NEW t \in Tasks, status'[t] = "pending"
      PROVE  \/ t \in todo'
             \/ \E v \in Workers : Handles(v, t)'
             \/ Uses[t] \in Models /\ model[Uses[t]] = "failed"
  <2>1. \A v \in Workers \ {w} : Handles(v, t) => Handles(v, t)'
    BY <1>1 DEF Handles
  <2> QED
    BY <1>3, <2>1 DEF IndexedInv
<1>4. IndexedInv'
  BY <1>1, <1>3 DEF IndexedInv
<1> QED
  BY <1>2, <1>4

LEMMA IndexedStep ==
  TypeOK /\ LoadedInv /\ IndexedInv /\ OutcomeInv /\ [Next]_vars => IndexedInv' /\ OutcomeInv'
<1> SUFFICES ASSUME TypeOK, LoadedInv, IndexedInv, OutcomeInv, [Next]_vars
             PROVE  IndexedInv' /\ OutcomeInv'
  OBVIOUS
<1>1. ASSUME NEW m \in Models, LoadModel(m) PROVE IndexedInv' /\ OutcomeInv'
  <2>1. \A n \in Models : model[n] = "failed" => model'[n] = "failed"
    BY <1>1 DEF LoadModel, TypeOK
  <2> QED
    BY <1>1, <2>1, IndexedFrame DEF LoadModel, work, mainVars, signals
<1>2. ASSUME \/ Cancel \/ Expire \/ LoadRuntime \/ FatalRuntime \/ ServeFails \/ Shutdown
             \/ \E r \in Requests : TokenizeFreed(r)
      PROVE  IndexedInv' /\ OutcomeInv'
  BY <1>2, IndexedFrame
     DEF Cancel, Expire, LoadRuntime, FatalRuntime, TokenizeFreed, ServeFails, Shutdown, work,
         models, signals, mainVars
<1>3. CASE MainStep
  <2>1. OutcomeInv' /\ UNCHANGED <<mode, worker, todo, status, model, ctxDone>>
    BY <1>3 DEF MainStep, Listen, ServerReturns, EndWait, Join, CloseExiftool, CloseModel,
                CloseDatabase, CloseTokenizer, work, models, mainVars, signals, OutcomeInv
  <2>2. CASE Listen \/ ServerReturns
    BY <2>1, <2>2 DEF Listen, ServerReturns, IndexedInv
  <2>3. CASE EndWait
    BY <2>1, <2>3 DEF EndWait, QueueIdle, IndexedInv, Handles
  <2>4. CASE Join \/ (\E w \in Workers : CloseExiftool(w)) \/ CloseDatabase
             \/ CloseTokenizer
             \/ (\E m \in Models, next \in {"clip", "database", "exited"} : CloseModel(m, next))
    <3>1. main \notin {"wait", "died"} /\ main' \notin {"wait", "serve"}
      BY <2>4 DEF Join, FirstClose, CloseExiftool, CloseDatabase, CloseTokenizer, CloseModel, Models
    <3> QED
      BY <2>1, <3>1 DEF IndexedInv, Handles
  <2> QED
    BY <1>3, <2>2, <2>3, <2>4 DEF MainStep, Models
<1>4. ASSUME NEW w \in Workers, WorkerStep(w) PROVE IndexedInv' /\ OutcomeInv'
  <2>1. Alive /\ UNCHANGED <<mode, main, closed, ctxDone, model, server>>
    BY <1>4 DEF WorkerStep, Pop, Leave, WaitLoad, BeginUse, EndUse, Store, UnlessWorker,
                mainVars, signals
  <2>2. worker[w].at # "exited" /\ (main # "wait" => worker[w].at = "pop" \/ ctxDone \/ mode # "index")
    BY <1>4, <2>1 DEF WorkerStep, Pop, Leave, WaitLoad, BeginUse, EndUse, Store, IndexedInv, Alive
  <2>3. CASE Pop(w)
    <3>1. PICK t \in todo :
            /\ todo' = todo \ {t}
            /\ Set(w, IF ctxDone THEN Idle
                      ELSE [Idle EXCEPT !.task = t,
                              !.at = IF Uses[t] = "exiftool" THEN "use" ELSE "load"])
      BY <2>3 DEF Pop
    <3> DEFINE j == IF ctxDone THEN Idle
                    ELSE [Idle EXCEPT !.task = t,
                            !.at = IF Uses[t] = "exiftool" THEN "use" ELSE "load"]
    <3>2. /\ ~ctxDone => j.at \in {"use", "load"} /\ j.task = t
          /\ j.at = "load" => j.task = t /\ Uses[t] # "exiftool"
          /\ j.at # "store" /\ worker[w].at = "pop" /\ UNCHANGED status
      BY <2>3 DEF Pop, Idle
    <3>3. worker' = [worker EXCEPT ![w] = j] /\ worker'[w] = j
      BY <3>1 DEF Set, TypeOK
    <3>4. mode = "index" /\ ~ctxDone => main \in {"wait", "died"}
      BY <3>1 DEF IndexedInv
    <3> HIDE DEF j
    <3> QED
      BY <2>1, <3>1, <3>2, <3>3, <3>4, IndexedMove DEF Handles
  <2>4. CASE Leave(w)
    BY <2>1, <2>4, IndexedMove DEF Leave, Set, Exited, Idle, Handles
  <2>5. CASE WaitLoad(w)
    <3>1. worker[w].at = "load" /\ UNCHANGED <<todo, status>>
      BY <2>5 DEF WaitLoad
    <3>2. CASE (ctxDone \/ model[Uses[worker[w].task]] = "failed") /\ Set(w, Idle)
      <4>1. worker[w].task \in Tasks
        BY <3>1 DEF LoadedInv
      <4>2. ~ctxDone => Uses[worker[w].task] \in Models
        BY <3>1, <4>1, LifecycleAssumption DEF Models, OutcomeInv
      <4> QED
        BY <2>1, <3>1, <3>2, <4>1, <4>2, IndexedMove DEF Set, Idle, Handles
    <3>3. CASE Set(w, [worker[w] EXCEPT !.at = "use"])
      <4> DEFINE j == [worker[w] EXCEPT !.at = "use"]
      <4>1. j.at = "use" /\ j.task = worker[w].task
        BY DEF TypeOK
      <4>2. worker' = [worker EXCEPT ![w] = j] /\ worker'[w] = j
        BY <3>3 DEF Set, TypeOK
      <4> HIDE DEF j
      <4> QED
        BY <2>1, <2>2, <3>1, <4>1, <4>2, IndexedMove DEF Handles, Alive
    <3> QED
      BY <2>5, <3>2, <3>3 DEF WaitLoad
  <2>6. CASE BeginUse(w)
    <3>1. PICK j : /\ Set(w, j)
                   /\ j.at \in {"store", "using"} /\ j.task = worker[w].task
                   /\ j.at = "store" => j.result \in {"ok", "failed"}
      <4>1. CASE Set(w, [worker[w] EXCEPT !.at = "using"])
        BY <4>1 DEF TypeOK
      <4>2. CASE Geocoding(w) /\ Set(w, [worker[w] EXCEPT !.at = "store"])
        BY <4>2 DEF Geocoding, TypeOK
      <4>3. CASE Set(w, [worker[w] EXCEPT !.at = "store", !.result = "failed", !.broken = TRUE])
        <5> DEFINE k == [worker[w] EXCEPT !.at = "store", !.result = "failed", !.broken = TRUE]
        <5>1. k.at = "store" /\ k.result = "failed" /\ k.task = worker[w].task
          BY DEF TypeOK
        <5>2. Set(w, k)
          BY <4>3
        <5> HIDE DEF k
        <5> QED
          BY <5>1, <5>2
      <4> QED
        BY <2>6, <4>1, <4>2, <4>3 DEF BeginUse
    <3>2. worker[w].at = "use"
      BY <2>6 DEF BeginUse
    <3>3. worker' = [worker EXCEPT ![w] = j] /\ worker'[w] = j
      BY <3>1 DEF Set, TypeOK
    <3> QED
      BY <2>1, <2>2, <2>6, <3>1, <3>2, <3>3, IndexedMove DEF BeginUse, Handles, Alive
  <2>7. CASE EndUse(w)
    <3>1. PICK j \in EndedUses(w) : Set(w, j)
      BY <2>7, EndUseJob
    <3>2. /\ j.at \in {"store", "use"} /\ (j.at = "store" => j.result \in {"ok", "failed"})
          /\ j.task = worker[w].task /\ worker[w].at = "using"
      BY <2>7, <3>1 DEF EndUse, EndedUses, TypeOK
    <3>3. worker' = [worker EXCEPT ![w] = j] /\ worker'[w] = j
      BY <3>1 DEF Set, TypeOK
    <3> QED
      BY <2>1, <2>2, <2>7, <3>2, <3>3, IndexedMove DEF EndUse, UnlessWorker, Handles, Alive
  <2>8. CASE Store(w)
    <3>1. worker[w].task \in Tasks /\ worker[w].at = "store"
      BY <2>8 DEF Store, LoadedInv
    <3>2. mode = "index" /\ ~ctxDone => "database" \notin closed
      BY <2>1, <2>2, <3>1 DEF IndexedInv, Alive
    <3>3. \A t \in Tasks : mode = "index" /\ ~ctxDone /\ status'[t] = "pending" =>
            status[t] = "pending" /\ t # worker[w].task
      BY <2>8, <3>1, <3>2 DEF Store, TypeOK, OutcomeInv
    <3> QED
      BY <2>1, <2>8, <3>3, IndexedMove DEF Store, Set, Idle, Handles
  <2> QED
    BY <1>4, <2>3, <2>4, <2>5, <2>6, <2>7, <2>8 DEF WorkerStep
<1>5. ASSUME NEW r \in Requests, BeginRequest(r) \/ RequestStep(r)
      PROVE  IndexedInv' /\ OutcomeInv'
  BY <1>5, IndexedFrame
     DEF BeginRequest, RequestStep, WaitTextual, Tokenize, BeginEmbed, EndEmbed, EndRequest,
         UnlessRequest, work, mainVars, signals
<1>6. CASE UNCHANGED vars
  BY <1>6, IndexedFrame DEF vars, work, models, mainVars, signals
<1> QED
  BY <1>1, <1>2, <1>3, <1>4, <1>5, <1>6 DEF Next, Load

\* --index-only ends with an outcome for every step, unless a signal came or
\* a model did not load.
THEOREM IndexOnlyDone == Spec => []IndexOnlyComplete
<1>1. Init => TypeOK /\ LoadedInv /\ IndexedInv /\ OutcomeInv
  BY TypeInit, LoadedInit, IndexedInit
<1>2. TypeOK /\ LoadedInv /\ IndexedInv /\ OutcomeInv /\ [Next]_vars
        => TypeOK' /\ LoadedInv' /\ IndexedInv' /\ OutcomeInv'
  BY TypeStep, LoadedStep, IndexedStep
<1>3. IndexedInv => IndexOnlyComplete
  BY LifecycleAssumption DEF IndexedInv, IndexOnlyComplete, Handles, Models
<1> QED
  BY <1>1, <1>2, <1>3, PTL DEF Spec

----------------------------------------------------------------------------
\* The shared mutex of the sessions, and Close

\* At most one worker or request runs a session at a time: who runs one has
\* the mutex.
UsesSession(w) == worker[w].at = "using" /\ Uses[worker[w].task] # "exiftool"
OneSessionUser ==
  /\ \A v, w \in Workers : UsesSession(v) /\ UsesSession(w) => v = w
  /\ \A r, s \in Requests : request[r] = "embedding" /\ request[s] = "embedding" => r = s
  /\ \A w \in Workers, r \in Requests : ~(UsesSession(w) /\ request[r] = "embedding")

\* No session or exiftool is closed while it runs, in whatever way main came
\* to its Close.  (The tokenizer has no mutex: TokenizeFreed.)
ClosedUnused ==
  /\ \A w \in Workers : worker[w].at = "using" => Resource(w) \notin closed
  /\ \A r \in Requests : request[r] = "embedding" => "textual" \notin closed

\* The holder of the mutex is the one who runs a session, and that model loaded.
SessionInv ==
  /\ \A w \in Workers : UsesSession(w) <=> gpu = w
  /\ \A r \in Requests : request[r] = "embedding" <=> gpu = r
  /\ \A r \in Requests : request[r] \in {"tokenize", "embed", "embedding"} => model["textual"] = "ok"
  /\ ClosedUnused

LEMMA SessionInit == Init => SessionInv
<1> SUFFICES ASSUME Init PROVE SessionInv
  OBVIOUS
<1>1. /\ \A w \in Workers : worker[w].at # "using"
      /\ \A r \in Requests : request[r] = "none"
      /\ gpu = None
  BY DEF Init, Idle, Exited
<1> QED
  BY <1>1, LifecycleAssumption DEF SessionInv, UsesSession, ClosedUnused

\* Steps of main and of the loads: who uses a session stays, the models that
\* are ready stay, and what is closed now is not in use.
LEMMA SessionFrame ==
  ASSUME SessionInv, UNCHANGED <<worker, request, gpu>>, ModelsStay,
         \A w \in Workers : worker[w].at = "using" => Resource(w) \notin closed' \ closed,
         \A r \in Requests : request[r] = "embedding" => "textual" \notin closed' \ closed
  PROVE  SessionInv'
<1>1. \A w \in Workers : UsesSession(w)' = UsesSession(w) /\ Resource(w)' = Resource(w)
  BY DEF UsesSession, Resource
<1>2. ClosedUnused'
  BY <1>1 DEF SessionInv, ClosedUnused
<1>3. \A r \in Requests : request'[r] \in {"tokenize", "embed", "embedding"} => model'["textual"] = "ok"
  BY DEF SessionInv, ModelsStay, Models
<1> QED
  BY <1>1, <1>2, <1>3 DEF SessionInv

\* A worker that begins or ends a use takes or frees the mutex with it.
LEMMA SessionMove ==
  ASSUME TypeOK, SessionInv, NEW w \in Workers, NEW j, Set(w, j),
         UNCHANGED <<request, model, closed>>,
         j.at = "using" => /\ worker[w].at = "use" /\ j.task = worker[w].task
                           /\ Resource(w) \notin closed,
         \/ ~UsesSession(w) /\ gpu' = gpu
              /\ (j.at = "using" => Uses[j.task] = "exiftool")
         \/ ~UsesSession(w) /\ gpu = None /\ gpu' = w
              /\ j.at = "using" /\ Uses[j.task] # "exiftool"
         \/ UsesSession(w) /\ gpu' = None /\ j.at # "using"
  PROVE  SessionInv'
<1>1. worker' = [worker EXCEPT ![w] = j] /\ worker'[w] = j
      /\ \A v \in Workers \ {w} : worker'[v] = worker[v]
  BY DEF Set, TypeOK
<1>2. \A v \in Workers \ {w} : UsesSession(v)' = UsesSession(v) /\ Resource(v)' = Resource(v)
  BY <1>1 DEF UsesSession, Resource
<1>3. UsesSession(w)' <=> j.at = "using" /\ Uses[j.task] # "exiftool"
  BY <1>1 DEF UsesSession
<1>4. \A v \in Workers : UsesSession(v)' <=> gpu' = v
  BY <1>2, <1>3, LifecycleAssumption DEF SessionInv
<1>5. w \notin Requests /\ w # None /\ None \notin Requests
  BY LifecycleAssumption
<1>6. \A r \in Requests : request'[r] = "embedding" <=> gpu' = r
  BY <1>5 DEF SessionInv
<1>7. j.at = "using" => Resource(w)' = Resource(w)
  BY <1>1 DEF Resource
<1>8. ClosedUnused'
  BY <1>1, <1>2, <1>7 DEF SessionInv, ClosedUnused
<1> QED
  BY <1>4, <1>6, <1>8 DEF SessionInv

LEMMA SessionStep ==
  ASSUME TypeOK, LoadedInv, SessionInv, [Next]_vars
  PROVE  SessionInv'
<1>1. ASSUME NEW m \in Models, LoadModel(m) PROVE SessionInv'
  <2>1. ModelsStay
    BY <1>1 DEF LoadModel, ModelsStay, TypeOK
  <2> QED
    BY <1>1, <2>1, SessionFrame DEF LoadModel, work, mainVars
<1>2. ASSUME Cancel \/ Expire \/ LoadRuntime \/ FatalRuntime \/ ServeFails \/ Shutdown
             \/ UNCHANGED vars \/ \E r \in Requests : TokenizeFreed(r)
      PROVE  SessionInv'
  <2>1. UNCHANGED <<worker, request, gpu, model, closed>>
    BY <1>2 DEF Cancel, Expire, LoadRuntime, FatalRuntime, TokenizeFreed, ServeFails, Shutdown,
                work, models, mainVars, vars
  <2> QED
    BY <2>1, SessionFrame DEF ModelsStay
<1>3. ASSUME Listen \/ ServerReturns \/ EndWait \/ Join \/ CloseDatabase \/ CloseTokenizer
      PROVE  SessionInv'
  <2>1. /\ UNCHANGED <<worker, request, gpu, model>>
        /\ closed' \subseteq closed \cup {"database", "tokenizer"}
    BY <1>3 DEF Listen, ServerReturns, EndWait, Join, CloseDatabase, CloseTokenizer, work, models,
                mainVars
  <2>2. \A w \in Workers : worker[w].at = "using" => Resource(w) \notin {"database", "tokenizer"}
    BY LifecycleAssumption DEF Resource, LoadedInv
  <2> QED
    BY <2>1, <2>2, SessionFrame DEF ModelsStay
<1>4. ASSUME NEW w \in Workers, CloseExiftool(w) PROVE SessionInv'
  <2>1. /\ UNCHANGED <<worker, request, gpu, model>> /\ closed' = closed \cup {w}
        /\ ~(worker[w].at = "using" /\ Uses[worker[w].task] = "exiftool")
    BY <1>4 DEF CloseExiftool, work, models
  <2>2. ASSUME NEW v \in Workers, worker[v].at = "using" PROVE Resource(v) # w
    <3>1. Uses[worker[v].task] \in {"exiftool", "clip", "ocr"}
      BY <2>2, LifecycleAssumption DEF LoadedInv
    <3> QED
      BY <2>1, <2>2, <3>1, LifecycleAssumption DEF Resource, Models
  <2>3. "textual" # w
    BY LifecycleAssumption DEF Models
  <2> QED
    BY <2>1, <2>2, <2>3, SessionFrame DEF ModelsStay
<1>5. ASSUME NEW m \in Models, NEW next, CloseModel(m, next) PROVE SessionInv'
  <2>1. /\ UNCHANGED <<worker, request, gpu, model>> /\ closed' = closed \cup {m}
        /\ model[m] = "ok" => gpu = None
    BY <1>5 DEF CloseModel, work, models
  <2>2. ASSUME NEW v \in Workers, worker[v].at = "using" PROVE Resource(v) # m
    <3>1. worker[v].task \in Tasks /\ Loaded(worker[v].task)
      BY <2>2 DEF LoadedInv
    <3>2. CASE Uses[worker[v].task] = "exiftool"
      BY <3>2, LifecycleAssumption DEF Resource, Models
    <3>3. CASE Uses[worker[v].task] # "exiftool"
      <4>1. gpu = v /\ v # None
        BY <2>2, <3>3, LifecycleAssumption DEF SessionInv, UsesSession
      <4>2. Uses[worker[v].task] \in Models /\ model[Uses[worker[v].task]] = "ok"
        BY <3>1, <3>3, LifecycleAssumption DEF Loaded, Models
      <4> QED
        BY <2>1, <3>3, <4>1, <4>2 DEF Resource
    <3> QED
      BY <3>2, <3>3
  <2>3. ASSUME NEW r \in Requests, request[r] = "embedding" PROVE "textual" # m
    BY <2>1, <2>3, LifecycleAssumption DEF SessionInv
  <2> QED
    BY <2>1, <2>2, <2>3, SessionFrame DEF ModelsStay
<1>6. ASSUME NEW w \in Workers, WorkerStep(w) PROVE SessionInv'
  <2>0. UNCHANGED <<request, model, closed>>
    BY <1>6 DEF WorkerStep, Pop, Leave, WaitLoad, BeginUse, EndUse, Store, UnlessWorker, mainVars
  <2>1. CASE Pop(w) \/ Leave(w) \/ WaitLoad(w) \/ Store(w)
    <3>1. PICK j : Set(w, j) /\ j.at # "using"
      <4>1. CASE Pop(w)
        <5>1. PICK t \in todo :
                Set(w, IF ctxDone THEN Idle
                       ELSE [Idle EXCEPT !.task = t,
                               !.at = IF Uses[t] = "exiftool" THEN "use" ELSE "load"])
          BY <4>1 DEF Pop
        <5> DEFINE j == IF ctxDone THEN Idle
                        ELSE [Idle EXCEPT !.task = t,
                                !.at = IF Uses[t] = "exiftool" THEN "use" ELSE "load"]
        <5>2. j.at # "using"
          BY DEF Idle
        <5>3. Set(w, j)
          BY <5>1
        <5> HIDE DEF j
        <5> QED
          BY <5>2, <5>3
      <4>2. CASE Leave(w)
        BY <4>2 DEF Leave, Idle, Exited
      <4>3. CASE WaitLoad(w)
        BY <4>3 DEF WaitLoad, Idle, TypeOK
      <4>4. CASE Store(w)
        BY <4>4 DEF Store, Idle
      <4> QED
        BY <2>1, <4>1, <4>2, <4>3, <4>4
    <3>2. worker[w].at # "using" /\ gpu' = gpu
      BY <2>1 DEF Pop, Leave, WaitLoad, Store
    <3> QED
      BY <2>0, <3>1, <3>2, SessionMove DEF UsesSession
  <2>2. CASE BeginUse(w)
    <3>1. worker[w].at = "use" /\ ~UsesSession(w)
      BY <2>2 DEF BeginUse, UsesSession
    <3>2. CASE Resource(w) \in closed
      <4>1. PICK j \in {[worker[w] EXCEPT !.at = "store"],
                        [worker[w] EXCEPT !.at = "store", !.result = "failed", !.broken = TRUE]} :
              Set(w, j) /\ UNCHANGED gpu
        BY <2>2, <3>2 DEF BeginUse
      <4>2. j.at = "store"
        BY <4>1 DEF TypeOK
      <4> QED
        BY <2>0, <3>1, <4>1, <4>2, SessionMove
    <3> DEFINE k == [worker[w] EXCEPT !.at = "using"]
    <3>3. k.at = "using" /\ k.task = worker[w].task
      BY DEF TypeOK
    <3>4. CASE Resource(w) = w /\ w \notin closed /\ Set(w, k) /\ UNCHANGED gpu
      <4>1. Uses[worker[w].task] = "exiftool"
        <5>1. Uses[worker[w].task] \in {"exiftool", "clip", "ocr"}
          BY <3>1, LifecycleAssumption DEF LoadedInv
        <5> QED
          BY <3>4, <5>1, LifecycleAssumption DEF Resource, Models
      <4> HIDE DEF k
      <4> QED
        BY <2>0, <3>1, <3>3, <3>4, <4>1, SessionMove
    <3>5. CASE Resource(w) \in Models \ closed /\ gpu = None /\ Set(w, k) /\ gpu' = w
      <4>1. Uses[worker[w].task] # "exiftool"
        BY <3>5, LifecycleAssumption DEF Resource, Models
      <4> HIDE DEF k
      <4> QED
        BY <2>0, <3>1, <3>3, <3>5, <4>1, SessionMove
    <3> QED
      BY <2>2, <3>2, <3>4, <3>5 DEF BeginUse
  <2>3. CASE EndUse(w)
    <3>1. worker[w].at = "using" /\ gpu' = IF gpu = w THEN None ELSE gpu
      BY <2>3 DEF EndUse
    <3>2. PICK j \in EndedUses(w) : Set(w, j)
      BY <2>3, EndUseJob
    <3>3. j.at # "using"
      BY <3>2 DEF EndedUses, TypeOK
    <3>4. UsesSession(w) <=> gpu = w
      BY DEF SessionInv
    <3> QED
      BY <2>0, <3>1, <3>2, <3>3, <3>4, SessionMove
  <2> QED
    BY <1>6, <2>1, <2>2, <2>3 DEF WorkerStep
<1>7. ASSUME NEW r \in Requests, BeginRequest(r) \/ RequestStep(r) PROVE SessionInv'
  <2>0. /\ UNCHANGED <<worker, model, closed>>
        /\ \A w \in Workers : UsesSession(w)' = UsesSession(w) /\ Resource(w)' = Resource(w)
        /\ r \notin Workers /\ r # None /\ None \notin Workers
    BY <1>7, LifecycleAssumption
       DEF BeginRequest, RequestStep, WaitTextual, Tokenize, BeginEmbed, EndEmbed, EndRequest,
           UnlessRequest, work, mainVars, UsesSession, Resource
  <2>1. \A p : GotoR(r, p) => request'[r] = p /\ \A s \in Requests \ {r} : request'[s] = request[s]
    BY DEF GotoR, TypeOK
  <2>7. ASSUME NEW p, GotoR(r, p), p = "embedding" <=> gpu' = r,
               \A s \in (Workers \cup Requests) \ {r} : gpu' = s <=> gpu = s,
               p \in {"tokenize", "embed", "embedding"} => model["textual"] = "ok",
               p = "embedding" => "textual" \notin closed
        PROVE  SessionInv'
    BY <2>0, <2>1, <2>7 DEF SessionInv, ClosedUnused
  <2> USE DEF SessionInv, ClosedUnused
  <2>2. CASE BeginRequest(r)
    BY <2>0, <2>1, <2>2 DEF BeginRequest
  <2>3. CASE WaitTextual(r) \/ Tokenize(r)
    BY <2>0, <2>1, <2>3 DEF WaitTextual, Tokenize
  <2>4. CASE BeginEmbed(r)
    <3>1. gpu # r /\ model["textual"] = "ok"
      BY <2>4 DEF BeginEmbed
    <3>2. CASE GotoR(r, "none") /\ UNCHANGED gpu
      BY <2>7, <3>1, <3>2
    <3>3. CASE "textual" \notin closed /\ gpu = None /\ gpu' = r /\ GotoR(r, "embedding")
      BY <2>0, <2>7, <3>1, <3>3, LifecycleAssumption
    <3> QED
      BY <2>4, <3>2, <3>3 DEF BeginEmbed
  <2>5. CASE EndEmbed(r)
    <3>1. gpu = r /\ gpu' = None
      BY <2>5 DEF EndEmbed
    <3>2. PICK p \in {"query", "none"} : GotoR(r, p)
      BY <2>5 DEF EndEmbed
    <3> QED
      BY <3>2, <2>0, <2>7, <3>1, LifecycleAssumption
  <2>6. CASE EndRequest(r)
    BY <2>0, <2>1, <2>6 DEF EndRequest
  <2> QED
    BY <1>7, <2>2, <2>3, <2>4, <2>5, <2>6 DEF RequestStep
<1> QED
  BY <1>1, <1>2, <1>3, <1>4, <1>5, <1>6, <1>7 DEF Next, Load, MainStep, Models

\* Embed, recognizeBatch and the other runs of a session exclude each other
\* (onnxruntime's mutex), and nobody has the session or the exiftool it is
\* using closed under it: Close waits for the use, even when main came to it
\* past the join because the server failed.
THEOREM SessionsExclusive == Spec => [](OneSessionUser /\ ClosedUnused)
<1>1. Init => TypeOK /\ LoadedInv /\ SessionInv
  BY TypeInit, LoadedInit, SessionInit
<1>2. TypeOK /\ LoadedInv /\ SessionInv /\ [Next]_vars => TypeOK' /\ LoadedInv' /\ SessionInv'
  BY TypeStep, LoadedStep, SessionStep
<1>3. SessionInv => OneSessionUser /\ ClosedUnused
  BY LifecycleAssumption DEF SessionInv, OneSessionUser
<1> QED
  BY <1>1, <1>2, <1>3, PTL DEF Spec

----------------------------------------------------------------------------
\* Interrupted steps

\* A worker meets something closed only if the server failed.
BrokenInv == \A w \in Workers : worker[w].broken => server = "failed"

LEMMA BrokenStep ==
  ASSUME TypeOK, JoinedInv, BrokenInv, [Next]_vars
  PROVE  BrokenInv'
<1>1. ASSUME NEW w \in Workers, WorkerStep(w) PROVE BrokenInv'
  <2>1. UNCHANGED server
    BY <1>1 DEF WorkerStep, Pop, Leave, WaitLoad, BeginUse, EndUse, Store, UnlessWorker
  <2>2. ASSUME NEW j, Set(w, j), j.broken => worker[w].broken \/ server = "failed"
        PROVE  BrokenInv'
    BY <2>1, <2>2 DEF BrokenInv, Set, TypeOK
  <2>3. CASE Pop(w)
    BY <2>2, <2>3 DEF Pop, Idle
  <2>4. CASE Leave(w)
    BY <2>2, <2>4 DEF Leave, Idle, Exited
  <2>5. CASE WaitLoad(w)
    <3>1. PICK j \in {Idle, [worker[w] EXCEPT !.at = "use"]} : Set(w, j)
      BY <2>5 DEF WaitLoad
    <3>2. j.broken => worker[w].broken
      BY DEF Idle, TypeOK
    <3> QED
      BY <2>2, <3>1, <3>2
  <2>6. CASE BeginUse(w)
    <3>1. CASE Resource(w) \in closed
      <4>1. worker[w] # Exited
        BY <2>6 DEF BeginUse, Exited, Idle
      <4>2. server = "failed"
        BY <3>1, <4>1 DEF JoinedInv
      <4> QED
        BY <2>1, <4>2 DEF BrokenInv
    <3>2. CASE Resource(w) \notin closed
      <4>1. Set(w, [worker[w] EXCEPT !.at = "using"])
        BY <2>6, <3>2 DEF BeginUse
      <4>2. [worker[w] EXCEPT !.at = "using"].broken = worker[w].broken
        BY DEF TypeOK
      <4> QED
        BY <2>2, <4>1, <4>2
    <3> QED
      BY <3>1, <3>2
  <2>7. CASE EndUse(w)
    <3>1. PICK j \in EndedUses(w) : Set(w, j)
      BY <2>7, EndUseJob
    <3>2. /\ [worker[w] EXCEPT !.at = "store", !.result = "ok"].broken = worker[w].broken
          /\ [worker[w] EXCEPT !.at = "store", !.result = "failed"].broken = worker[w].broken
          /\ [worker[w] EXCEPT !.at = "use", !.result = "ok"].broken = worker[w].broken
      BY DEF TypeOK
    <3>3. j.broken = worker[w].broken
      BY <3>1, <3>2 DEF EndedUses
    <3> QED
      BY <2>2, <3>1, <3>3
  <2>8. CASE Store(w)
    BY <2>2, <2>8 DEF Store, Idle
  <2> QED
    BY <1>1, <2>3, <2>4, <2>5, <2>6, <2>7, <2>8 DEF WorkerStep
<1>2. ASSUME ~ \E w \in Workers : WorkerStep(w)
      PROVE  UNCHANGED worker /\ (server = "failed" => server' = "failed")
  BY <1>2 DEF Next, Cancel, Expire, Load, LoadRuntime, LoadModel, FatalRuntime, ServeFails,
     Shutdown, MainStep, Listen, ServerReturns, EndWait, Join, CloseExiftool, CloseModel,
     CloseDatabase, CloseTokenizer, BeginRequest, RequestStep, WaitTextual, Tokenize, BeginEmbed,
     EndEmbed, EndRequest, TokenizeFreed, UnlessRequest, work, vars
<1> QED
  BY <1>1, <1>2 DEF BrokenInv

\* The promise of InterruptedStaysPending, but for a server that failed.
InterruptedUnlessFailed ==
  [][server # "failed" =>
       \A t \in Tasks : status'[t] # status[t] =>
         \E w \in Workers : worker[w].task = t /\ ~worker[w].broken]_vars

\* A signal never makes a step fail: as long as the server has not failed, an
\* outcome is only stored by a worker whose tools were all there.  So the early
\* return of main after a failed server is the only cause of finding 3.
THEOREM OnlyTheServerBreaks == Spec => InterruptedUnlessFailed
<1>1. Init => TypeOK /\ LoadedInv /\ JoinedInv /\ BrokenInv
  BY TypeInit, LoadedInit, JoinedInit DEF Init, BrokenInv, Idle, Exited
<1>2. TypeOK /\ LoadedInv /\ JoinedInv /\ BrokenInv /\ [Next]_vars
        => TypeOK' /\ LoadedInv' /\ JoinedInv' /\ BrokenInv'
  BY TypeStep, LoadedStep, JoinedStep, BrokenStep
<1> DEFINE Done ==
      server # "failed" =>
        \A t \in Tasks : status'[t] # status[t] =>
          \E w \in Workers : worker[w].task = t /\ ~worker[w].broken
<1>3. ASSUME TypeOK, BrokenInv, [Next]_vars PROVE Done
  <2> SUFFICES ASSUME server # "failed", NEW t \in Tasks, status'[t] # status[t]
               PROVE  \E w \in Workers : worker[w].task = t /\ ~worker[w].broken
    OBVIOUS
  <2>1. PICK w \in Workers : Store(w)
    BY <1>3 DEF Next, Cancel, Expire, Load, LoadRuntime, LoadModel, FatalRuntime, ServeFails,
       Shutdown, MainStep, Listen, ServerReturns, EndWait, Join, CloseExiftool, CloseModel,
       CloseDatabase, CloseTokenizer, BeginRequest, RequestStep, WaitTextual, Tokenize, BeginEmbed,
       EndEmbed, EndRequest, TokenizeFreed, UnlessRequest, work, vars, WorkerStep, Pop, Leave,
       WaitLoad, BeginUse, EndUse
  <2>2. worker[w].task = t
    BY <1>3, <2>1 DEF Store, TypeOK
  <2> QED
    BY <1>3, <2>2 DEF BrokenInv
<1> QED
  BY <1>1, <1>2, <1>3, PTL DEF Spec, InterruptedUnlessFailed
============================================================================
