------------------------------ MODULE Exiftool ------------------------------
(***************************************************************************)
(* The exiftool client (internal/clients/exiftool/exiftool.go) under the   *)
(* metadata worker that owns it (internal/tasks/metadata.go).  The child   *)
(* process stays open: a run writes its arguments to stdin and reads       *)
(* stdout line by line up to the child's "{readyN}".                       *)
(*                                                                         *)
(* stdin and stdout are pipes of a bounded size; the child answers the     *)
(* requests in their order, and may die anywhere.  Of the lines of an      *)
(* answer two are kept, the first and the last: the client tells apart      *)
(* whose they are, and whether one is longer than a Scanner holds (64 KB). *)
(* Close may come under the worker, when the server fails (main.go:220).   *)
(* The context is alive: once it is canceled no outcome is stored.         *)
(***************************************************************************)
EXTENDS Naturals, Sequences

CONSTANTS
  Photos,   \* the files the worker probes
  NoPhoto,
  InSize,   \* bound: requests that fit in the child's stdin
  OutSize   \* bound: lines that fit in its stdout

ASSUME ExiftoolAssumption ==
  /\ InSize \in Nat \ {0} /\ OutSize \in Nat \ {0}
  /\ NoPhoto \notin Photos

\* What exiftool makes of a file: its tags, tags with coordinates but no
\* city, tags of which one is too long, or nothing.
Natures == {"plain", "located", "verbose", "unreadable"}
Questions == {"probe", "geocode"}

VARIABLES
  nature,    \* of each file
  mu,        \* the mutex of the client: "free", or who holds it
  counter,   \* the number of the last run
  stdin, stdout,
  writing,    \* the lines of its current answer that the child has not written
  alive,     \* the child runs
  scanner,   \* "ok", or "failed" for good after a line that was too long
  calling,        \* where the worker is
  question, photo,  \* what it asks about which file
  response,  \* the lines it has read
  status,    \* the metadata status of each file
  stored,    \* whose answer to each question is stored for a file
  closing,   \* where Close is
  died       \* history: the child has died of itself

callVars == <<calling, question, photo, response>>
childVars == <<stdin, stdout, writing, alive, died>>
toolVars == <<nature, mu, counter, scanner, status, stored, closing, callVars, childVars>>

ToolInit ==
  /\ nature \in [Photos -> Natures]
  /\ mu = "free" /\ counter = 0 /\ scanner = "ok"
  /\ stdin = <<>> /\ stdout = <<>> /\ writing = <<>> /\ alive = TRUE
  /\ calling = "idle" /\ question = "probe" /\ photo = NoPhoto /\ response = <<>>
  /\ status = [f \in Photos |-> "pending"]
  /\ stored = [f \in Photos |-> [q \in Questions |-> NoPhoto]]
  /\ closing = "no" /\ died = FALSE

----------------------------------------------------------------------------
\* The child

Arguments(n, q, f) == [kind |-> "ask", number |-> n, question |-> q, photo |-> f]
StayOpenFalse == [kind |-> "quit"]

Line(part, q, f) == [part |-> part, question |-> q, photo |-> f]
Ready(n) == [part |-> "ready", number |-> n]

\* An unreadable file is reported on stderr alone.
AnswerTo(n, q, f) ==
  IF q = "probe" /\ nature[f] = "unreadable" THEN <<Ready(n)>>
  ELSE <<Line("first", q, f), Line("last", q, f), Ready(n)>>

\* Longer than the buffer of the scanner.
TooLong(line) ==
  line.part = "last" /\ line.question = "probe" /\ nature[line.photo] = "verbose"

ChildRead ==
  /\ alive /\ writing = <<>> /\ stdin # <<>> /\ Head(stdin).kind = "ask"
  /\ writing' = AnswerTo(Head(stdin).number, Head(stdin).question, Head(stdin).photo)
  /\ stdin' = Tail(stdin)
  /\ UNCHANGED <<nature, mu, counter, scanner, status, stored, closing, callVars>>
  /\ UNCHANGED <<stdout, alive, died>>

\* A write waits for room in the pipe.
ChildWrite ==
  /\ alive /\ writing # <<>> /\ Len(stdout) < OutSize
  /\ stdout' = Append(stdout, Head(writing)) /\ writing' = Tail(writing)
  /\ UNCHANGED <<nature, mu, counter, scanner, status, stored, closing, callVars>>
  /\ UNCHANGED <<stdin, alive, died>>

\* -stay_open False
ChildQuit ==
  /\ alive /\ writing = <<>> /\ stdin # <<>> /\ Head(stdin).kind = "quit"
  /\ alive' = FALSE /\ stdin' = <<>>
  /\ UNCHANGED <<nature, mu, counter, scanner, status, stored, closing, callVars>>
  /\ UNCHANGED <<stdout, writing, died>>

ChildDie ==
  /\ alive
  /\ alive' = FALSE /\ died' = TRUE /\ stdin' = <<>> /\ writing' = <<>>
  /\ UNCHANGED <<nature, mu, counter, scanner, status, stored, closing, callVars, stdout>>

----------------------------------------------------------------------------
\* run, and what processMetadata does with its outcome

\* The worker takes a file whose metadata is pending.
ProbeNext(f) ==
  /\ calling = "idle" /\ status[f] = "pending"
  /\ calling' = "lock" /\ question' = "probe" /\ photo' = f
  /\ UNCHANGED <<nature, mu, counter, scanner, status, stored, closing, response, childVars>>

LockTool ==
  /\ calling = "lock" /\ mu = "free"
  /\ mu' = "worker" /\ calling' = "send"
  /\ counter' = counter + 1 /\ response' = <<>>
  /\ UNCHANGED <<nature, scanner, status, stored, closing, question, photo, childVars>>

\* Bug form: the mutex stays locked on the error path.
FailedLocked ==
  /\ calling' = "idle" /\ UNCHANGED mu
  /\ status' = [status EXCEPT ![photo] = IF question = "probe" THEN "failed" ELSE "ok"]
  /\ UNCHANGED <<question, photo, response, stored>>
\* A failed probe is the file's failed status; a failed ReverseGeocode is
\* logged, and the metadata stored without a city.
Failed ==
  /\ calling' = "idle" /\ mu' = "free"
  /\ status' = [status EXCEPT ![photo] = IF question = "probe" THEN "failed" ELSE "ok"]
  /\ UNCHANGED <<question, photo, response, stored>>

\* The response is one JSON document: not empty, not a part, not two.
Parses ==
  /\ Len(response) = 2 /\ response[1].part = "first" /\ response[2].part = "last"

\* Coordinates without a city are followed by a ReverseGeocode.
Succeeded ==
  /\ mu' = "free"
  /\ stored' = [stored EXCEPT ![photo][question] = response[1].photo]
  /\ IF question = "probe" /\ nature[response[1].photo] = "located"
       THEN calling' = "lock" /\ question' = "geocode" /\ UNCHANGED status
       ELSE calling' = "idle" /\ status' = [status EXCEPT ![photo] = "ok"] /\ UNCHANGED question
  /\ UNCHANGED <<photo, response>>

\* The write fails once the child is gone, and waits while stdin is full.
Send ==
  /\ calling = "send"
  /\ \/ /\ ~alive
        /\ Failed /\ UNCHANGED stdin
     \/ /\ alive /\ Len(stdin) < InSize
        /\ stdin' = Append(stdin, Arguments(counter, question, photo))
        /\ calling' = "scan"
        /\ UNCHANGED <<mu, status, stored, question, photo, response>>
  /\ UNCHANGED <<nature, counter, scanner, closing, stdout, writing, alive, died>>

\* Scan returns false: the scanner has failed, fails on this line, whose rest
\* stays in the pipe, or is at the end of the stream.
ScanFails ==
  \/ scanner = "failed" /\ UNCHANGED scanner
  \/ scanner = "ok" /\ stdout # <<>> /\ TooLong(Head(stdout)) /\ scanner' = "failed"
  \/ scanner = "ok" /\ stdout = <<>> /\ ~alive /\ UNCHANGED scanner

ScanLine == scanner = "ok" /\ stdout # <<>> /\ ~TooLong(Head(stdout))

\* Bug form: a reader of lines in the scanner's place, for which a long line
\* ends the call alone, and any number makes an answer ready.
ScanAny ==
  /\ calling = "scan"
  /\ \/ /\ stdout = <<>> /\ ~alive
        /\ Failed /\ UNCHANGED <<scanner, stdout>>
     \/ /\ stdout # <<>> /\ stdout' = Tail(stdout) /\ UNCHANGED scanner
        /\ IF TooLong(Head(stdout)) THEN Failed
           ELSE IF Head(stdout).part = "ready"
                  THEN IF Parses THEN Succeeded ELSE Failed
                  ELSE /\ response' = Append(response, Head(stdout))
                       /\ UNCHANGED <<mu, status, stored, calling, question, photo>>
  /\ UNCHANGED <<nature, counter, closing, stdin, writing, alive, died>>
\* As long as no line is ready with the number of this run.
Scan ==
  /\ calling = "scan"
  /\ \/ ScanFails /\ Failed /\ UNCHANGED stdout
     \/ /\ ScanLine /\ stdout' = Tail(stdout) /\ UNCHANGED scanner
        /\ IF Head(stdout) = Ready(counter)
             THEN IF Parses THEN Succeeded ELSE Failed
             ELSE /\ response' = Append(response, Head(stdout))
                  /\ UNCHANGED <<mu, status, stored, calling, question, photo>>
  /\ UNCHANGED <<nature, counter, closing, stdin, writing, alive, died>>

----------------------------------------------------------------------------
\* Close

CloseLock ==
  /\ closing = "no" /\ mu = "free"
  /\ closing' = "send" /\ mu' = "closer"
  /\ UNCHANGED <<nature, counter, scanner, status, stored, callVars, childVars>>

\* Its write errors are ignored.
CloseSend ==
  /\ closing = "send" /\ (alive => Len(stdin) < InSize)
  /\ stdin' = IF alive THEN Append(stdin, StayOpenFalse) ELSE stdin
  /\ closing' = "wait"
  /\ UNCHANGED <<nature, mu, counter, scanner, status, stored, callVars>>
  /\ UNCHANGED <<stdout, writing, alive, died>>

\* The child ends within three seconds, or is killed; Wait closes stdout.
CloseWait ==
  /\ closing = "wait"
  /\ closing' = "done" /\ mu' = "free"
  /\ alive' = FALSE /\ stdin' = <<>> /\ stdout' = <<>> /\ writing' = <<>>
  /\ UNCHANGED <<nature, counter, scanner, status, stored, callVars, died>>

Child == ChildRead \/ ChildWrite \/ ChildQuit
Run == LockTool \/ Send \/ Scan
Close == CloseSend \/ CloseWait

ToolNext ==
  \/ (\E f \in Photos : ProbeNext(f)) \/ Run
  \/ Child \/ ChildDie
  \/ CloseLock \/ Close

ToolSpec == ToolInit /\ [][ToolNext]_toolVars

ToolFairSpec ==
  ToolSpec /\ WF_toolVars(Run) /\ WF_toolVars(Child) /\ WF_toolVars(Close)

----------------------------------------------------------------------------
Lines ==
  [part : {"first", "last"}, question : Questions, photo : Photos]
    \cup [part : {"ready"}, number : Nat]
Requests ==
  [kind : {"ask"}, number : Nat, question : Questions, photo : Photos] \cup [kind : {"quit"}]

ToolTypeOK ==
  /\ nature \in [Photos -> Natures]
  /\ mu \in {"free", "worker", "closer"} /\ counter \in Nat /\ scanner \in {"ok", "failed"}
  /\ stdin \in Seq(Requests) /\ stdout \in Seq(Lines) /\ writing \in Seq(Lines)
  /\ alive \in BOOLEAN
  /\ calling \in {"idle", "lock", "send", "scan"}
  /\ question \in Questions /\ photo \in Photos \cup {NoPhoto} /\ response \in Seq(Lines)
  /\ status \in [Photos -> {"pending", "ok", "failed"}]
  /\ stored \in [Photos -> [Questions -> Photos \cup {NoPhoto}]]
  /\ closing \in {"no", "send", "wait", "done"} /\ died \in BOOLEAN

\* Whatever long lines, deaths and shutdowns come between, no file is given
\* the answer to another one's question, and a file that exiftool can read
\* fails only after a line that was too long or when the child is gone.
AnswersMatch ==
  \A f \in Photos :
    /\ \A q \in Questions : stored[f][q] \in {f, NoPhoto}
    /\ status[f] = "failed" /\ nature[f] \in {"plain", "located"}
         => scanner = "failed" \/ ~alive

\* Every run ends, and with it its hold on the disk, and so does a Close
\* that has the mutex, whether the child answers, dies or is told to quit:
\* as long as the scanner reads.
RunsReturn ==
  /\ calling # "idle" ~> (calling = "idle" \/ scanner = "failed")
  /\ closing = "send" ~> (closing = "done" \/ scanner = "failed")
=============================================================================
