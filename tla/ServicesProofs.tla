--------------------------- MODULE ServicesProofs ---------------------------
(***************************************************************************)
(* Proofs about the data the program derives and keeps: how a photo        *)
(* becomes metadata, which value wins for every file with every set of     *)
(* sidecars (Metadata); that an answer of the child process reaches its    *)
(* own file, for any files and pipes (Exiftool); the cache directories, for *)
(* any processes and any files (CacheDir); and the database's upgrades,    *)
(* for any number of processes and assets (Migrations).                    *)
(*                                                                         *)
(* At the end, these components and those of ClientProofs together: all    *)
(* that is proved of each holds of the specification that runs them side   *)
(* by side (MCServices).                                                   *)
(***************************************************************************)
EXTENDS MCServices, ClientProofs, SequenceTheorems, FiniteSetTheorems, TLAPS

----------------------------------------------------------------------------
(* How a photo becomes metadata                                            *)

\* The instant that ProbeMetadata takes from the file.  It is the reference's
\* but for the order of the UTC tags of a video.
TakenUTC(f) ==
  IF Wall(f) # 0 THEN IF f.offset = Unknown THEN 0 ELSE Wall(f) - f.offset
  ELSE IF f.video THEN Either(Either(f.create, f.sony), f.gps)
  ELSE Either(f.gps, f.sony)

\* What is known after each function: the reference values, as far as the
\* sidecars that have been applied go.
LocalAfter(s, f) ==
  CASE s = "snapchat" -> Wall(f)
    [] s \in {"google", "icloud"} -> Either(Wall(f), SnapchatWall(f))
    [] s = "immich" -> Either(Wall(f), Either(SnapchatWall(f), ICloudWall(f)))
    [] s \in {"geocode", "done"} -> BestLocal(f)
UTCAfter(s, f) ==
  CASE s \in {"snapchat", "google"} -> TakenUTC(f)
    [] s = "icloud" -> Either(f.google, TakenUTC(f))
    [] s = "immich" -> Either(f.google, Either(TakenUTC(f), f.icloud))
    [] s \in {"geocode", "done"} -> Either(f.immich, Either(f.google, Either(TakenUTC(f), f.icloud)))

CaptureInv ==
  stage # "probe" /\ ~CreationZoned(file) =>
    localTime = LocalAfter(stage, file) /\ utcTime = UTCAfter(stage, file)

\* Before the geocoding each is the tag, or of the file's own place, or none.
CityInv ==
  /\ stage \in {"snapchat", "google", "icloud", "immich", "geocode"} =>
       /\ {city, country} \subseteq {"tag", "file", Unknown}
       /\ "file" \in {city, country} => file.coordinates
       /\ ~file.city /\ ~file.country => city = country
  /\ CityOfOnePlace

\* The fields of a file, with the offsets as the integers they are.
LEMMA FileFields ==
  ASSUME NEW f \in MediaFiles
  PROVE  /\ {f.original, f.create, f.creation, f.gps, f.sony, f.snapchat, f.google,
             f.icloud, f.immich} \subseteq Int
         /\ {f.icloudOffset, f.immichOffset, f.creationOffset} \subseteq Offsets
         /\ {f.icloudOffset, f.immichOffset, f.creationOffset} \subseteq Int
         /\ {f.offset, f.zone} \subseteq Offsets \cup {Unknown}
         /\ f.offset # Unknown => f.offset \in Int
         /\ {f.video, f.coordinates, f.googlePlace, f.immichPlace, f.city, f.country}
              \subseteq BOOLEAN
<1>1. f \in Source /\ Offsets \subseteq Int
  BY MetadataAssumption DEF Offsets
<1> QED
  BY <1>1 DEF Source

\* The variables stay in their types.
THEOREM TypeCorrect == MetadataSpec => []MetadataTypeOK
<1>1. MetadataInit => MetadataTypeOK
  BY DEF MetadataInit, MetadataTypeOK
<1>2. MetadataTypeOK /\ [MetadataNext]_metadataVars => MetadataTypeOK'
  <2> SUFFICES ASSUME MetadataTypeOK, [MetadataNext]_metadataVars PROVE MetadataTypeOK'
    OBVIOUS
  <2> USE FileFields DEF MetadataTypeOK
  <2>1. CASE Probe
    BY <2>1 DEF Probe, Then, ProbedLocal, ProbedUTC, ProbedZone, Fallback, Wall,
       CreationZoned, Either, Origins
  <2>2. CASE ApplySnapchat
    BY <2>2 DEF ApplySnapchat, Then, PlaceKept
  <2>3. CASE ApplyGoogle
    BY <2>3 DEF ApplyGoogle, Then, Either, Origins
  <2>4. CASE ApplyICloud
    BY <2>4 DEF ApplyICloud, Then, PlaceKept, TimesKept, Either
  <2>5. CASE ApplyImmich
    BY <2>5 DEF ApplyImmich, Then, TimesKept, Origins
  <2>6. CASE ApplyCityCountry
    BY <2>6 DEF ApplyCityCountry, Then, TimesKept
  <2>7. CASE UNCHANGED metadataVars
    BY <2>7 DEF metadataVars
  <2> QED
    BY <2>1, <2>2, <2>3, <2>4, <2>5, <2>6, <2>7 DEF MetadataNext
<1> QED
  BY <1>1, <1>2, PTL DEF MetadataSpec


\* The file gives an instant or none, in whichever order, and of most files
\* the same one.
LEMMA TakenOrEmbedded ==
  ASSUME NEW f \in MediaFiles
  PROVE  /\ TakenUTC(f) = 0 <=> EmbeddedUTC(f) = 0
         /\ \/ TakenUTC(f) = EmbeddedUTC(f)
            \/ f.video /\ Wall(f) = 0 /\ f.create = 0 /\ f.gps # 0 /\ f.sony # 0
<1> QED
  BY FileFields DEF TakenUTC, EmbeddedUTC, Either

\* The sources that each function leaves are those of the reference.
LEMMA CaptureStep ==
  MetadataTypeOK /\ CaptureInv /\ [MetadataNext]_metadataVars => CaptureInv'
<1> SUFFICES ASSUME MetadataTypeOK, CaptureInv, [MetadataNext]_metadataVars PROVE CaptureInv'
  OBVIOUS
<1> USE FileFields DEF MetadataTypeOK, CaptureInv, LocalAfter, UTCAfter, CreationZoned, Either
<1>1. CASE Probe
  BY <1>1 DEF Probe, Then, ProbedLocal, ProbedUTC, Fallback, Wall, TakenUTC
<1>2. CASE ApplySnapchat
  <2>1. stage = "snapchat" /\ stage' = "google" /\ file' = file /\ utcTime' = utcTime
    BY <1>2 DEF ApplySnapchat, Then
  <2>2. localTime' = IF localTime = 0 /\ utcTime = 0 THEN file.snapchat ELSE localTime
    BY <1>2 DEF ApplySnapchat
  <2> QED
    BY <2>1, <2>2, TakenOrEmbedded DEF SnapchatWall, Wall
<1>3. CASE ApplyGoogle
  BY <1>3 DEF ApplyGoogle, Then, Wall
<1>4. CASE ApplyICloud
  BY <1>4, TakenOrEmbedded DEF ApplyICloud, Then, TimesKept, Wall, ICloudWall
<1>5. CASE ApplyImmich
  BY <1>5 DEF ApplyImmich, Then, TimesKept, Wall, BestLocal
<1>6. CASE ApplyCityCountry
  BY <1>6 DEF ApplyCityCountry, Then, TimesKept, Wall
<1>7. CASE UNCHANGED metadataVars
  BY <1>7 DEF metadataVars
<1> QED
  BY <1>1, <1>2, <1>3, <1>4, <1>5, <1>6, <1>7 DEF MetadataNext

LEMMA CityStep ==
  MetadataTypeOK /\ CityInv /\ [MetadataNext]_metadataVars => CityInv'
<1> SUFFICES ASSUME MetadataTypeOK, CityInv, [MetadataNext]_metadataVars PROVE CityInv'
  OBVIOUS
<1> USE FileFields, MetadataAssumption DEF MetadataTypeOK, CityInv, CityOfOnePlace, Origins, Then
<1>1. CASE Probe
  BY <1>1 DEF Probe
<1>2. CASE ApplySnapchat
  BY <1>2 DEF ApplySnapchat, PlaceKept
<1>3. CASE ApplyGoogle
  BY <1>3 DEF ApplyGoogle
<1>4. CASE ApplyICloud
  BY <1>4 DEF ApplyICloud, PlaceKept
<1>5. CASE ApplyImmich
  BY <1>5 DEF ApplyImmich
<1>6. CASE ApplyCityCountry
  BY <1>6 DEF ApplyCityCountry
<1>7. CASE UNCHANGED metadataVars
  BY <1>7 DEF metadataVars
<1> QED
  BY <1>1, <1>2, <1>3, <1>4, <1>5, <1>6, <1>7 DEF MetadataNext

\* Whatever instants, wall clocks and offsets a file and its sidecars hold,
\* the stored capture time is that of the reference, but for the two kinds of
\* files it leaves out by name, and city and country are of one place.
THEOREM PriorityCorrect == MetadataSpec => []MetadataByPriority
<1>1. MetadataInit => CaptureInv /\ CityInv
  BY DEF MetadataInit, CaptureInv, CityInv, CityOfOnePlace
<1>2. MetadataTypeOK /\ CaptureInv /\ CityInv => MetadataByPriority
  <2> SUFFICES ASSUME MetadataTypeOK, CaptureInv, CityInv PROVE MetadataByPriority
    OBVIOUS
  <2>1. CASE stage = "done" /\ ~CreationZoned(file)
    <3>1. /\ localTime = BestLocal(file)
          /\ utcTime = Either(file.immich, Either(file.google, Either(TakenUTC(file), file.icloud)))
      BY <2>1 DEF CaptureInv, LocalAfter, UTCAfter
    <3>2. ~GpsPassedOver(file) => utcTime = BestUTC(file)
      BY <3>1, TakenOrEmbedded DEF MetadataTypeOK, GpsPassedOver, BestUTC, Either
    <3> QED
      BY <3>1, <3>2 DEF CityInv, MetadataByPriority, CaptureByPriority
  <2>2. CASE ~(stage = "done" /\ ~CreationZoned(file))
    BY <2>2 DEF CityInv, MetadataByPriority, CaptureByPriority
  <2> QED
    BY <2>1, <2>2
<1>3. MetadataTypeOK /\ CaptureInv /\ CityInv /\ [MetadataNext]_metadataVars
        => CaptureInv' /\ CityInv'
  BY CaptureStep, CityStep
<1> QED
  BY <1>1, <1>2, <1>3, TypeCorrect, PTL DEF MetadataSpec

-----------------------------------------------------------------------------
(* Exiftool. *)

USE ExiftoolAssumption

\* The answer the worker waits for.
Expected == AnswerTo(counter, question, photo)

\* While the worker scans, what it has read, what is in the pipe and what the
\* child still has to write are, in this order, the beginning of that answer,
\* and all of it if the child lives and has read the request.
Scanning ==
  /\ mu = "worker" /\ photo \in Photos
  /\ Len(response) + Len(stdout) + Len(writing) <= Len(Expected)
  /\ \A n \in 1..Len(response) : response[n] = Expected[n]
  /\ \A n \in 1..Len(stdout) : stdout[n] = Expected[Len(response) + n]
  /\ \A n \in 1..Len(writing) : writing[n] = Expected[Len(response) + Len(stdout) + n]
  /\ alive =>
       \/ /\ stdin = <<Arguments(counter, question, photo)>>
          /\ response = <<>> /\ stdout = <<>> /\ writing = <<>>
       \/ /\ stdin = <<>>
          /\ Len(response) + Len(stdout) + Len(writing) = Len(Expected)
  /\ ~alive => stdin = <<>> /\ writing = <<>>

\* At any other time nothing is under way but a request to quit.
Quiet ==
  /\ stdout = <<>> /\ writing = <<>>
  /\ stdin = <<>> \/ (stdin = <<StayOpenFalse>> /\ closing = "wait" /\ mu = "closer")

\* Who holds the mutex, and for which file.
Holding ==
  /\ calling \in {"send", "scan"} => mu = "worker"
  /\ closing \in {"send", "wait"} => mu = "closer"
  /\ closing = "done" => ~alive
  /\ calling # "idle" => photo \in Photos
  /\ calling = "send" => response = <<>>

Flow == scanner = "ok" => IF calling = "scan" THEN Scanning ELSE Quiet

LEMMA AnswerLines ==
  ASSUME nature \in [Photos -> Natures], NEW n \in Nat, NEW q \in Questions, NEW f \in Photos
  PROVE  /\ AnswerTo(n, q, f) \in Seq(Lines)
         /\ \A k \in 1..Len(AnswerTo(n, q, f)) :
              AnswerTo(n, q, f)[k] = Ready(n) <=> k = Len(AnswerTo(n, q, f))
         /\ Len(AnswerTo(n, q, f)) \in {1, 3}
         /\ Len(AnswerTo(n, q, f)) = 1 => q = "probe" /\ nature[f] = "unreadable"
         /\ Len(AnswerTo(n, q, f)) = 3 =>
              /\ AnswerTo(n, q, f)[1] = Line("first", q, f)
              /\ AnswerTo(n, q, f)[2] = Line("last", q, f)
<1>1. /\ Ready(n) \in Lines /\ Line("first", q, f) \in Lines /\ Line("last", q, f) \in Lines
      /\ Ready(n) # Line("first", q, f) /\ Ready(n) # Line("last", q, f)
  <2>1. Ready(n) \in Lines /\ Line("first", q, f) \in Lines /\ Line("last", q, f) \in Lines
    BY DEF Ready, Line, Lines
  <2>2. Ready(n).part = "ready" /\ Line("first", q, f).part = "first"
                                /\ Line("last", q, f).part = "last"
    BY DEF Ready, Line
  <2> QED
    BY <2>1, <2>2
<1>2. CASE q = "probe" /\ nature[f] = "unreadable"
  BY <1>1, <1>2 DEF AnswerTo
<1>3. CASE ~(q = "probe" /\ nature[f] = "unreadable")
  BY <1>1, <1>3 DEF AnswerTo
<1> QED
  BY <1>2, <1>3

LEMMA LineKinds ==
  \A l \in Lines : l.part # "ready" => l.photo \in Photos /\ l.question \in Questions
  BY DEF Lines

LEMMA RequestKinds ==
  \A r \in Requests : r.kind = "ask" =>
    r.number \in Nat /\ r.question \in Questions /\ r.photo \in Photos
  BY DEF Requests

LEMMA TypesAndHolding == ToolSpec => [](ToolTypeOK /\ Holding)
<1>1. ToolInit => ToolTypeOK /\ Holding
  <2>1. <<>> \in Seq(Lines) /\ <<>> \in Seq(Requests)
    BY EmptySeq
  <2>2. "probe" \in Questions
    BY DEF Questions
  <2>3. ToolInit => /\ status \in [Photos -> {"pending", "ok", "failed"}]
                    /\ stored \in [Photos -> [Questions -> Photos \cup {NoPhoto}]]
    BY DEF ToolInit
  <2>4. ToolInit => Holding
    BY DEF ToolInit, Holding
  <2>5. ToolInit => /\ stdin \in Seq(Requests) /\ stdout \in Seq(Lines) /\ writing \in Seq(Lines)
                    /\ response \in Seq(Lines)
    BY <2>1 DEF ToolInit
  <2>6. ToolInit => /\ mu \in {"free", "worker", "closer"} /\ counter \in Nat
                    /\ calling \in {"idle", "lock", "send", "scan"}
    BY DEF ToolInit
  <2> QED
    BY <2>2, <2>3, <2>4, <2>5, <2>6 DEF ToolInit, ToolTypeOK
<1>2. ToolTypeOK /\ Holding /\ [ToolNext]_toolVars => ToolTypeOK' /\ Holding'
  <2> SUFFICES ASSUME ToolTypeOK, Holding, [ToolNext]_toolVars PROVE ToolTypeOK' /\ Holding'
    OBVIOUS
  <2> USE DEF ToolTypeOK, Holding
  <2>1. ASSUME NEW f \in Photos, ProbeNext(f) PROVE ToolTypeOK' /\ Holding'
    BY <2>1 DEF ProbeNext, childVars, Questions
  <2>2. CASE LockTool
    BY <2>2 DEF LockTool, childVars
  <2>3. CASE Send
    <3>1. calling = "send" /\ photo \in Photos
      BY <2>3 DEF Send
    <3>2. Arguments(counter, question, photo) \in Requests
      BY <3>1 DEF Arguments, Requests
    <3>3. CASE Failed
      BY <2>3, <3>1, <3>3 DEF Send, Failed
    <3>4. CASE ~Failed
      <4>1. Append(stdin, Arguments(counter, question, photo)) \in Seq(Requests)
        BY <3>2, AppendProperties
      <4> QED
        BY <2>3, <3>1, <3>4, <4>1 DEF Send
    <3> QED
      BY <3>3, <3>4
  <2>4. CASE Scan
    <3>1. calling = "scan" /\ photo \in Photos /\ scanner' \in {"ok", "failed"}
      BY <2>4 DEF Scan, ScanFails
    <3>2. stdout' \in Seq(Lines) /\ UNCHANGED <<nature, counter, closing, stdin, writing, alive, died>>
      <4>1. stdout # <<>> => Tail(stdout) \in Seq(Lines)
        BY HeadTailProperties
      <4> QED
        BY <2>4, <4>1 DEF Scan, ScanLine
    <3>3. CASE Failed
      BY <3>1, <3>2, <3>3 DEF Failed
    <3>4. CASE Parses /\ Succeeded
      <4>1. response[1] \in Lines /\ response[1].part # "ready"
        <5>1. Len(response) = 2 /\ response[1].part = "first"
          BY <3>4 DEF Parses
        <5>2. response[1] \in Lines
          BY <5>1, ElementOfSeq, 1 \in 1..Len(response)
        <5> QED
          BY <5>1, <5>2
      <4>2. response[1].photo \in Photos
        BY <4>1, LineKinds
      <4> QED
        BY <3>1, <3>2, <3>4, <4>2 DEF Succeeded, Questions
    <3>5. CASE /\ ScanLine /\ response' = Append(response, Head(stdout))
               /\ UNCHANGED <<mu, status, stored, calling, question, photo>>
      <4>1. Head(stdout) \in Lines
        BY <3>5 DEF ScanLine
      <4> QED
        BY <3>1, <3>2, <3>5, <4>1
    <3> QED
      BY <2>4, <3>3, <3>4, <3>5 DEF Scan
  <2>5. CASE ChildRead
    <3>1. Head(stdin) \in Requests /\ Head(stdin).kind = "ask" /\ Tail(stdin) \in Seq(Requests)
      BY <2>5 DEF ChildRead
    <3>2. AnswerTo(Head(stdin).number, Head(stdin).question, Head(stdin).photo) \in Seq(Lines)
      BY <3>1, RequestKinds, AnswerLines
    <3> QED
      BY <2>5, <3>1, <3>2 DEF ChildRead, callVars
  <2>6. CASE ChildWrite
    <3>1. Head(writing) \in Lines /\ Tail(writing) \in Seq(Lines)
      BY <2>6 DEF ChildWrite
    <3> QED
      BY <2>6, <3>1 DEF ChildWrite, callVars
  <2>0. <<>> \in Seq(Lines) /\ <<>> \in Seq(Requests)
    BY EmptySeq
  <2>7. CASE ChildQuit
    BY <2>0, <2>7 DEF ChildQuit, callVars
  <2>8. CASE ChildDie
    BY <2>0, <2>8 DEF ChildDie, callVars
  <2>9. CASE CloseLock
    BY <2>9 DEF CloseLock, callVars, childVars
  <2>10. CASE CloseSend
    <3>1. StayOpenFalse \in Requests
      BY DEF StayOpenFalse, Requests
    <3>2. Append(stdin, StayOpenFalse) \in Seq(Requests)
      BY <3>1, AppendProperties
    <3> QED
      BY <2>10, <3>2 DEF CloseSend, callVars
  <2>11. CASE CloseWait
    BY <2>0, <2>11 DEF CloseWait, callVars
  <2>12. CASE UNCHANGED toolVars
    BY <2>12 DEF toolVars, callVars, childVars
  <2> QED
    BY <2>1, <2>2, <2>3, <2>4, <2>5, <2>6, <2>7, <2>8, <2>9, <2>10, <2>11, <2>12
       DEF ToolNext, Run, Child, Close
<1> QED
  BY <1>1, <1>2, PTL DEF ToolSpec

\* What the scanner reads next is the next line of the answer; after the
\* last one nothing is left, and the response parses unless the file cannot
\* be read.
LEMMA NextLine ==
  ASSUME ToolTypeOK, Scanning, stdout # <<>>
  PROVE  /\ Len(stdout) >= 1 /\ Head(stdout) = Expected[Len(response) + 1]
         /\ Len(response) + 1 <= Len(Expected)
         /\ alive => stdin = <<>>
         /\ Head(stdout) = Ready(counter) =>
              /\ Len(response) + 1 = Len(Expected) /\ Tail(stdout) = <<>> /\ writing = <<>>
              /\ Parses => response[1].photo = photo
              /\ ~Parses => question = "probe" /\ nature[photo] = "unreadable"
<1>1. Len(stdout) \in Nat \ {0} /\ Len(response) \in Nat /\ Len(writing) \in Nat
  BY EmptySeq, LenProperties DEF ToolTypeOK
<1>2. Head(stdout) = stdout[1]
  BY <1>1
<1>3. Len(response) + Len(stdout) + Len(writing) <= Len(Expected)
  BY DEF Scanning
<1>4. Len(Expected) \in Nat
  BY AnswerLines DEF Expected, ToolTypeOK, Scanning
<1>5. /\ Len(Expected) \in {1, 3}
      /\ \A k \in 1..Len(Expected) : Expected[k] = Ready(counter) <=> k = Len(Expected)
      /\ Len(Expected) = 1 => question = "probe" /\ nature[photo] = "unreadable"
      /\ Len(Expected) = 3 => /\ Expected[1] = Line("first", question, photo)
                              /\ Expected[2] = Line("last", question, photo)
  BY AnswerLines DEF Expected, ToolTypeOK, Scanning
<1>6. /\ Len(response) + Len(stdout) + Len(writing) <= Len(Expected)
      /\ \A n \in 1..Len(response) : response[n] = Expected[n]
      /\ \A n \in 1..Len(stdout) : stdout[n] = Expected[Len(response) + n]
      /\ alive => stdin = <<>>
  BY DEF Scanning
<1>7. Head(stdout) = Expected[Len(response) + 1] /\ Len(response) + 1 <= Len(Expected)
  <2>1. 1 \in 1..Len(stdout)
    BY <1>2
  <2> QED
    BY <1>1, <1>2, <1>5, <1>6, <2>1
<1>8. ASSUME Head(stdout) = Ready(counter)
      PROVE  /\ Len(response) + 1 = Len(Expected) /\ Tail(stdout) = <<>> /\ writing = <<>>
             /\ Parses => response[1].photo = photo
             /\ ~Parses => question = "probe" /\ nature[photo] = "unreadable"
  <2>1. Len(response) + 1 = Len(Expected)
    BY <1>1, <1>2, <1>5, <1>7, <1>8
  <2>2. Len(stdout) = 1 /\ Len(writing) = 0
    BY <1>1, <1>3, <1>4, <2>1
  <2>3. Tail(stdout) = <<>> /\ writing = <<>>
    <3>1. Tail(stdout) \in Seq(Lines) /\ Len(Tail(stdout)) = 0
      BY <2>2, HeadTailProperties DEF ToolTypeOK
    <3> QED
      BY <3>1, <2>2, EmptySeq DEF ToolTypeOK
  <2>4. CASE Len(Expected) = 1
    <3>1. question = "probe" /\ nature[photo] = "unreadable"
      BY <2>4, <1>5
    <3>2. ~Parses
      BY <2>1, <2>4, <1>1 DEF Parses
    <3> QED
      BY <2>1, <2>3, <3>1, <3>2
  <2>5. CASE Len(Expected) = 3
    <3>1. Expected[1] = Line("first", question, photo) /\ Expected[2] = Line("last", question, photo)
      BY <2>5, <1>5
    <3>2. Len(response) = 2 /\ response[1] = Expected[1] /\ response[2] = Expected[2]
      <4>1. \A r \in Nat : r + 1 = 3 => r = 2
        OBVIOUS
      <4>2. Len(response) = 2
        BY <1>1, <2>1, <2>5, <4>1
      <4>3. 1 \in 1..Len(response) /\ 2 \in 1..Len(response)
        BY <4>2
      <4> QED
        BY <4>2, <4>3, <1>6
    <3>3. Parses /\ response[1].photo = photo
      BY <3>1, <3>2 DEF Parses, Line
    <3> QED
      BY <2>1, <2>3, <3>3
  <2> QED
    BY <2>4, <2>5, <1>5
<1> QED
  BY <1>1, <1>2, <1>6, <1>7, <1>8

\* One line moves from the pipe to the response.
LEMMA LineRead ==
  ASSUME ToolTypeOK, Scanning, stdout # <<>>, Head(stdout) # Ready(counter),
         stdout' = Tail(stdout), response' = Append(response, Head(stdout)),
         UNCHANGED <<nature, mu, counter, question, photo, stdin, writing, alive>>
  PROVE  Scanning'
<1>1. Expected' = Expected
  BY DEF Expected, AnswerTo
<1>2. /\ Head(stdout) \in Lines /\ Head(stdout) = Expected[Len(response) + 1]
      /\ Len(stdout) \in Nat \ {0} /\ Len(response) \in Nat /\ Len(writing) \in Nat
      /\ alive => stdin = <<>>
  BY NextLine, HeadTailProperties, LenProperties, EmptySeq DEF ToolTypeOK
<1>3. /\ Len(stdout') = Len(stdout) - 1
      /\ \A n \in 1..Len(stdout') : stdout'[n] = stdout[n + 1]
  BY HeadTailProperties DEF ToolTypeOK
<1>4. /\ Len(response') = Len(response) + 1
      /\ \A n \in 1..Len(response) : response'[n] = response[n]
      /\ response'[Len(response) + 1] = Head(stdout)
  BY <1>2, AppendProperties DEF ToolTypeOK
<1>5. /\ Len(response') + Len(stdout') + Len(writing') = Len(response) + Len(stdout) + Len(writing)
      /\ Len(response') + Len(stdout') = Len(response) + Len(stdout)
  BY <1>2, <1>3, <1>4
<1>6. \A n \in 1..Len(response') : response'[n] = Expected'[n]
  BY <1>1, <1>2, <1>4 DEF Scanning
<1>7. \A n \in 1..Len(stdout') : stdout'[n] = Expected'[Len(response') + n]
  <2> SUFFICES ASSUME NEW n \in 1..Len(stdout') PROVE stdout'[n] = Expected'[Len(response') + n]
    OBVIOUS
  <2>1. n + 1 \in 1..Len(stdout) /\ stdout'[n] = stdout[n + 1]
    BY <1>2, <1>3
  <2>2. Len(response') + n = Len(response) + (n + 1)
    BY <1>2, <1>4
  <2> QED
    BY <1>1, <2>1, <2>2 DEF Scanning
<1>8. \A n \in 1..Len(writing') : writing'[n] = Expected'[Len(response') + Len(stdout') + n]
  BY <1>1, <1>5 DEF Scanning
<1> QED
  BY <1>1, <1>2, <1>5, <1>6, <1>7, <1>8 DEF Scanning

\* One line moves from the child to the pipe.
LEMMA LineWritten ==
  ASSUME ToolTypeOK, Scanning, writing # <<>>, alive,
         stdout' = Append(stdout, Head(writing)), writing' = Tail(writing),
         UNCHANGED <<nature, mu, counter, question, photo, stdin, response, alive>>
  PROVE  Scanning'
<1>1. Expected' = Expected
  BY DEF Expected, AnswerTo
<1>2. /\ Head(writing) \in Lines /\ Head(writing) = writing[1]
      /\ Len(writing) \in Nat \ {0} /\ Len(response) \in Nat /\ Len(stdout) \in Nat
      /\ stdin = <<>>
  BY HeadTailProperties, LenProperties, EmptySeq DEF ToolTypeOK, Scanning
<1>3. /\ Len(writing') = Len(writing) - 1
      /\ \A n \in 1..Len(writing') : writing'[n] = writing[n + 1]
  BY HeadTailProperties DEF ToolTypeOK
<1>4. /\ Len(stdout') = Len(stdout) + 1
      /\ \A n \in 1..Len(stdout) : stdout'[n] = stdout[n]
      /\ stdout'[Len(stdout) + 1] = Head(writing)
  BY <1>2, AppendProperties DEF ToolTypeOK
<1>5. Len(response') + Len(stdout') + Len(writing') = Len(response) + Len(stdout) + Len(writing)
  BY <1>2, <1>3, <1>4
<1>6. Head(writing) = Expected[Len(response) + (Len(stdout) + 1)]
  <2>1. 1 \in 1..Len(writing) /\ Len(response) + Len(stdout) + 1 = Len(response) + (Len(stdout) + 1)
    BY <1>2
  <2> QED
    BY <1>2, <2>1 DEF Scanning
<1>7. \A n \in 1..Len(stdout') : stdout'[n] = Expected'[Len(response') + n]
  <2>1. \A n \in 1..Len(stdout) : stdout[n] = Expected[Len(response) + n]
    BY DEF Scanning
  <2>2. \A n \in 1..Len(stdout') : n \in 1..Len(stdout) \/ n = Len(stdout) + 1
    BY <1>2, <1>4
  <2> QED
    BY <1>1, <1>4, <1>6, <2>1, <2>2
<1>8. \A n \in 1..Len(writing') : writing'[n] = Expected'[Len(response') + Len(stdout') + n]
  <2> SUFFICES ASSUME NEW n \in 1..Len(writing')
               PROVE  writing'[n] = Expected'[Len(response') + Len(stdout') + n]
    OBVIOUS
  <2>1. n + 1 \in 1..Len(writing) /\ writing'[n] = writing[n + 1]
    BY <1>2, <1>3
  <2>2. Len(response') + Len(stdout') + n = Len(response) + Len(stdout) + (n + 1)
    BY <1>2, <1>4
  <2> QED
    BY <1>1, <2>1, <2>2 DEF Scanning
<1> QED
  BY <1>1, <1>2, <1>5, <1>7, <1>8 DEF Scanning

\* Whatever long lines, deaths and shutdowns come between, no file is given
\* the answer to another one's question, and a file that exiftool can read
\* fails only after a line that was too long or when the child is gone.
THEOREM AnswersCorrect == ToolSpec => []AnswersMatch
<1>1. ToolInit => Flow /\ AnswersMatch
  BY DEF ToolInit, Flow, Quiet, AnswersMatch
<1>2. /\ ToolTypeOK /\ Holding /\ Flow /\ AnswersMatch
      /\ [ToolNext]_toolVars
      => Flow' /\ AnswersMatch'
  <2> SUFFICES ASSUME ToolTypeOK, Holding, Flow, AnswersMatch, [ToolNext]_toolVars
               PROVE  Flow' /\ AnswersMatch'
    OBVIOUS
  <2>1. ASSUME UNCHANGED <<nature, scanner, status, stored>>, alive' => alive
        PROVE  AnswersMatch'
    BY <2>1 DEF AnswersMatch
  <2>2. ASSUME NEW f \in Photos, ProbeNext(f) PROVE Flow' /\ AnswersMatch'
    BY <2>1, <2>2 DEF ProbeNext, Flow, Quiet, childVars
  <2>3. CASE LockTool
    BY <2>1, <2>3 DEF LockTool, Flow, Quiet, childVars
  <2>4. CASE Send
    <3>1. CASE ~alive /\ Failed
      <4>1. Flow'
        BY <2>4, <3>1 DEF Send, Failed, Flow, Quiet, Holding
      <4>2. AnswersMatch'
        BY <2>4, <3>1 DEF Send, Failed, AnswersMatch
      <4> QED
        BY <4>1, <4>2
    <3>2. CASE alive /\ calling' = "scan"
      <4>1. scanner = "ok" => Scanning'
        <5> SUFFICES ASSUME scanner = "ok" PROVE Scanning'
          OBVIOUS
        <5>1. /\ stdin = <<>> /\ stdout = <<>> /\ writing = <<>> /\ response = <<>>
              /\ mu = "worker" /\ photo \in Photos
          BY <2>4 DEF Send, Flow, Quiet, Holding
        <5>2. /\ stdin' = <<Arguments(counter, question, photo)>>
              /\ stdout' = <<>> /\ writing' = <<>> /\ response' = <<>>
              /\ UNCHANGED <<nature, mu, counter, question, photo, alive>>
          BY <2>4, <3>2, <5>1 DEF Send, Failed
        <5>3. Len(Expected') \in Nat
          BY <5>1, <5>2, AnswerLines DEF Expected, AnswerTo, ToolTypeOK
        <5> QED
          BY <3>2, <5>1, <5>2, <5>3 DEF Scanning
      <4> QED
        BY <2>1, <2>4, <3>2, <4>1 DEF Send, Failed, Flow
    <3> QED
      BY <2>4, <3>1, <3>2 DEF Send
  <2>5. CASE Scan
    <3>1. CASE ScanFails /\ Failed /\ UNCHANGED stdout
      <4>1. scanner' = "failed" \/ (scanner' = scanner /\ stdout = <<>> /\ ~alive)
        BY <3>1 DEF ScanFails
      <4>2. Flow'
        BY <2>5, <3>1, <4>1 DEF Scan, Failed, Flow, Scanning, Quiet
      <4>3. AnswersMatch'
        BY <2>5, <3>1, <4>1 DEF Scan, Failed, AnswersMatch
      <4> QED
        BY <4>2, <4>3
    <3>2. CASE ScanLine /\ stdout' = Tail(stdout) /\ UNCHANGED scanner
      <4>1. Scanning /\ stdout # <<>> /\ scanner = "ok" /\ calling = "scan"
        BY <2>5, <3>2 DEF Scan, ScanLine, Flow
      <4>2. CASE Head(stdout) = Ready(counter)
        <5>1. /\ stdout' = <<>> /\ writing' = <<>> /\ stdin' = <<>>
              /\ Parses => response[1].photo = photo
              /\ ~Parses => question = "probe" /\ nature[photo] = "unreadable"
          BY <2>5, <3>2, <4>1, <4>2, NextLine DEF Scan, Scanning
        <5>2. CASE Parses /\ Succeeded
          <6>1. Flow'
            BY <5>1, <5>2 DEF Succeeded, Flow, Quiet
          <6>2. AnswersMatch'
            BY <2>5, <3>2, <5>1, <5>2 DEF Scan, Succeeded, AnswersMatch, ToolTypeOK
          <6> QED
            BY <6>1, <6>2
        <5>3. CASE ~Parses /\ Failed
          <6>1. Flow'
            BY <5>1, <5>3 DEF Failed, Flow, Quiet
          <6>2. AnswersMatch'
            BY <2>5, <3>2, <5>1, <5>3 DEF Scan, Failed, AnswersMatch
          <6> QED
            BY <6>1, <6>2
        <5>4. IF Parses THEN Succeeded ELSE Failed
          BY <2>5, <3>2, <4>1, <4>2 DEF Scan, ScanFails, ScanLine
        <5> QED
          BY <5>2, <5>3, <5>4
      <4>3. CASE Head(stdout) # Ready(counter)
        <5>1. /\ response' = Append(response, Head(stdout))
              /\ UNCHANGED <<nature, mu, counter, status, stored, calling, question, photo,
                             stdin, writing, alive, closing>>
          BY <2>5, <3>2, <4>1, <4>3 DEF Scan, ScanFails, ScanLine
        <5>2. Scanning'
          BY <3>2, <4>1, <4>3, <5>1, LineRead
        <5> QED
          BY <2>1, <3>2, <4>1, <5>1, <5>2 DEF Flow
      <4> QED
        BY <4>2, <4>3
    <3> QED
      BY <2>5, <3>1, <3>2 DEF Scan
  <2>6. CASE ChildRead
    <3>1. CASE scanner = "ok" /\ calling = "scan"
      <4>1. stdin = <<Arguments(counter, question, photo)>>
            /\ response = <<>> /\ stdout = <<>> /\ writing = <<>>
        BY <2>6, <3>1 DEF ChildRead, Flow, Scanning
      <4>2. writing' = Expected /\ stdin' = <<>>
        BY <2>6, <4>1 DEF ChildRead, Arguments, Expected
      <4>3. Expected' = Expected /\ Expected \in Seq(Lines)
        BY <2>6, <3>1, AnswerLines
           DEF ChildRead, callVars, Expected, AnswerTo, ToolTypeOK, Flow, Scanning
      <4>4. /\ mu' = "worker" /\ photo' \in Photos /\ response' = <<>> /\ stdout' = <<>> /\ alive'
        BY <2>6, <3>1, <4>1 DEF ChildRead, callVars, Flow, Scanning
      <4>5. Len(Expected) \in Nat /\ Len(response') = 0 /\ Len(stdout') = 0
        BY <4>3, <4>4, LenProperties
      <4>6. Scanning'
        BY <4>2, <4>3, <4>4, <4>5 DEF Scanning
      <4> QED
        BY <2>1, <2>6, <3>1, <4>6 DEF ChildRead, callVars, Flow
    <3>2. CASE scanner = "ok" /\ calling # "scan"
      BY <2>6, <3>2 DEF ChildRead, Flow, Quiet, StayOpenFalse
    <3>3. CASE scanner # "ok"
      BY <2>1, <2>6, <3>3 DEF ChildRead, Flow
    <3> QED
      BY <3>1, <3>2, <3>3
  <2>7. CASE ChildWrite
    <3>1. CASE scanner = "ok" /\ calling = "scan"
      <4>1. Scanning'
        BY <2>7, <3>1, LineWritten DEF ChildWrite, callVars, Flow
      <4> QED
        BY <2>1, <2>7, <3>1, <4>1 DEF ChildWrite, callVars, Flow
    <3>2. CASE scanner = "ok" /\ calling # "scan"
      BY <2>7, <3>2 DEF ChildWrite, Flow, Quiet
    <3>3. CASE scanner # "ok"
      BY <2>1, <2>7, <3>3 DEF ChildWrite, Flow
    <3> QED
      BY <3>1, <3>2, <3>3
  <2>8. CASE ChildQuit
    <3>1. scanner = "ok" => calling # "scan"
      BY <2>8 DEF ChildQuit, Flow, Scanning, Arguments
    <3> QED
      BY <2>1, <2>8, <3>1 DEF ChildQuit, callVars, Flow, Quiet
  <2>9. CASE ChildDie
    <3>1. ASSUME Scanning PROVE Scanning'
      <4>1. Expected' = Expected /\ Len(writing) \in Nat /\ Len(response) \in Nat /\ Len(stdout) \in Nat
        BY <2>9, LenProperties DEF ChildDie, callVars, Expected, AnswerTo, ToolTypeOK
      <4>2. /\ Len(response) + Len(stdout) + Len(writing) <= Len(Expected)
            /\ Len(Expected) \in Nat
        BY <3>1, AnswerLines DEF Scanning, Expected, ToolTypeOK
      <4>3. Len(writing') = 0
        BY <2>9 DEF ChildDie
      <4> QED
        BY <2>9, <3>1, <4>1, <4>2, <4>3 DEF ChildDie, callVars, Scanning
    <3> QED
      BY <2>1, <2>9, <3>1 DEF ChildDie, callVars, Flow, Quiet
  <2>10. CASE CloseLock
    BY <2>1, <2>10 DEF CloseLock, callVars, childVars, Flow, Quiet, Holding, Scanning
  <2>11. CASE CloseSend
    <3>1. calling # "scan" /\ mu = "closer"
      BY <2>11 DEF CloseSend, Holding
    <3>2. scanner = "ok" => stdin = <<>> /\ stdout = <<>> /\ writing = <<>>
      BY <2>11, <3>1 DEF CloseSend, Flow, Quiet
    <3>3. scanner = "ok" => stdin' \in {<<>>, <<StayOpenFalse>>}
      BY <2>11, <3>2 DEF CloseSend
    <3>4. Flow'
      BY <2>11, <3>1, <3>2, <3>3 DEF CloseSend, callVars, Flow, Quiet
    <3>5. AnswersMatch'
      BY <2>1, <2>11 DEF CloseSend, callVars
    <3> QED
      BY <3>4, <3>5
  <2>12. CASE CloseWait
    BY <2>1, <2>12 DEF CloseWait, callVars, Flow, Quiet, Holding
  <2>13. CASE UNCHANGED toolVars
    <3>1. Expected' = Expected
      BY <2>13 DEF toolVars, callVars, childVars, Expected, AnswerTo
    <3> QED
      BY <2>1, <2>13, <3>1 DEF toolVars, callVars, childVars, Flow, Quiet, Scanning
  <2> QED
    BY <2>2, <2>3, <2>4, <2>5, <2>6, <2>7, <2>8, <2>9, <2>10, <2>11, <2>12, <2>13
       DEF ToolNext, Run, Child, Close
<1> QED
  BY <1>1, <1>2, TypesAndHolding, PTL DEF ToolSpec

----------------------------------------------------------------------------
(* The cache directories                                                   *)

USE CacheAssumption

\* What a process renames is whole: populate goes on only after a file that
\* is whole, and a download reaches the directory only with its sum.  Hence
\* the directory is whole once it exists, and stays.
WholeInv ==
  /\ target \in {Absent, Whole}
  /\ doing \in [Setups -> CachePlaces]
  /\ DOMAIN staging = Setups /\ DOMAIN temp = Setups
  /\ \A p \in Setups :
       /\ doing[p] \in {"populate", "body", "sum"} =>
            staging[p] \in [Parts -> {"missing", "whole"}]
       /\ doing[p] = "rename" => staging[p] = Whole
       /\ doing[p] \in {"body", "sum"} => temp[p] \in Downloaded \X Bytes
       /\ doing[p] \in {"losing", "got"} => target = Whole

LEMMA AbsentIsNoDirectory == Absent # Whole
  BY DEF Whole

LEMMA WholeInvariant == CacheSpec => []WholeInv
<1>1. CacheInit => WholeInv
  BY DEF CacheInit, WholeInv, CachePlaces
<1>2. WholeInv /\ [CacheNext]_cacheVars => WholeInv'
  <2> SUFFICES ASSUME WholeInv, [CacheNext]_cacheVars PROVE WholeInv'
    OBVIOUS
  <2> USE DEF WholeInv, Move, CachePlaces
  <2>1. ASSUME NEW p \in Setups, Call(p) PROVE WholeInv'
    BY <2>1 DEF Call
  <2>2. ASSUME NEW p \in Setups, StatTarget(p) PROVE WholeInv'
    BY <2>2 DEF StatTarget
  <2>3. ASSUME NEW p \in Setups, Stage(p) PROVE WholeInv'
    BY <2>3 DEF Stage, Empty
  <2>4. ASSUME NEW p \in Setups, NEW f \in Parts, WritePart(p, f) PROVE WholeInv'
    BY <2>4 DEF WritePart
  <2>5. ASSUME NEW p \in Setups, Chmod(p) PROVE WholeInv'
    BY <2>5 DEF Chmod, Whole
  <2>6. ASSUME NEW p \in Setups, Rename(p) PROVE WholeInv'
    BY <2>6 DEF Rename
  <2>7. ASSUME NEW p \in Setups, StatAgain(p) PROVE WholeInv'
    BY <2>7 DEF StatAgain
  <2>8. ASSUME NEW p \in Setups, CleanUp(p) PROVE WholeInv'
    BY <2>8 DEF CleanUp
  <2>9. ASSUME NEW p \in Setups, NEW f \in Parts, Request(p, f) PROVE WholeInv'
    BY <2>9 DEF Request, Bytes
  <2>10. ASSUME NEW p \in Setups, Receive(p) PROVE WholeInv'
    BY <2>10 DEF Receive, Bytes
  <2>11. ASSUME NEW p \in Setups, MoveFile(p) PROVE WholeInv'
    BY <2>11 DEF MoveFile, Bytes
  <2>12. ASSUME NEW p \in Setups, Die(p) PROVE WholeInv'
    BY <2>12 DEF Die
  <2>13. ASSUME NEW p \in Setups, Exit(p) PROVE WholeInv'
    BY <2>13 DEF Exit
  <2>14. CASE UNCHANGED cacheVars
    BY <2>14 DEF cacheVars
  <2> QED
    BY <2>1, <2>2, <2>3, <2>4, <2>5, <2>6, <2>7, <2>8, <2>9, <2>10, <2>11, <2>12, <2>13, <2>14
       DEF CacheNext, Ensure
<1> QED
  BY <1>1, <1>2, PTL DEF CacheSpec

\* A staging directory is there whenever something is written into it, and a
\* file of its download whenever that is received or moved.
LEMMA CacheTypes == CacheSpec => []CacheTypeOK
<1>1. CacheInit => CacheTypeOK
  BY DEF CacheInit, CacheTypeOK, CachePlaces
<1>2. WholeInv /\ CacheTypeOK /\ [CacheNext]_cacheVars => CacheTypeOK'
  <2> SUFFICES ASSUME WholeInv, CacheTypeOK, [CacheNext]_cacheVars PROVE CacheTypeOK'
    OBVIOUS
  <2>0. doing' \in [Setups -> CachePlaces]
    BY DEF CacheTypeOK, CacheNext, Ensure, Call, StatTarget, Stage, WritePart, Chmod, Rename,
       StatAgain, CleanUp, Request, Receive, MoveFile, Die, Exit, Move, CachePlaces, cacheVars
  <2> USE DEF CacheTypeOK, Move, Dirs, Bytes
  <2>1. ASSUME NEW p \in Setups,
               Call(p) \/ StatTarget(p) \/ Chmod(p) \/ StatAgain(p) \/ Exit(p)
        PROVE  CacheTypeOK'
    BY <2>0, <2>1 DEF Call, StatTarget, Chmod, StatAgain, Exit
  <2>2. ASSUME NEW p \in Setups, Stage(p) PROVE CacheTypeOK'
    BY <2>0, <2>2 DEF Stage, Empty
  <2>3. ASSUME NEW p \in Setups, NEW f \in Parts, WritePart(p, f) PROVE CacheTypeOK'
    BY <2>0, <2>3 DEF WritePart, WholeInv
  <2>4. ASSUME NEW p \in Setups, Rename(p) PROVE CacheTypeOK'
    BY <2>0, <2>4 DEF Rename
  <2>5. ASSUME NEW p \in Setups, CleanUp(p) \/ Die(p) PROVE CacheTypeOK'
    BY <2>0, <2>5 DEF CleanUp, Die
  <2>6. ASSUME NEW p \in Setups, NEW f \in Parts, Request(p, f) PROVE CacheTypeOK'
    BY <2>0, <2>6 DEF Request
  <2>7. ASSUME NEW p \in Setups, Receive(p) PROVE CacheTypeOK'
    BY <2>0, <2>7 DEF Receive, WholeInv
  <2>8. ASSUME NEW p \in Setups, MoveFile(p) PROVE CacheTypeOK'
    BY <2>0, <2>8 DEF MoveFile, WholeInv
  <2>9. CASE UNCHANGED cacheVars
    BY <2>9 DEF cacheVars
  <2> QED
    BY <2>1, <2>2, <2>3, <2>4, <2>5, <2>6, <2>7, <2>8, <2>9 DEF CacheNext, Ensure
<1> QED
  BY <1>1, <1>2, WholeInvariant, PTL DEF CacheSpec

\* Ensure implements AtomicDir: a process finds the directory absent or
\* whole, however many of them race, fail or die, and whatever the server
\* sends.
THEOREM EnsureIsAtomic == CacheSpec => ImplementsAtomicDir
<1>1. CacheInit => Cache!DirInit
  BY DEF CacheInit, Cache!DirInit
<1>2. WholeInv /\ [CacheNext]_cacheVars => [Cache!DirNext]_Cache!dirVars
  <2> SUFFICES ASSUME WholeInv, [CacheNext]_cacheVars
               PROVE  Cache!DirNext \/ UNCHANGED Cache!dirVars
    OBVIOUS
  <2> USE DEF WholeInv, Move, Cache!dirVars
  <2>1. ASSUME NEW p \in Setups, doing'[p] # "got", doing[p] # "got", target' = target,
               \A q \in Setups : q # p => doing'[q] = doing[q]
        PROVE  UNCHANGED Cache!dirVars
    BY <2>1
  <2>2. ASSUME NEW p \in Setups, doing'[p] = "got", target' = target, target = Whole,
               \A q \in Setups : q # p => doing'[q] = doing[q]
        PROVE  Cache!Reuse(p)
    BY <2>2, AbsentIsNoDirectory DEF Cache!Reuse
  <2>3. ASSUME NEW p \in Setups, Rename(p)
        PROVE  Cache!Appear(p) \/ UNCHANGED Cache!dirVars
    BY <2>1, <2>3, AbsentIsNoDirectory DEF Rename, Cache!Appear
  <2>4. ASSUME NEW p \in Setups, StatTarget(p) \/ CleanUp(p)
        PROVE  Cache!Reuse(p) \/ UNCHANGED Cache!dirVars
    BY <2>1, <2>2, <2>4 DEF StatTarget, CleanUp
  <2>5. ASSUME NEW p \in Setups, Exit(p) PROVE Cache!Quit(p)
    BY <2>5 DEF Exit, Cache!Quit
  <2>6. ASSUME NEW p \in Setups,
               \/ Call(p) \/ Stage(p) \/ Chmod(p) \/ StatAgain(p)
               \/ Receive(p) \/ MoveFile(p) \/ Die(p)
        PROVE  UNCHANGED Cache!dirVars
    BY <2>1, <2>6 DEF Call, Stage, Chmod, StatAgain, Receive, MoveFile, Die
  <2>7. ASSUME NEW p \in Setups, NEW f \in Parts, WritePart(p, f) \/ Request(p, f)
        PROVE  UNCHANGED Cache!dirVars
    BY <2>1, <2>7 DEF WritePart, Request
  <2>8. CASE UNCHANGED cacheVars
    BY <2>8 DEF cacheVars
  <2> QED
    BY <2>3, <2>4, <2>5, <2>6, <2>7, <2>8 DEF CacheNext, Ensure, Cache!DirNext
<1> QED
  BY <1>1, <1>2, WholeInvariant, PTL DEF CacheSpec, ImplementsAtomicDir, Cache!DirSpec

\* A process that comes to rename when the directory exists ends with the
\* directory, and with an error only if it cannot even stat it.
THEOREM LosersGetTheDirectory == CacheSpec => LosersReuse
<1>1. ASSUME WholeInv, [CacheNext]_cacheVars, NEW p \in Setups,
             target # Absent, doing[p] \in {"rename", "restat", "losing"}
      PROVE  doing'[p] \notin {"failing", "error"}
  BY <1>1 DEF WholeInv, CacheNext, Ensure, cacheVars, Move, Call, StatTarget, Stage, WritePart,
              Chmod, Rename, StatAgain, CleanUp, Request, Receive, MoveFile, Die, Exit
<1>2. WholeInv /\ [CacheNext]_cacheVars =>
        [\A p \in Setups : target # Absent /\ doing[p] \in {"rename", "restat", "losing"}
                              => doing'[p] \notin {"failing", "error"}]_cacheVars
  BY <1>1
<1> QED
  BY <1>2, WholeInvariant, PTL DEF CacheSpec, LosersReuse

----------------------------------------------------------------------------
(* The database's upgrades                                                 *)

HIDE CacheAssumption
USE MigrationsAssumption

----------------------------------------------------------------------------
(* The databases that there may be                                        *)

\* What any release leaves is a database.
LEMMA ReleaseIsDatabase ==
  ASSUME NEW v \in Versions, NEW ks \in [OldAssets -> Knowledge]
  PROVE  Release(v, ks) \in Databases
<1>1. SchemaOf(v) \in SUBSET Objects
  BY DEF SchemaOf, Objects
<1>2. \A a \in OldAssets : ThumbnailOf(v, ks[a]) \in 0..2 /\ ClipOf(v, ks[a]) \in 0..2
  BY DEF ThumbnailOf, ClipOf
<1> QED
  BY <1>1, <1>2 DEF Release, Databases, VectorIf, Vectors

\* So is what a migration makes of a database, even of one it was not meant for.
LEMMA MigratedIsDatabase ==
  ASSUME NEW v \in 1..Latest, NEW d \in Databases, NEW e \in Migrated(v, d)
  PROVE  e \in Databases
<1>1. v \in 1..8
  BY DEF Latest
<1>2. d.schema \in SUBSET Objects /\ d.plain \in [OldAssets -> Vectors]
      /\ d.vec \in [OldAssets -> Vectors]
  BY DEF Databases
<1>3. CASE v \in {1, 6, 7}
  <2>1. \E S \in SUBSET Objects : e = [d EXCEPT !.schema = d.schema \cup S]
    <3>1. v = 1 => e = [d EXCEPT !.schema = d.schema \cup {"assets"}]
      BY DEF Migrated, Migration001
    <3>2. v = 6 => e = [d EXCEPT !.schema = d.schema \cup {"ocr_status", "boxes"}]
      BY DEF Migrated, Migration006
    <3>3. v = 7 => e = [d EXCEPT !.schema = d.schema \cup {"boxes_idx"}]
      BY DEF Migrated, Migration007
    <3>4. {{"assets"}, {"ocr_status", "boxes"}, {"boxes_idx"}} \subseteq SUBSET Objects
      BY DEF Objects
    <3> QED
      BY <1>3, <3>1, <3>2, <3>3, <3>4
  <2> QED
    BY <2>1 DEF Databases
<1>4. CASE v = 2
  <2>1. e = Migration002(d)
    BY <1>4 DEF Migrated
  <2>2. [a \in OldAssets |-> IF d.vec[a] = "none" THEN d.plain[a] ELSE d.vec[a]]
          \in [OldAssets -> Vectors]
    BY <1>2
  <2> QED
    BY <2>1, <2>2 DEF Migration002, Databases, Objects
<1>5. CASE v = 3
  <2>1. e = Migration003(d)
    BY <1>5 DEF Migrated
  <2>2. e.thumbnail \in [OldAssets -> 0..2] /\ e.clip \in [OldAssets -> 0..2]
    BY <2>1 DEF Migration003, Databases
  <2>3. d.schema \cup {"clip_status"} \in SUBSET Objects
    BY <1>2 DEF Objects
  <2> QED
    BY <2>1, <2>2, <2>3 DEF Migration003, Databases
<1>6. CASE v = 4
  <2>1. e = Migration004(d)
    BY <1>6 DEF Migrated
  <2>2. d.schema \cup {"metadata_status"} \in SUBSET Objects
    BY <1>2 DEF Objects
  <2>3. [a \in OldAssets |-> 1] \in [OldAssets -> 0..1]
    OBVIOUS
  <2>4. e = [d EXCEPT !.schema = d.schema \cup {"metadata_status"},
                      !.metadata = [a \in OldAssets |-> 1]]
    BY <2>1 DEF Migration004
  <2> QED
    BY <2>2, <2>3, <2>4 DEF Databases
<1>7. CASE v = 5
  <2>1. e = Migration005(d)
    BY <1>7 DEF Migrated
  <2> QED
    BY <2>1 DEF Migration005, Databases, Objects, Vectors
<1>8. CASE v = 8
  <2>1. PICK r \in Decodings(d) : \E s \in Samples(r) : e = Migration008(d, r, s)
    BY <1>8 DEF Migrated
  <2> PICK s \in Samples(r) : e = Migration008(d, r, s)
    BY <2>1
  <2>2. Copied(r, s) \in [OldAssets -> Vectors]
    BY DEF Copied, Decodings, Vectors
  <2> HIDE DEF Copied
  <2>3. e.plain \in [OldAssets -> Vectors] /\ e.vec \in [OldAssets -> Vectors]
    BY <2>2 DEF Migration008, Databases, Vectors
  <2>4. e.schema \in SUBSET Objects
    BY DEF Migration008, Databases, Objects
  <2> QED
    BY <2>3, <2>4 DEF Migration008, Databases
<1> QED
  BY <1>1, <1>3, <1>4, <1>5, <1>6, <1>7, <1>8

\* A transaction with something done in it is of a version that is not the
\* latest, whoever races with whom.
OpenInv ==
  \A p \in Starters : step[p] \in {"record", "commit"} =>
    tx[p] \in Databases /\ known[p] < Latest

LEMMA MigrationTypes == MigrationsSpec => []MigrationsTypeOK
<1>1. MigrationsInit => MigrationsTypeOK /\ OpenInv
  <2> SUFFICES ASSUME MigrationsInit PROVE MigrationsTypeOK /\ OpenInv
    OBVIOUS
  <2>1. PICK v \in Versions : \E ks \in [OldAssets -> Knowledge] :
          db = Release(v, ks) /\ original = ks /\ applied = 1..v
    BY DEF MigrationsInit
  <2>2. db \in Databases /\ original \in [OldAssets -> Knowledge]
    BY <2>1, ReleaseIsDatabase
  <2>3. 1..v \subseteq 1..Latest /\ 0 \in Versions
    BY DEF Versions, Latest
  <2> QED
    BY <2>1, <2>2, <2>3 DEF MigrationsInit, MigrationsTypeOK, OpenInv, Steps
<1>2. MigrationsTypeOK /\ OpenInv /\ [MigrationsNext]_migrationVars
        => MigrationsTypeOK' /\ OpenInv'
  <2> SUFFICES ASSUME MigrationsTypeOK, OpenInv, [MigrationsNext]_migrationVars
               PROVE  MigrationsTypeOK' /\ OpenInv'
    OBVIOUS
  <2>0. step' \in [Starters -> Steps]
    BY DEF MigrationsTypeOK, MigrationsNext, Migrate, Start, ReadVersion, Up, Record, Commit,
       Finish, Fail, Stop, Advance, Steps, migrationVars
  <2>a. \A d \in Databases : d.version \in Versions
    BY DEF Databases
  <2> USE DEF MigrationsTypeOK, OpenInv, Advance
  <2>1. ASSUME NEW p \in Starters, Start(p) \/ Finish(p) PROVE MigrationsTypeOK' /\ OpenInv'
    BY <2>0, <2>1 DEF Start, Finish
  <2>2. ASSUME NEW p \in Starters, ReadVersion(p) PROVE MigrationsTypeOK' /\ OpenInv'
    BY <2>0, <2>2, <2>a DEF ReadVersion
  <2>3. ASSUME NEW p \in Starters, Up(p) PROVE MigrationsTypeOK' /\ OpenInv'
    <3>1. known[p] + 1 \in 1..Latest
      BY <2>3 DEF Up, Versions, Latest
    <3> QED
      BY <2>0, <2>3, <3>1, MigratedIsDatabase DEF Up
  <2>4. ASSUME NEW p \in Starters, Record(p) PROVE MigrationsTypeOK' /\ OpenInv'
    <3>1. tx[p] \in Databases /\ known[p] \in Versions /\ known[p] < Latest
      BY <2>4 DEF Record
    <3>2. known[p] + 1 \in Versions
      BY <3>1 DEF Versions, Latest
    <3>3. [tx[p] EXCEPT !.version = known[p] + 1] \in Databases
      BY <3>1, <3>2 DEF Databases
    <3> QED
      BY <2>0, <2>4, <3>1, <3>3 DEF Record
  <2>5. ASSUME NEW p \in Starters, Commit(p) PROVE MigrationsTypeOK' /\ OpenInv'
    <3>1. known[p] + 1 \in 1..Latest /\ known[p] + 1 \in Versions
      BY <2>5 DEF Commit, Versions, Latest
    <3> QED
      BY <2>0, <2>5, <3>1 DEF Commit
  <2>6. ASSUME NEW p \in Starters, Fail(p) \/ Stop(p) PROVE MigrationsTypeOK' /\ OpenInv'
    <3>1. 0 \in Versions
      BY DEF Versions, Latest
    <3> QED
      BY <2>0, <2>6, <3>1 DEF Fail, Stop
  <2>7. CASE UNCHANGED migrationVars
    BY <2>7 DEF migrationVars
  <2> QED
    BY <2>1, <2>2, <2>3, <2>4, <2>5, <2>6, <2>7 DEF MigrationsNext, Migrate
<1> QED
  BY <1>1, <1>2, PTL DEF MigrationsSpec

----------------------------------------------------------------------------
(* The recorded version, whoever races with whom                           *)

\* A process knows a version whose migrations are all committed, and writes
\* the one after it when it commits that migration.
HonestInv ==
  /\ db.version \in Nat /\ VersionHonest
  /\ known \in [Starters -> Nat]
  /\ step \in [Starters -> Steps]
  /\ DOMAIN tx = Starters
  /\ \A p \in Starters :
       /\ step[p] \in {"next", "record", "commit"} => 1..known[p] \subseteq applied
       /\ step[p] = "commit" => tx[p].version = known[p] + 1

\* The recorded version claims no migration that was not committed.
THEOREM VersionCorrect == MigrationsSpec => []VersionHonest
<1>1. MigrationsInit => HonestInv
  BY DEF MigrationsInit, HonestInv, VersionHonest, Release, Versions, Steps
<1>2. HonestInv /\ [MigrationsNext]_migrationVars => HonestInv'
  <2> SUFFICES ASSUME HonestInv, [MigrationsNext]_migrationVars PROVE HonestInv'
    OBVIOUS
  <2> USE DEF HonestInv, VersionHonest, Advance, Steps, Active
  <2>1. ASSUME NEW p \in Starters, Start(p) PROVE HonestInv'
    BY <2>1 DEF Start
  <2>2. ASSUME NEW p \in Starters, ReadVersion(p) PROVE HonestInv'
    BY <2>2 DEF ReadVersion
  <2>3. ASSUME NEW p \in Starters, Up(p) PROVE HonestInv'
    BY <2>3 DEF Up
  <2>4. ASSUME NEW p \in Starters, Record(p) PROVE HonestInv'
    BY <2>4 DEF Record
  <2>5. ASSUME NEW p \in Starters, Commit(p) PROVE HonestInv'
    BY <2>5 DEF Commit
  <2>6. ASSUME NEW p \in Starters, Finish(p) PROVE HonestInv'
    BY <2>6 DEF Finish
  <2>7. ASSUME NEW p \in Starters, Fail(p) PROVE HonestInv'
    BY <2>7 DEF Fail
  <2>8. ASSUME NEW p \in Starters, Stop(p) PROVE HonestInv'
    BY <2>8 DEF Stop
  <2>9. CASE UNCHANGED migrationVars
    BY <2>9 DEF migrationVars
  <2> QED
    BY <2>1, <2>2, <2>3, <2>4, <2>5, <2>6, <2>7, <2>8, <2>9 DEF MigrationsNext, Migrate
<1>3. HonestInv => VersionHonest
  BY DEF HonestInv
<1> QED
  BY <1>1, <1>2, <1>3, PTL DEF MigrationsSpec

----------------------------------------------------------------------------
(* The data, as long as the processes come one after another               *)

EmbeddedOf(ks) == {b \in OldAssets : ks[b].embedded}

\* The data of d are what release v makes of what the first one knew.
DataOf(d, v, ks) ==
  /\ d \in Databases /\ d.schema = SchemaOf(v)
  /\ \A a \in OldAssets :
       /\ d.thumbnail[a] = ThumbnailOf(v, ks[a])
       /\ d.clip[a] = ClipOf(v, ks[a])
       /\ ks[a].embedded => v >= 2 /\ ks[a].thumbnail = "ok"
       /\ v < 8 => d.plain[a] = VectorIf(v \in 2..4 /\ ks[a].embedded)
       /\ v < 8 => d.vec[a] = VectorIf(v \in 2..7 /\ ks[a].embedded)
       /\ v = 8 /\ ks[a].embedded =>
            /\ d.plain[a] # "none"
            /\ Cardinality(EmbeddedOf(ks)) <= SampleSize
                 => d.plain[a] = "right"

\* The objects of each release.
LEMMA Schemas ==
  /\ SchemaOf(0) = {}
  /\ SchemaOf(1) = {"assets"}
  /\ SchemaOf(2) = {"assets", "embeddings", "vec", "mirror"}
  /\ SchemaOf(3) = {"assets", "embeddings", "vec", "mirror", "clip_status"}
  /\ SchemaOf(4) = {"assets", "embeddings", "vec", "mirror", "clip_status", "metadata_status"}
  /\ SchemaOf(5) = {"assets", "clip_status", "metadata_status", "vec", "cascade"}
  /\ SchemaOf(6) = SchemaOf(5) \cup {"ocr_status", "boxes"}
  /\ SchemaOf(7) = SchemaOf(6) \cup {"boxes_idx"}
  /\ SchemaOf(8) = {"assets", "clip_status", "metadata_status", "ocr_status", "boxes",
                    "boxes_idx", "embeddings"}
<1>1. SchemaOf(0) = {}
  BY DEF SchemaOf
<1>2. SchemaOf(1) = {"assets"}
  BY DEF SchemaOf
<1>3. SchemaOf(2) = {"assets", "embeddings", "vec", "mirror"}
  BY DEF SchemaOf
<1>4. SchemaOf(3) = {"assets", "embeddings", "vec", "mirror", "clip_status"}
  BY DEF SchemaOf
<1>5. SchemaOf(4) = {"assets", "embeddings", "vec", "mirror", "clip_status", "metadata_status"}
  BY DEF SchemaOf
<1>6. SchemaOf(5) = {"assets", "clip_status", "metadata_status", "vec", "cascade"}
  BY DEF SchemaOf
<1>7. SchemaOf(6) = SchemaOf(5) \cup {"ocr_status", "boxes"}
  BY DEF SchemaOf
<1>8. SchemaOf(7) = SchemaOf(6) \cup {"boxes_idx"}
  BY DEF SchemaOf
<1>9. SchemaOf(8) = {"assets", "clip_status", "metadata_status", "ocr_status", "boxes",
                     "boxes_idx", "embeddings"}
  BY DEF SchemaOf
<1> QED
  BY <1>1, <1>2, <1>3, <1>4, <1>5, <1>6, <1>7, <1>8, <1>9

\* The next migration finds the objects its statements need.
LEMMA NextApplies ==
  ASSUME NEW d, NEW ks, NEW v \in Versions, DataOf(d, v, ks), v < Latest
  PROVE  Applicable(v + 1, d)
<1>1. v \in {0, 1, 2, 3, 4, 5, 6, 7} /\ d.schema = SchemaOf(v)
  BY DEF DataOf, Versions, Latest
<1>2. CASE v = 0
  BY <1>2 DEF Applicable
<1>3. CASE v = 1
  BY <1>1, <1>3, Schemas DEF Applicable
<1>4. CASE v = 2
  BY <1>1, <1>4, Schemas DEF Applicable
<1>5. CASE v = 3
  BY <1>1, <1>5, Schemas DEF Applicable
<1>6. CASE v = 4
  BY <1>1, <1>6, Schemas DEF Applicable
<1>7. CASE v = 5
  BY <1>1, <1>7, Schemas DEF Applicable
<1>8. CASE v = 6
  BY <1>1, <1>8, Schemas DEF Applicable
<1>9. CASE v = 7
  BY <1>1, <1>9, Schemas DEF Applicable
<1> QED
  BY <1>1, <1>2, <1>3, <1>4, <1>5, <1>6, <1>7, <1>8, <1>9

\* When migration008 compares every vector it copied, what it keeps is right.
LEMMA SampleIsEnough ==
  ASSUME NEW d \in Databases, NEW E \in SUBSET OldAssets,
         \A a \in OldAssets : d.vec[a] = VectorIf(a \in E),
         NEW r \in Decodings(d), NEW s \in Samples(r), Cardinality(E) <= SampleSize,
         NEW a \in OldAssets
  PROVE  Copied(r, s)[a] \in {"none", "right"}
<1> DEFINE copied == {b \in OldAssets : r[b] # "none"}
<1>1. IsFiniteSet(E) /\ copied \subseteq E /\ r \in [OldAssets -> Vectors]
  BY FS_Subset DEF Decodings, VectorIf
<1>2. IsFiniteSet(copied) /\ Cardinality(copied) \in Nat /\ Cardinality(copied) <= SampleSize
  BY <1>1, FS_Subset, FS_CardinalityType
<1>3. s \subseteq copied /\ (s = copied \/ Cardinality(s) = SampleSize)
  BY DEF Samples
<1>4. s = copied
  <2>1. CASE Cardinality(s) = SampleSize
    BY <1>2, <1>3, <2>1, FS_Subset
  <2> QED
    BY <1>3, <2>1
<1>5. CASE \E b \in s : r[b] = "wrong"
  BY <1>5 DEF Copied
<1>6. CASE ~ \E b \in s : r[b] = "wrong"
  BY <1>1, <1>4, <1>6 DEF Copied, Vectors
<1> QED
  BY <1>5, <1>6

\* A migration makes of a release the next one.
LEMMA MigratedUpgrades ==
  ASSUME NEW d, NEW ks \in [OldAssets -> Knowledge], NEW v \in Versions,
         DataOf(d, v, ks), v < Latest, NEW e \in Migrated(v + 1, d)
  PROVE  DataOf(e, v + 1, ks)
<1>1. /\ d \in Databases /\ v \in 0..7 /\ d.schema = SchemaOf(v)
  BY DEF DataOf, Versions, Latest
<1>2. CASE v = 0
  <2>1. e = Migration001(d)
    BY <1>2 DEF Migrated
  <2>2. e \in Databases
    BY <2>1, <1>1 DEF Migration001, Databases, Objects, Vectors
  <2>3. e.schema = SchemaOf(1)
    BY <2>1, <1>1, <1>2, Schemas DEF Migration001, Databases
  <2>4. \A a \in OldAssets : e.plain[a] = VectorIf(1 \in 2..4 /\ ks[a].embedded)
    BY <2>1, <1>1, <1>2 DEF Migration001, DataOf, Databases, VectorIf
  <2>5. \A a \in OldAssets : e.vec[a] = VectorIf(1 \in 2..7 /\ ks[a].embedded)
    BY <2>1, <1>1, <1>2 DEF Migration001, DataOf, Databases, VectorIf
  <2>6. \A a \in OldAssets : e.thumbnail[a] = ThumbnailOf(1, ks[a])
    BY <2>1, <1>1, <1>2 DEF Migration001, DataOf, Databases, ThumbnailOf, Knowledge
  <2>7. \A a \in OldAssets : e.clip[a] = ClipOf(1, ks[a])
    BY <2>1, <1>1, <1>2 DEF Migration001, DataOf, Databases, ThumbnailOf, ClipOf, VectorIf, Knowledge
  <2> QED
    BY <2>2, <2>3, <2>4, <2>5, <2>6, <2>7, <1>2 DEF DataOf
<1>3. CASE v = 1
  <2>1. e = Migration002(d)
    BY <1>3 DEF Migrated
  <2>2. e \in Databases
    BY <2>1, <1>1 DEF Migration002, Databases, Objects, Vectors
  <2>3. e.schema = SchemaOf(2)
    BY <2>1, <1>1, <1>3, Schemas DEF Migration002, Databases
  <2>4. \A a \in OldAssets : e.plain[a] = VectorIf(2 \in 2..4 /\ ks[a].embedded)
    BY <2>1, <1>1, <1>3 DEF Migration002, DataOf, Databases, VectorIf
  <2>5. \A a \in OldAssets : e.vec[a] = VectorIf(2 \in 2..7 /\ ks[a].embedded)
    BY <2>1, <1>1, <1>3 DEF Migration002, DataOf, Databases, VectorIf
  <2>6. \A a \in OldAssets : e.thumbnail[a] = ThumbnailOf(2, ks[a])
    BY <2>1, <1>1, <1>3 DEF Migration002, DataOf, Databases, ThumbnailOf, Knowledge
  <2>7. \A a \in OldAssets : e.clip[a] = ClipOf(2, ks[a])
    BY <2>1, <1>1, <1>3 DEF Migration002, DataOf, Databases, ThumbnailOf, ClipOf, VectorIf, Knowledge
  <2> QED
    BY <2>2, <2>3, <2>4, <2>5, <2>6, <2>7, <1>3 DEF DataOf
<1>4. CASE v = 2
  <2>1. e = Migration003(d)
    BY <1>4 DEF Migrated
  <2>2. e \in Databases
    <3>1. (d.schema \cup {"clip_status"}) \in SUBSET Objects
      BY <1>1 DEF Databases, Objects
    <3>2. e.thumbnail \in [OldAssets -> 0..2] /\ e.clip \in [OldAssets -> 0..2]
      BY <2>1, <1>1 DEF Migration003, Databases
    <3> QED
      BY <2>1, <1>1, <3>1, <3>2 DEF Migration003, Databases
  <2>3. e.schema = SchemaOf(3)
    BY <2>1, <1>1, <1>4, Schemas DEF Migration003, Databases
  <2>4. \A a \in OldAssets : e.plain[a] = VectorIf(3 \in 2..4 /\ ks[a].embedded)
    BY <2>1, <1>1, <1>4 DEF Migration003, DataOf, Databases, VectorIf
  <2>5. \A a \in OldAssets : e.vec[a] = VectorIf(3 \in 2..7 /\ ks[a].embedded)
    BY <2>1, <1>1, <1>4 DEF Migration003, DataOf, Databases, VectorIf
  <2>6. \A a \in OldAssets : e.thumbnail[a] = ThumbnailOf(3, ks[a])
    BY <2>1, <1>1, <1>4 DEF Migration003, DataOf, Databases, ThumbnailOf, Knowledge
  <2>7. \A a \in OldAssets : e.clip[a] = ClipOf(3, ks[a])
    BY <2>1, <1>1, <1>4 DEF Migration003, DataOf, Databases, ThumbnailOf, ClipOf, VectorIf, Knowledge
  <2> QED
    BY <2>2, <2>3, <2>4, <2>5, <2>6, <2>7, <1>4 DEF DataOf
<1>5. CASE v = 3
  <2>1. e = Migration004(d)
    BY <1>5 DEF Migrated
  <2>2. e \in Databases
    <3>1. (d.schema \cup {"metadata_status"}) \in SUBSET Objects
      BY <1>1 DEF Databases, Objects
    <3>2. e.metadata \in [OldAssets -> 0..1]
      BY <2>1, <1>1 DEF Migration004, Databases
    <3> QED
      BY <2>1, <1>1, <3>1, <3>2 DEF Migration004, Databases
  <2>3. e.schema = SchemaOf(4)
    BY <2>1, <1>1, <1>5, Schemas DEF Migration004, Databases
  <2>4. \A a \in OldAssets : e.plain[a] = VectorIf(4 \in 2..4 /\ ks[a].embedded)
    BY <2>1, <1>1, <1>5 DEF Migration004, DataOf, Databases, VectorIf
  <2>5. \A a \in OldAssets : e.vec[a] = VectorIf(4 \in 2..7 /\ ks[a].embedded)
    BY <2>1, <1>1, <1>5 DEF Migration004, DataOf, Databases, VectorIf
  <2>6. \A a \in OldAssets : e.thumbnail[a] = ThumbnailOf(4, ks[a])
    BY <2>1, <1>1, <1>5 DEF Migration004, DataOf, Databases, ThumbnailOf, Knowledge
  <2>7. \A a \in OldAssets : e.clip[a] = ClipOf(4, ks[a])
    BY <2>1, <1>1, <1>5 DEF Migration004, DataOf, Databases, ThumbnailOf, ClipOf, VectorIf, Knowledge
  <2> QED
    BY <2>2, <2>3, <2>4, <2>5, <2>6, <2>7, <1>5 DEF DataOf
<1>6. CASE v = 4
  <2>1. e = Migration005(d)
    BY <1>6 DEF Migrated
  <2>2. e \in Databases
    BY <2>1, <1>1 DEF Migration005, Databases, Objects, Vectors
  <2>3. e.schema = SchemaOf(5)
    BY <2>1, <1>1, <1>6, Schemas DEF Migration005, Databases
  <2>4. \A a \in OldAssets : e.plain[a] = VectorIf(5 \in 2..4 /\ ks[a].embedded)
    BY <2>1, <1>1, <1>6 DEF Migration005, DataOf, Databases, VectorIf
  <2>5. \A a \in OldAssets : e.vec[a] = VectorIf(5 \in 2..7 /\ ks[a].embedded)
    BY <2>1, <1>1, <1>6 DEF Migration005, DataOf, Databases, VectorIf
  <2>6. \A a \in OldAssets : e.thumbnail[a] = ThumbnailOf(5, ks[a])
    BY <2>1, <1>1, <1>6 DEF Migration005, DataOf, Databases, ThumbnailOf, Knowledge
  <2>7. \A a \in OldAssets : e.clip[a] = ClipOf(5, ks[a])
    BY <2>1, <1>1, <1>6 DEF Migration005, DataOf, Databases, ThumbnailOf, ClipOf, VectorIf, Knowledge
  <2> QED
    BY <2>2, <2>3, <2>4, <2>5, <2>6, <2>7, <1>6 DEF DataOf
<1>7. CASE v = 5
  <2>1. e = Migration006(d)
    BY <1>7 DEF Migrated
  <2>2. e \in Databases
    BY <2>1, <1>1 DEF Migration006, Databases, Objects, Vectors
  <2>3. e.schema = SchemaOf(6)
    BY <2>1, <1>1, <1>7, Schemas DEF Migration006, Databases
  <2>4. \A a \in OldAssets : e.plain[a] = VectorIf(6 \in 2..4 /\ ks[a].embedded)
    BY <2>1, <1>1, <1>7 DEF Migration006, DataOf, Databases, VectorIf
  <2>5. \A a \in OldAssets : e.vec[a] = VectorIf(6 \in 2..7 /\ ks[a].embedded)
    BY <2>1, <1>1, <1>7 DEF Migration006, DataOf, Databases, VectorIf
  <2>6. \A a \in OldAssets : e.thumbnail[a] = ThumbnailOf(6, ks[a])
    BY <2>1, <1>1, <1>7 DEF Migration006, DataOf, Databases, ThumbnailOf, Knowledge
  <2>7. \A a \in OldAssets : e.clip[a] = ClipOf(6, ks[a])
    BY <2>1, <1>1, <1>7 DEF Migration006, DataOf, Databases, ThumbnailOf, ClipOf, VectorIf, Knowledge
  <2> QED
    BY <2>2, <2>3, <2>4, <2>5, <2>6, <2>7, <1>7 DEF DataOf
<1>8. CASE v = 6
  <2>1. e = Migration007(d)
    BY <1>8 DEF Migrated
  <2>2. e \in Databases
    BY <2>1, <1>1 DEF Migration007, Databases, Objects, Vectors
  <2>3. e.schema = SchemaOf(7)
    BY <2>1, <1>1, <1>8, Schemas DEF Migration007, Databases
  <2>4. \A a \in OldAssets : e.plain[a] = VectorIf(7 \in 2..4 /\ ks[a].embedded)
    BY <2>1, <1>1, <1>8 DEF Migration007, DataOf, Databases, VectorIf
  <2>5. \A a \in OldAssets : e.vec[a] = VectorIf(7 \in 2..7 /\ ks[a].embedded)
    BY <2>1, <1>1, <1>8 DEF Migration007, DataOf, Databases, VectorIf
  <2>6. \A a \in OldAssets : e.thumbnail[a] = ThumbnailOf(7, ks[a])
    BY <2>1, <1>1, <1>8 DEF Migration007, DataOf, Databases, ThumbnailOf, Knowledge
  <2>7. \A a \in OldAssets : e.clip[a] = ClipOf(7, ks[a])
    BY <2>1, <1>1, <1>8 DEF Migration007, DataOf, Databases, ThumbnailOf, ClipOf, VectorIf, Knowledge
  <2> QED
    BY <2>2, <2>3, <2>4, <2>5, <2>6, <2>7, <1>8 DEF DataOf
<1>9. CASE v = 7
  <2> DEFINE E == EmbeddedOf(ks)
  <2>e. E \subseteq OldAssets /\ \A a \in OldAssets : a \in E <=> ks[a].embedded = TRUE
    BY DEF EmbeddedOf, Knowledge
  <2>a. PICK r \in Decodings(d) : \E s \in Samples(r) : e = Migration008(d, r, s)
    BY <1>9 DEF Migrated
  <2>1. PICK s \in Samples(r) : e = Migration008(d, r, s)
    BY <2>a
  <2>2. r \in [OldAssets -> Vectors] /\ Copied(r, s) \in [OldAssets -> Vectors]
    BY DEF Decodings, Copied, Vectors
  <2>3. \A a \in OldAssets : d.vec[a] = VectorIf(a \in E)
    BY <1>9, <2>e DEF DataOf
  <2>4. e \in Databases
    BY <2>1, <2>2, <1>1 DEF Migration008, Databases, Objects, Vectors
  <2>5. e.schema = SchemaOf(8)
    BY <2>1, <1>1, <1>9, Schemas DEF Migration008, Databases
  <2>6. \A a \in E : e.plain[a] # "none"
    BY <2>1, <2>2, <2>3, <2>e DEF Migration008, VectorIf, Databases
  <2>7. Cardinality(E) <= SampleSize => \A a \in E : e.plain[a] = "right"
    BY <2>1, <2>2, <2>3, <2>e, <1>1, SampleIsEnough DEF Migration008, VectorIf, Databases
  <2>8. \A a \in OldAssets : /\ e.thumbnail[a] = ThumbnailOf(8, ks[a])
                            /\ e.clip[a] = ClipOf(8, ks[a])
    BY <2>1, <1>1, <1>9 DEF Migration008, DataOf, Databases, ThumbnailOf, ClipOf
  <2>9. \A a \in OldAssets : ks[a].embedded => ks[a].thumbnail = "ok"
    BY DEF DataOf
  <2>10. DataOf(e, 8, ks)
    BY <2>4, <2>5, <2>6, <2>7, <2>8, <2>9, <2>e DEF DataOf
  <2> QED
    BY <2>10, <1>9
<1> QED
  BY <1>1, <1>2, <1>3, <1>4, <1>5, <1>6, <1>7, <1>8, <1>9

\* While no two processes were in Migrate at one time, the one that is knows
\* the version, and its transaction makes of the database the next release.
OneByOne ==
  /\ db.version \in Versions /\ DataOf(db, db.version, original)
  /\ \A p, q \in Starters : Active(p) /\ Active(q) => p = q
  /\ \A p \in Starters :
       /\ step[p] \in {"next", "record", "commit"} => known[p] = db.version
       /\ step[p] \in {"record", "commit"} =>
            known[p] < Latest /\ DataOf(tx[p], known[p] + 1, original)
       /\ step[p] = "commit" => tx[p].version = known[p] + 1
UpgradeInv ==
  /\ original \in [OldAssets -> Knowledge]
  /\ DOMAIN known = Starters
  /\ step \in [Starters -> Steps]
  /\ DOMAIN tx = Starters
  /\ overlapped \in BOOLEAN
  /\ ~overlapped => OneByOne

\* Recording the version changes nothing else.
LEMMA RecordKeepsData ==
  ASSUME NEW d, NEW ks, NEW v \in Versions, NEW n \in Versions, DataOf(d, v, ks)
  PROVE  DataOf([d EXCEPT !.version = n], v, ks) /\ [d EXCEPT !.version = n].version = n
  BY DEF DataOf, Databases

\* A database of a release keeps the data.
LEMMA DataKept ==
  ASSUME original \in [OldAssets -> Knowledge], db.version \in Versions,
         DataOf(db, db.version, original)
  PROVE  StatusesKept /\ EmbeddingsKept
<1>1. StatusesKept
  BY DEF StatusesKept, DataOf
<1>2. ASSUME NEW a \in Embedded
      PROVE  /\ Stored(db, a) # "none"
             /\ Cardinality(Embedded) <= SampleSize => Stored(db, a) = "right"
  <2>1. a \in OldAssets /\ original[a].embedded /\ db.version \in 2..8
    <3>1. a \in OldAssets /\ original[a].embedded
      BY <1>2 DEF Embedded
    <3>2. db.version >= 2
      BY <3>1 DEF DataOf
    <3> QED
      BY <3>1, <3>2 DEF Versions, Latest
  <2>2. CASE db.version < 8
    <3>1. db.version \in 2..4 => db.plain[a] = "right"
      BY <2>1, <2>2 DEF DataOf, VectorIf
    <3>2. db.version \in 5..7 => db.vec[a] = "right"
      BY <2>1, <2>2 DEF DataOf, VectorIf
    <3> QED
      BY <2>1, <2>2, <3>1, <3>2 DEF Stored
  <2>3. CASE db.version = 8
    <3>1. Stored(db, a) = db.plain[a]
      BY <2>3 DEF Stored
    <3>2. /\ db.plain[a] # "none"
          /\ Cardinality(EmbeddedOf(original)) <= SampleSize
               => db.plain[a] = "right"
      BY <2>1, <2>3 DEF DataOf
    <3>3. Embedded = EmbeddedOf(original)
      BY DEF Embedded, EmbeddedOf
    <3> QED
      BY <3>1, <3>2, <3>3
  <2> QED
    BY <2>1, <2>2, <2>3
<1> QED
  BY <1>1, <1>2 DEF EmbeddingsKept

\* As long as the processes come one after another, dying wherever they
\* may, an upgrade keeps the statuses and the embeddings and never gets
\* stuck, for any number of assets.
THEOREM UpgradeCorrect == MigrationsSpec => []UpgradeSafe
<1>1. MigrationsInit => UpgradeInv
  <2> SUFFICES ASSUME MigrationsInit PROVE UpgradeInv
    OBVIOUS
  <2>1. PICK v \in Versions, ks \in [OldAssets -> Knowledge] :
          Possible(v, ks) /\ db = Release(v, ks) /\ original = ks
    BY DEF MigrationsInit
  <2>2. db.version = v /\ db.schema = SchemaOf(v)
    BY <2>1 DEF Release
  <2>3. db \in Databases
    BY <2>1, ReleaseIsDatabase
  <2>4. \A a \in OldAssets :
          /\ db.thumbnail[a] = ThumbnailOf(v, ks[a]) /\ db.clip[a] = ClipOf(v, ks[a])
          /\ ks[a].embedded => v >= 2 /\ ks[a].thumbnail = "ok"
          /\ db.plain[a] = VectorIf(v \in {2, 3, 4, 8} /\ ks[a].embedded)
          /\ db.vec[a] = VectorIf(v \in 2..7 /\ ks[a].embedded)
    BY <2>1 DEF Release, Possible
  <2>5. DataOf(db, v, ks)
    BY <2>2, <2>3, <2>4 DEF DataOf, VectorIf, Versions, Latest
  <2> QED
    <3>1. \A p \in Starters : step[p] = "out"
      BY DEF MigrationsInit
    <3>2. OneByOne
      BY <2>1, <2>2, <2>5, <3>1 DEF OneByOne, Active
    <3> QED
      BY <2>1, <3>2 DEF MigrationsInit, UpgradeInv, Steps
<1>2. UpgradeInv /\ [MigrationsNext]_migrationVars => UpgradeInv'
  <2> SUFFICES ASSUME UpgradeInv, [MigrationsNext]_migrationVars PROVE UpgradeInv'
    OBVIOUS
  <2> USE DEF UpgradeInv, OneByOne, Advance, Steps, Active
  <2>1. ASSUME NEW p \in Starters, Start(p) PROVE UpgradeInv'
    <3>1. ~overlapped' => ~overlapped /\ \A q \in Starters : ~Active(q)
      BY <2>1 DEF Start
    <3>2. /\ db' = db /\ original' = original /\ step'[p] = "read"
          /\ \A q \in Starters : q # p => step'[q] = step[q]
      BY <2>1 DEF Start
    <3>3. ASSUME ~overlapped' PROVE OneByOne'
      BY <3>1, <3>2, <3>3
    <3> QED
      BY <2>1, <3>3 DEF Start
  <2>2. ASSUME NEW p \in Starters, ReadVersion(p) PROVE UpgradeInv'
    <3>1. ASSUME ~overlapped PROVE OneByOne'
      <4>1. \A q \in Starters : Active(q) => q = p
        BY <2>2, <3>1 DEF ReadVersion
      <4>2. /\ db' = db /\ original' = original /\ step'[p] = "next" /\ known'[p] = db.version
            /\ \A q \in Starters : q # p => step'[q] = step[q]
        BY <2>2 DEF ReadVersion
      <4> QED
        BY <3>1, <4>1, <4>2
    <3> QED
      BY <2>2, <3>1 DEF ReadVersion
  <2>3. ASSUME NEW p \in Starters, Up(p) PROVE UpgradeInv'
    BY <2>3, MigratedUpgrades DEF Up
  <2>4. ASSUME NEW p \in Starters, Record(p) PROVE UpgradeInv'
    <3>1. ASSUME ~overlapped PROVE OneByOne'
      <4>1. \A q \in Starters : Active(q) => q = p
        BY <2>4, <3>1 DEF Record
      <4>2. known[p] \in Versions /\ known[p] + 1 \in Versions /\ DataOf(tx[p], known[p] + 1, original)
        BY <2>4, <3>1 DEF Record, Versions, Latest
      <4>3. tx'[p].version = known[p] + 1 /\ DataOf(tx'[p], known[p] + 1, original)
        BY <2>4, <4>2, RecordKeepsData DEF Record
      <4>4. /\ db' = db /\ original' = original /\ known' = known /\ step'[p] = "commit"
            /\ \A q \in Starters : q # p => step'[q] = step[q]
        BY <2>4 DEF Record
      <4> QED
        BY <2>4, <3>1, <4>1, <4>2, <4>3, <4>4 DEF Record
    <3> QED
      BY <2>4, <3>1 DEF Record
  <2>5. ASSUME NEW p \in Starters, Commit(p) PROVE UpgradeInv'
    <3>1. ~overlapped => known[p] + 1 \in Versions
      BY <2>5 DEF Commit, Versions, Latest
    <3>2. ASSUME ~overlapped PROVE OneByOne'
      <4>1. \A q \in Starters : Active(q) => q = p
        BY <2>5, <3>2 DEF Commit
      <4>2. db'.version = known[p] + 1 /\ DataOf(db', known[p] + 1, original)
        BY <2>5, <3>2 DEF Commit
      <4>3. /\ original' = original /\ known'[p] = known[p] + 1 /\ step'[p] = "next"
            /\ \A q \in Starters : q # p => step'[q] = step[q]
        BY <2>5 DEF Commit
      <4> QED
        BY <3>1, <3>2, <4>1, <4>2, <4>3
    <3> QED
      BY <2>5, <3>1, <3>2 DEF Commit
  <2>6. ASSUME NEW p \in Starters, Finish(p) PROVE UpgradeInv'
    BY <2>6 DEF Finish
  <2>7. ASSUME NEW p \in Starters, Fail(p) PROVE UpgradeInv'
    BY <2>7 DEF Fail
  <2>8. ASSUME NEW p \in Starters, Stop(p) PROVE UpgradeInv'
    BY <2>8 DEF Stop, Versions, Latest
  <2>9. CASE UNCHANGED migrationVars
    BY <2>9 DEF migrationVars
  <2> QED
    BY <2>1, <2>2, <2>3, <2>4, <2>5, <2>6, <2>7, <2>8, <2>9 DEF MigrationsNext, Migrate
<1>3. UpgradeInv => UpgradeSafe
  <2> SUFFICES ASSUME UpgradeInv, ~overlapped PROVE StatusesKept /\ EmbeddingsKept /\ NeverStuck
    BY DEF UpgradeSafe
  <2>1. StatusesKept /\ EmbeddingsKept
    BY DataKept DEF UpgradeInv, OneByOne
  <2>2. NeverStuck
    BY NextApplies DEF UpgradeInv, OneByOne, NeverStuck
  <2> QED
    BY <2>1, <2>2
<1> QED
  BY <1>1, <1>2, <1>3, PTL DEF MigrationsSpec

HIDE MigrationsAssumption

----------------------------------------------------------------------------
(* All of them together                                                    *)

\* The specification that runs the components side by side starts each of
\* them in one of its own initial states ...
LEMMA StartsAll ==
  ServicesInit => /\ PagingInit /\ ProgressInit /\ ViewerInit /\ MetadataInit /\ ToolInit
                  /\ CacheInit /\ MigrationsInit /\ RegionsInit /\ RecognizeInit
BY DEF ServicesInit

\* ... and its steps are steps of one of them, or of none, for each ...
LEMMA StepsOne ==
  ASSUME [ServicesNext]_servicesVars
  PROVE  /\ [PagingNext]_pagingVars /\ [ProgressNext]_progressVars /\ [ViewerNext]_viewerVars
         /\ [MetadataNext]_metadataVars /\ [ToolNext]_toolVars /\ [CacheNext]_cacheVars
         /\ [MigrationsNext]_migrationVars /\ [RegionsNext]_regionVars
         /\ [RecognizeNext]_recognizeVars
<1>1. CASE UNCHANGED servicesVars
  BY <1>1 DEF servicesVars
<1>2. CASE ServicesNext
  BY <1>2 DEF ServicesNext, Others, Paged, Progressed, Viewed, Extracted, Talked, Cached,
     Upgraded, Filled, Recognized
<1> QED
  BY <1>1, <1>2

\* ... so that every component behaves as it does alone.
LEMMA EachItsSpec ==
  ServicesSpec => /\ PagingSpec /\ ProgressSpec /\ ViewerSpec /\ MetadataSpec /\ ToolSpec
                  /\ CacheSpec /\ MigrationsSpec /\ RegionsSpec /\ RecognizeSpec
BY StartsAll, StepsOne, PTL DEF ServicesSpec, PagingSpec, ProgressSpec, ViewerSpec,
   MetadataSpec, ToolSpec, CacheSpec, MigrationsSpec, RegionsSpec, RecognizeSpec

\* The variables of every component stay in their types, for every value of
\* every constant.
THEOREM ServicesTyped == ServicesSpec => []ServicesTypeOK
<1>1. PagingSpec => []PagingTypeOK
  BY PagingInvariant, PTL DEF PagingInv
<1>2. ViewerSpec => []ViewerTypeOK
  BY ViewerInvariant, PTL DEF ViewerInv
<1>3. RegionsSpec => []RegionsTypeOK
  BY RegionsInvariant, PTL DEF RegionsInv
<1> QED
  BY <1>1, <1>2, <1>3, EachItsSpec, TypesCorrect, TypeCorrect, TypesAndHolding, CacheTypes,
     MigrationTypes, RecognizeTypes, PTL DEF ServicesTypeOK

\* What is proved of each component holds while the others run: every safety
\* property of the pages, the viewer, the progress, the metadata, exiftool, the
\* cache, the upgrades and the texts, all at once and for any instance.
THEOREM ServicesCorrect ==
  ServicesSpec =>
    /\ [](/\ PagesComplete /\ PagesOrdered /\ CountersExact /\ PhaseHonest /\ EtaCountsTasks
          /\ MetadataByPriority /\ AnswersMatch /\ VersionHonest /\ UpgradeSafe
          /\ RegionsAreComponents /\ BatchesRight)
    /\ PhaseForward /\ StepsSkipNothing /\ ImplementsAtomicDir /\ LosersReuse
BY EachItsSpec, PagesShowAll, PagesJoin, CountersCorrect, PhaseCorrect, EtaCorrect,
   PriorityCorrect, AnswersCorrect, VersionCorrect, UpgradeCorrect, RegionsCorrect,
   BatchesCorrect, PhaseNeverGoesBack, StepsCorrect, EnsureIsAtomic, LosersGetTheDirectory, PTL
=============================================================================
