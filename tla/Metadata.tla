------------------------------ MODULE Metadata ------------------------------
(***************************************************************************)
(* What processMetadata (internal/tasks/metadata.go) makes of a file: the  *)
(* tags that ProbeMetadata reads (internal/clients/exiftool/exiftool.go),  *)
(* the four sidecars, which overwrite them and each other in a fixed order *)
(* (internal/tasks/metadata_sidecars.go), and the geocoded city.           *)
(*                                                                         *)
(* A time is a number, and 0 is none, as in the code.  A wall clock is the *)
(* instant at which a clock in Greenwich would show it.  Of tags that are  *)
(* read alike one is kept; one that does not parse counts as missing.      *)
(* Coordinates are named after where they come from.                       *)
(***************************************************************************)
EXTENDS Integers

CONSTANTS
  MediaFiles,  \* the files with their sidecars
  Unknown    \* no zone, no place, no city

Offsets == -14..14

Source == [
  video : BOOLEAN,
  original : Int,      \* DateTimeOriginal: a wall clock
  create : Int,        \* CreateDate and its like: of a still a wall clock, else an instant
  creation : Int,      \* CreationDate: an instant,
  creationOffset : Offsets,  \* with its offset
  offset : Offsets \cup {Unknown},    \* OffsetTime*
  zone : Offsets \cup {Unknown},      \* TimeZone
  gps : Int,           \* GPSDateTime: an instant
  sony : Int,          \* DateTimeUTC, SonyDateTime2: an instant
  snapchat : Int,      \* the day in the file's name: a wall clock
  google : Int,        \* an instant
  icloud : Int, icloudOffset : Offsets,
  immich : Int, immichOffset : Offsets,
  coordinates : BOOLEAN, googlePlace : BOOLEAN, immichPlace : BOOLEAN,
  city : BOOLEAN, country : BOOLEAN]  \* tags

ASSUME MetadataAssumption ==
  /\ MediaFiles \subseteq Source
  /\ Unknown \notin Offsets /\ Unknown \notin {"file", "google", "immich", "tag"}

VARIABLES
  file,
  stage,  \* the function that comes next
  localTime, utcTime, zone,  \* LocalDateTime, DateTime, TimeZone
  position,  \* whose coordinates: "file", "google", "immich", or none
  city, country  \* of a place, or as "tag" gives them, or none

metadataVars == <<file, stage, localTime, utcTime, zone, position, city, country>>

Origins == {"file", "google", "immich"}

MetadataInit ==
  /\ file \in MediaFiles
  /\ stage = "probe"
  /\ localTime = 0 /\ utcTime = 0 /\ zone = Unknown
  /\ position = Unknown /\ city = Unknown /\ country = Unknown

Then(here, there) == stage = here /\ stage' = there
TimesKept == UNCHANGED <<localTime, utcTime, zone>>
PlaceKept == UNCHANGED <<position, city, country>>

\* The first that is known.
Either(a, b) == IF a # 0 THEN a ELSE b

----------------------------------------------------------------------------
\* ProbeMetadata

\* The first wall clock; of a video CreateDate is none.
Wall(f) == Either(f.original, IF f.video THEN 0 ELSE f.create)
CreationZoned(f) == Wall(f) = 0 /\ f.creation # 0

\* Instants of UTC tags, when nothing above gives a time.
Fallback(f) == Either(f.gps, f.sony)

ProbedLocal(f) == IF Wall(f) # 0 THEN Wall(f) ELSE f.creation
ProbedUTC(f) ==
  IF Wall(f) # 0 THEN IF f.offset # Unknown THEN Wall(f) - f.offset ELSE 0
  ELSE IF CreationZoned(f) THEN f.creation - f.creationOffset
  ELSE IF f.video THEN Either(f.create, f.sony)
  ELSE 0
ProbedZone(f) ==
  IF f.offset # Unknown THEN f.offset
  ELSE IF f.zone = Unknown /\ CreationZoned(f) THEN f.creationOffset
  ELSE f.zone

Probe ==
  /\ Then("probe", "snapchat")
  /\ localTime' = ProbedLocal(file)
  /\ utcTime' = IF ProbedUTC(file) = 0 /\ ProbedLocal(file) = 0
              THEN Fallback(file) ELSE ProbedUTC(file)
  /\ zone' = ProbedZone(file)
  /\ position' = IF file.coordinates THEN "file" ELSE Unknown
  /\ \E place \in {position', Unknown} : \* exiftool may know no city there
       /\ city' = IF file.city THEN "tag" ELSE place
       /\ country' = IF file.country THEN "tag" ELSE place
  /\ UNCHANGED file

----------------------------------------------------------------------------
\* applySidecars

\* Of the last resort: only a day, and its time is midnight.
ApplySnapchat ==
  /\ Then("snapchat", "google")
  /\ localTime' = IF localTime = 0 /\ utcTime = 0 THEN file.snapchat ELSE localTime
  /\ UNCHANGED <<file, utcTime, zone>> /\ PlaceKept

ApplyGoogle ==
  /\ Then("google", "icloud")
  /\ utcTime' = Either(file.google, utcTime)
  /\ position' = IF file.googlePlace THEN "google" ELSE position
  /\ UNCHANGED <<file, localTime, zone, city, country>>

\* Bug form: it does not stop when the instant is known.
ApplyICloudAlways ==
  /\ Then("icloud", "immich")
  /\ IF file.icloud = 0 THEN TimesKept
     ELSE /\ utcTime' = file.icloud
          /\ IF file.icloudOffset = 0 THEN UNCHANGED <<localTime, zone>>
             ELSE /\ localTime' = Either(localTime, file.icloud + file.icloudOffset)
                  /\ zone' = IF zone = Unknown THEN file.icloudOffset ELSE zone
  /\ UNCHANGED file /\ PlaceKept
\* Only a zone other than Greenwich says what the wall clock showed.
ApplyICloud ==
  /\ Then("icloud", "immich")
  /\ IF utcTime # 0 \/ file.icloud = 0 THEN TimesKept
     ELSE /\ utcTime' = file.icloud
          /\ IF file.icloudOffset = 0 THEN UNCHANGED <<localTime, zone>>
             ELSE /\ localTime' = Either(localTime, file.icloud + file.icloudOffset)
                  /\ zone' = IF zone = Unknown THEN file.icloudOffset ELSE zone
  /\ UNCHANGED file /\ PlaceKept

ApplyImmich ==
  /\ Then("immich", "geocode")
  /\ IF file.immich = 0 THEN TimesKept
     ELSE /\ localTime' = file.immich + file.immichOffset
          /\ utcTime' = file.immich
          /\ zone' = IF file.immichOffset # 0 /\ zone = Unknown THEN file.immichOffset ELSE zone
  /\ position' = IF file.immichPlace THEN "immich" ELSE position
  /\ UNCHANGED <<file, city, country>>

\* Both are looked up when one is missing, and both overwritten, also with
\* nothing; an error is only logged.
ApplyCityCountry ==
  /\ Then("geocode", "done")
  /\ \/ /\ position # Unknown /\ (city = Unknown \/ country = Unknown)
        /\ city' \in {position, Unknown} /\ country' = city'
     \/ UNCHANGED <<city, country>>
  /\ UNCHANGED <<file, position>> /\ TimesKept

MetadataNext ==
  Probe \/ ApplySnapchat \/ ApplyGoogle \/ ApplyICloud \/ ApplyImmich \/ ApplyCityCountry

MetadataSpec == MetadataInit /\ [][MetadataNext]_metadataVars

----------------------------------------------------------------------------
MetadataTypeOK ==
  /\ file \in MediaFiles
  /\ stage \in {"probe", "snapchat", "google", "icloud", "immich", "geocode", "done"}
  /\ localTime \in Int /\ utcTime \in Int /\ zone \in Offsets \cup {Unknown}
  /\ position \in Origins \cup {Unknown}
  /\ {city, country} \subseteq Origins \cup {Unknown, "tag"}

\* Who wins, said once for all sidecars.  An instant: Immich, Google, the
\* file, iCloud.  Of the file: the camera's own clock, then the UTC tags, the
\* GPS one first ("DateTimeUTC and SonyDateTime2 are also plain UTC instants,
\* kept after GPSDateTime").
EmbeddedUTC(f) ==
  IF Wall(f) # 0 THEN IF f.offset = Unknown THEN 0 ELSE Wall(f) - f.offset
  ELSE Either(IF f.video THEN f.create ELSE 0, Either(f.gps, f.sony))
BestUTC(f) == Either(f.immich, Either(f.google, Either(EmbeddedUTC(f), f.icloud)))

\* A wall clock: Immich, the file, Snapchat if the file has no time at all,
\* and iCloud if it knows its zone and nobody before it knows the instant.
ICloudWall(f) ==
  IF f.icloud # 0 /\ f.icloudOffset # 0 /\ Either(f.google, EmbeddedUTC(f)) = 0
    THEN f.icloud + f.icloudOffset ELSE 0
SnapchatWall(f) == IF EmbeddedUTC(f) = 0 THEN f.snapchat ELSE 0
BestLocal(f) ==
  IF f.immich # 0 THEN f.immich + f.immichOffset
  ELSE Either(Wall(f), Either(SnapchatWall(f), ICloudWall(f)))

\* Two comments say more than the code does, and their files are left out.
\* Of a video without a time of its own clock the other UTC tags pass GPS,
\* against the comment above; and a wall clock of the file, or the day of
\* Snapchat, stays beside the instant of a Google sidecar, although "the
\* sidecar time is authoritative" (applyGoogleSidecar).
GpsPassedOver(f) ==
  /\ f.video /\ Wall(f) = 0 /\ f.create = 0 /\ f.gps # 0 /\ f.sony # 0
  /\ f.immich = 0 /\ f.google = 0
WallBesideGoogle(f) ==
  f.google # 0 /\ f.immich = 0 /\ Either(Wall(f), SnapchatWall(f)) # 0

\* The four functions, each of which looks at what the others left, come to
\* that.  (What CreationDate gives is the next property's.)
CaptureByPriority ==
  stage = "done" /\ ~CreationZoned(file) =>
    /\ ~GpsPassedOver(file) => utcTime = BestUTC(file)
    /\ ~WallBesideGoogle(file) => localTime = BestLocal(file)

\* "CreationDate carries the wall clock together with its UTC offset, so it
\* fills both columns": the wall clock is ahead of the instant by the offset.
CreationFillsBoth ==
  stage = "snapchat" /\ CreationZoned(file) =>
    utcTime = file.creation /\ localTime = file.creation + file.creationOffset

\* City and country are of one place, unless a tag of the file gives one of
\* them; and they are of the place whose coordinates are stored, if the file
\* brings no coordinates itself.
CityOfOnePlace ==
  stage = "done" =>
    /\ ~file.city /\ ~file.country => city = country
    /\ {city, country} \cap Origins # {} /\ ~file.coordinates
         => city = position /\ country = position

\* What is stored does not depend on more than who outranks whom.
MetadataByPriority == CaptureByPriority /\ CityOfOnePlace
=============================================================================
