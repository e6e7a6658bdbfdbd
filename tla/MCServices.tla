----------------------------- MODULE MCServices -----------------------------
(* TLC instance of the components that share no state with each other: one *)
(* behaviour moves one of them, so the run explores each of them on its    *)
(* own.                                                                    *)
EXTENDS Paging, Progress, Viewer, Metadata, Exiftool, CacheDir, Migrations,
        OcrRegions, OcrRecognize

VARIABLE focus  \* the component that moves

Components == {"paging", "progress", "viewer", "metadata", "exiftool", "cache",
               "migrations", "regions", "recognize"}

\* by id: two copies of one photo are equally near
MCDistances == <<1, 1, 0>>
\* an instant only, a wall clock west of Greenwich, one from before 1970
MCCaptures == {<<0, 5>>, <<2, 5>>, <<-1, 0>>}

\* every choice of sources of a time, one without any, and every choice of
\* sources of a place
MCUndated ==
  [video : {FALSE}, original : {0}, create : {0}, creation : {0}, creationOffset : {0},
   offset : {Unknown}, zone : {Unknown}, gps : {0}, sony : {0}, snapchat : {0}, google : {0},
   icloud : {0}, icloudOffset : {0}, immich : {0}, immichOffset : {0},
   coordinates : BOOLEAN, googlePlace : BOOLEAN, immichPlace : BOOLEAN,
   city : BOOLEAN, country : BOOLEAN]
MCDated == {f \in
  [video : BOOLEAN, original : {0, 100}, create : {0, 120}, creation : {0, 140},
   creationOffset : {2}, offset : {Unknown, 1}, zone : {Unknown}, gps : {0, 160},
   sony : {0, 180}, snapchat : {0, 200}, google : {0, 220}, icloud : {0, 240},
   icloudOffset : {0, -5}, immich : {0, 260}, immichOffset : {-8},
   coordinates : {FALSE}, googlePlace : {FALSE}, immichPlace : {FALSE},
   city : {FALSE}, country : {FALSE}] :
  f.icloud = 0 => f.icloudOffset = 0}  \* the offset belongs to that date
MCMediaFiles == MCUndated \cup MCDated

\* a repeat, a blank before, and another first class
MCReadings == {<<1, 1>>, <<0, 1>>, <<1, 2>>}

\* A component that does not move has one initial state.
Fixed(component, state) == focus = component \/ (focus # component /\ state)

ServicesInit ==
  /\ focus \in Components
  /\ PagingInit
  /\ Fixed("progress", walk = "queued") /\ ProgressInit
  /\ Fixed("viewer", serverLists = {} /\ current = 1) /\ ViewerInit
  /\ Fixed("metadata", file = CHOOSE f \in MediaFiles : TRUE) /\ MetadataInit
  /\ Fixed("exiftool", nature = [f \in Photos |-> "plain"]) /\ ToolInit
  /\ CacheInit
  /\ Fixed("migrations", db = Release(0, [a \in OldAssets |-> [thumbnail |-> "ok", embedded |-> FALSE]]))
  /\ MigrationsInit
  /\ Fixed("regions", mask = {}) /\ RegionsInit
  /\ Fixed("recognize", /\ widths = [k \in Crops |-> 2] /\ reading = [k \in Crops |-> <<1, 1>>]
                        /\ byWidth = [k \in Crops |-> k])
  /\ RecognizeInit

Paged == focus = "paging" /\ PagingNext
Progressed == focus = "progress" /\ ProgressNext
Viewed == focus = "viewer" /\ ViewerNext
Extracted == focus = "metadata" /\ MetadataNext
Talked == focus = "exiftool" /\ ToolNext
Cached == focus = "cache" /\ CacheNext
Upgraded == focus = "migrations" /\ MigrationsNext
Filled == focus = "regions" /\ RegionsNext
Recognized == focus = "recognize" /\ RecognizeNext

Others(component) ==
  /\ UNCHANGED focus
  /\ component # "paging" => UNCHANGED pagingVars
  /\ component # "progress" => UNCHANGED progressVars
  /\ component # "viewer" => UNCHANGED viewerVars
  /\ component # "metadata" => UNCHANGED metadataVars
  /\ component # "exiftool" => UNCHANGED toolVars
  /\ component # "cache" => UNCHANGED cacheVars
  /\ component # "migrations" => UNCHANGED migrationVars
  /\ component # "regions" => UNCHANGED regionVars
  /\ component # "recognize" => UNCHANGED recognizeVars

ServicesNext ==
  \/ Paged /\ Others("paging")
  \/ Progressed /\ Others("progress")
  \/ Viewed /\ Others("viewer")
  \/ Extracted /\ Others("metadata")
  \/ Talked /\ Others("exiftool")
  \/ Cached /\ Others("cache")
  \/ Upgraded /\ Others("migrations")
  \/ Filled /\ Others("regions")
  \/ Recognized /\ Others("recognize")

servicesVars ==
  <<focus, pagingVars, progressVars, viewerVars, metadataVars, toolVars, cacheVars,
    migrationVars, regionVars, recognizeVars>>

\* Each component with its own fairness.
ServicesSpec ==
  /\ ServicesInit /\ [][ServicesNext]_servicesVars
  /\ WF_pagingVars(focus = "paging" /\ FetchPage)
  /\ WF_progressVars(focus = "progress" /\ Walk)
  /\ WF_progressVars(focus = "progress" /\ Tasks)
  /\ WF_progressVars(focus = "progress" /\ Status)
  /\ WF_viewerVars(focus = "viewer" /\ Prefetch)
  /\ WF_viewerVars(focus = "viewer" /\ PageArrives)
  /\ WF_toolVars(focus = "exiftool" /\ Run)
  /\ WF_toolVars(focus = "exiftool" /\ Child)
  /\ WF_toolVars(focus = "exiftool" /\ Close)

\* The variables of every component stay in their types.
ServicesTypeOK ==
  /\ PagingTypeOK /\ ProgressTypeOK /\ ViewerTypeOK /\ MetadataTypeOK /\ ToolTypeOK
  /\ CacheTypeOK /\ MigrationsTypeOK /\ RegionsTypeOK /\ RecognizeTypeOK
=============================================================================
