----------------------------- MODULE OcrRegions -----------------------------
(***************************************************************************)
(* connectedRegions (internal/ai/ocr.go): the flood fill that turns the    *)
(* mask of text pixels into boxes.  The pixels of the image are numbered   *)
(* from 0 row by row, as in the code, so that the right neighbour of the   *)
(* last pixel of a row is a number too: that of the next row's first.      *)
(***************************************************************************)
EXTENDS Integers, Sequences, SequencesExt, Ranking

CONSTANTS W, H  \* the size of the mask

ASSUME OcrRegionsAssumption == W \in Nat \ {0} /\ H \in Nat \ {0}

Pixels == 0..W * H - 1

VARIABLES
  mask,     \* the text pixels
  scan,     \* the next pixel from which a region may start
  visited,
  stack,
  region,   \* the pixels of the region that is filled
  regions   \* those that are

regionVars == <<mask, scan, visited, stack, region, regions>>

RegionsInit ==
  /\ mask \in SUBSET Pixels
  /\ scan = 0 /\ visited = {} /\ stack = <<>>
  /\ region = {} /\ regions = {}

Scanned == scan = W * H

ColumnOf(i) == i % W
RowOf(i) == i \div W

\* Bug form: the ends of a row are not looked at.
NeighboursWrapped(i) ==
  {j \in Pixels : \E dx, dy \in -1..1 : j = (RowOf(i) + dy) * W + ColumnOf(i) + dx}
\* The neighbours on the image, and the pixel itself.
Neighbours(i) ==
  {ny * W + nx : nx \in (ColumnOf(i) - 1 .. ColumnOf(i) + 1) \cap (0 .. W - 1),
                 ny \in (RowOf(i) - 1 .. RowOf(i) + 1) \cap (0 .. H - 1)}

\* A pixel of no region starts one.
StartRegion ==
  /\ ~Scanned /\ stack = <<>> /\ region = {}
  /\ IF scan \in mask \ visited
       THEN /\ stack' = <<scan>> /\ visited' = visited \cup {scan}
            /\ UNCHANGED scan
       ELSE scan' = scan + 1 /\ UNCHANGED <<stack, visited>>
  /\ UNCHANGED <<mask, region, regions>>

\* The top of the stack joins the region, and its neighbours the stack.
Fill ==
  /\ stack # <<>>
  /\ LET i == Last(stack)
         new == (Neighbours(i) \cap mask) \ visited
     IN  /\ region' = region \cup {i}
         /\ visited' = visited \cup new
         /\ stack' = Front(stack) \o Ascending(new)
  /\ UNCHANGED <<mask, scan, regions>>

EndRegion ==
  /\ stack = <<>> /\ region # {}
  /\ regions' = regions \cup {region} /\ region' = {}
  /\ scan' = scan + 1
  /\ UNCHANGED <<mask, visited, stack>>

RegionsNext == StartRegion \/ Fill \/ EndRegion
RegionsSpec == RegionsInit /\ [][RegionsNext]_regionVars

RegionsTypeOK ==
  /\ mask \subseteq Pixels /\ visited \subseteq mask /\ region \subseteq visited
  /\ scan \in 0..W * H
  /\ stack \in Seq(visited)
  /\ regions \subseteq SUBSET visited

\* Pixels that touch, also at a corner.
Touch(i, j) == ColumnOf(i) - ColumnOf(j) \in -1..1 /\ RowOf(i) - RowOf(j) \in -1..1

\* The regions are the mask taken apart where nothing touches: they cover it,
\* no two touch or share a pixel, and none falls into parts that do not touch.
RegionsAreComponents ==
  Scanned =>
    /\ UNION regions = mask
    /\ \A r, s \in regions : r # s => \A i \in r, j \in s : ~Touch(i, j)
    /\ \A r \in regions : \A part \in (SUBSET r) \ {{}, r} :
         \E i \in part, j \in r \ part : Touch(i, j)
=============================================================================
