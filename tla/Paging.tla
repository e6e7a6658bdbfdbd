------------------------------- MODULE Paging -------------------------------
(***************************************************************************)
(* The pages of GET /api/assets: the keyset queries Query and QuerySimilar *)
(* (internal/repository/asset_repository.go) and the cursors that the API  *)
(* hands out (internal/api/assets.go), while the indexer goes on.          *)
(*                                                                         *)
(* One client asks for page after page; between two pages assets are       *)
(* listed, leave the list, or get other metadata.  The filters of a query  *)
(* are abstracted to whether an asset is listed; SQL's null is a model     *)
(* value, and a comparison with it is not true.                            *)
(***************************************************************************)
EXTENDS Integers, Sequences, FiniteSets, SequencesExt, Ranking

CONSTANTS Ids,          \* the ids of the assets
          Captures,     \* the <<local, utc>> times metadata may have; 0 is "none"
          Distances,    \* Distances[i]: the cosine distance of i to the query
          Limits,       \* the limits a client may ask for
          DefaultLimit, MaxLimit,
          MaxShown,     \* bound: the assets a client may have got (PagingEnds: it is not reached)
          Null          \* SQL's null, and no cursor

ASSUME PagingAssumption ==
  /\ IsFiniteSet(Ids) /\ Ids \subseteq Int
  /\ Captures \subseteq Int \X Int
  /\ Distances \in [Ids -> Int]
  /\ Limits \subseteq Int
  /\ DefaultLimit \in Nat \ {0} /\ MaxLimit \in Nat \ {0} /\ DefaultLimit <= MaxLimit
  /\ Null \notin Int \cup {"date", "similar"} \cup [key : Int, id : Int]
  /\ MaxShown \in Nat

Orders == {"date", "similar"}

VARIABLES
  listed,  \* the assets that are processed, online, and match the filters
  local,   \* assets.date_time_local
  utc,     \* assets.date_time
  order,   \* what the client asks for: the timeline or a similarity search
  limit,   \* and its limit
  cursor,  \* nextCursor of the last page
  shown,   \* what the client has got, in order
  ended,   \* the last page had no cursor
  steady   \* history: the assets listed and unchanged since the first page

table == <<listed, local, utc>>
client == <<order, limit, cursor, shown, ended>>
pagingVars == <<table, client, steady>>

\* Nobody has asked yet.
Fresh == order = Null

PagingInit ==
  /\ listed = {} /\ steady = {}
  /\ local = [i \in Ids |-> Null] /\ utc = [i \in Ids |-> Null]
  /\ order = Null /\ limit = Null
  /\ cursor = Null /\ shown = <<>> /\ ended = FALSE

----------------------------------------------------------------------------
\* The columns

\* UpdateMetadata stores no capture time as null.
Column(time) == IF time = 0 THEN Null ELSE time

\* scanAsset reads null as 0.
Field(column) == IF column = Null THEN 0 ELSE column

\* CaptureTime, on the asset that scanAsset returns.
CaptureTime(i) == IF Field(local[i]) # 0 THEN Field(local[i]) ELSE Field(utc[i])

\* coalesce(a.date_time_local, a.date_time)
Coalesce(i) == IF local[i] # Null THEN local[i] ELSE utc[i]

----------------------------------------------------------------------------
\* The queries

Newer(i, j) ==
  IF Coalesce(i) = Coalesce(j) THEN i > j
  ELSE Coalesce(j) = Null \/ (Coalesce(i) # Null /\ Coalesce(i) > Coalesce(j))

Nearer(i, j) ==
  Distances[i] < Distances[j] \/ (Distances[i] = Distances[j] /\ i < j)

Before(o, i, j) == IF o = "date" THEN Newer(i, j) ELSE Nearer(i, j)

\* Bug form: the page begins with the last asset of the page before.
PastInclusive(o, i, c) ==
  \/ c = Null
  \/ /\ o = "date" /\ Coalesce(i) # Null
     /\ Coalesce(i) < c.key \/ (Coalesce(i) = c.key /\ i <= c.id)
  \/ /\ o = "similar"
     /\ Distances[i] > c.key \/ (Distances[i] = c.key /\ i >= c.id)
\* The where clause of the cursor.
Past(o, i, c) ==
  \/ c = Null
  \/ /\ o = "date" /\ Coalesce(i) # Null
     /\ Coalesce(i) < c.key \/ (Coalesce(i) = c.key /\ i < c.id)
  \/ /\ o = "similar"
     /\ Distances[i] > c.key \/ (Distances[i] = c.key /\ i > c.id)

\* Bug form: the cursor holds the UTC instant.
CursorUTC(o, i) == [key |-> IF o = "date" THEN Field(utc[i]) ELSE Distances[i], id |-> i]
\* Bug form: the cursor holds the column.
CursorColumn(o, i) == [key |-> IF o = "date" THEN Coalesce(i) ELSE Distances[i], id |-> i]
\* encodeCursor and encodeSimilarCursor of the last asset of a page; the text
\* of a number is read back as that number.
CursorAt(o, i) == [key |-> IF o = "date" THEN CaptureTime(i) ELSE Distances[i], id |-> i]

\* clampLimit of the repository ...
ClampLimit(l) == IF l <= 0 THEN DefaultLimit ELSE IF l > MaxLimit THEN MaxLimit ELSE l

\* Bug form: the handler does not know the largest page.
PageSizeUnclamped(l) == IF l <= 0 THEN DefaultLimit ELSE l
\* ... and the same in the handler, to recognise a full page.
PageSize(l) == IF l <= 0 THEN DefaultLimit ELSE IF l > MaxLimit THEN MaxLimit ELSE l

\* Query, QuerySimilar
Query(o, c, l) ==
  LET rows == {i \in listed : Past(o, i, c)}
      count == Cardinality(rows)
      before == {p \in rows \X rows : Before(o, p[1], p[2])}
  IN  SubSeq(Ranked(rows, before), 1, IF count < ClampLimit(l) THEN count ELSE ClampLimit(l))

----------------------------------------------------------------------------
\* The client

\* The first request fixes the order and the limit.
Ask(o, l) ==
  /\ Fresh
  /\ order' = o /\ limit' = l
  /\ steady' = listed
  /\ UNCHANGED <<table, cursor, shown, ended>>

\* One request: a full page carries a cursor at its last asset.
FetchPage ==
  /\ ~Fresh /\ ~ended /\ Len(shown) < MaxShown
  /\ LET found == Query(order, cursor, limit)
     IN  /\ shown' = shown \o found
         /\ IF Len(found) = PageSize(limit)
              THEN cursor' = CursorAt(order, Last(found)) /\ UNCHANGED ended
              ELSE cursor' = Null /\ ended' = TRUE
  /\ UNCHANGED <<table, order, limit, steady>>

----------------------------------------------------------------------------
\* The indexer

Unsettle(i) == steady' = steady \ {i}

\* The last of its steps, or a file that came back, lists an asset.
Listing(i) ==
  /\ i \notin listed /\ ~ended
  /\ listed' = listed \cup {i}
  /\ UNCHANGED <<local, utc, client, steady>>

\* Its last file went offline.
Unlisting(i) ==
  /\ i \in listed /\ ~ended
  /\ listed' = listed \ {i}
  /\ Unsettle(i)
  /\ UNCHANGED <<local, utc, client>>

\* UpdateMetadata, also of a listed asset whose metadata step had failed; a
\* step that is ok never runs again.
Metadata(i, taken) ==
  /\ ~ended
  /\ Coalesce(i) = Null
  /\ local' = [local EXCEPT ![i] = Column(taken[1])]
  /\ utc' = [utc EXCEPT ![i] = Column(taken[2])]
  /\ Unsettle(i)
  /\ UNCHANGED <<listed, client>>

PagingNext ==
  \/ \E o \in Orders, l \in Limits : Ask(o, l)
  \/ FetchPage
  \/ \E i \in Ids : Listing(i) \/ Unlisting(i)
  \/ \E i \in Ids, taken \in Captures : Metadata(i, taken)

PagingSpec == PagingInit /\ [][PagingNext]_pagingVars

\* The client scrolls on.
PagingFairSpec == PagingSpec /\ WF_pagingVars(FetchPage)

----------------------------------------------------------------------------
PagingTypeOK ==
  /\ listed \subseteq Ids /\ steady \subseteq listed
  /\ local \in [Ids -> Int \cup {Null}] /\ utc \in [Ids -> Int \cup {Null}]
  /\ order \in Orders \cup {Null} /\ limit \in Limits \cup {Null}
  /\ cursor \in [key : Int, id : Int] \cup {Null}
  /\ shown \in Seq(Ids)
  /\ ended \in BOOLEAN

ShownTimes(i) == Cardinality({k \in DOMAIN shown : shown[k] = i})
Positioned(i) == order = "similar" \/ Coalesce(i) # Null

\* "Stable keyset pagination": when the last page has come, every asset that
\* was listed all the time and has a place in the order was shown, whatever
\* was listed, removed or changed between the pages.
PagesComplete ==
  ended => \A i \in steady : Positioned(i) => ShownTimes(i) >= 1

\* Pages join in order: the assets that did not change come newest first, or
\* nearest first, so none of them comes twice; one that is undated or from
\* before 1970 may (see AllOnce).
PagesOrdered ==
  \A k, n \in DOMAIN shown :
    k < n /\ shown[k] \in steady /\ shown[n] \in steady
      /\ (order = "date" => \A m \in {k, n} : Coalesce(shown[m]) # Null /\ Coalesce(shown[m]) > 0)
      => Before(order, shown[k], shown[n])

\* Scrolling comes to an end before MaxShown assets, although the library
\* changes for ever: the cursor never goes in circles.
PagingEnds == order # Null ~> ended

\* "Query returns the assets matching the filters ... with stable keyset
\* pagination": every asset listed all the time is shown exactly once.
AllOnce == ended => \A i \in steady : ShownTimes(i) = 1
=============================================================================
