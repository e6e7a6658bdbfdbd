---------------------------- MODULE ClientProofs ----------------------------
(***************************************************************************)
(* Proofs about what a client is shown: the pages of a listing (Paging),   *)
(* the viewer that steps through them (Viewer), the progress of the run    *)
(* (Progress), and the texts that are read from the photos, region by      *)
(* region (OcrRegions) and crop by crop (OcrRecognize).                    *)
(***************************************************************************)
EXTENDS Paging, Viewer, Progress, OcrRegions, OcrRecognize, RankingProofs, FiniteSetTheorems, TLAPS

----------------------------------------------------------------------------
(* The pages of the timeline and of a search                               *)

USE PagingAssumption

\* Both orders leave no two assets tied: the id decides.
LEMMA OrdersAreStrict ==
  ASSUME PagingTypeOK, NEW o \in Orders, NEW S \in SUBSET Ids
  PROVE  IsStrictOrder(S, {p \in S \X S : Before(o, p[1], p[2])})
<1> DEFINE less == {p \in S \X S : Before(o, p[1], p[2])}
<1>1. \A x, y \in S : <<x, y>> \in less <=> Before(o, x, y)
  OBVIOUS
<1>2. \A x \in S : x \in Int /\ Coalesce(x) \in Int \cup {Null} /\ Distances[x] \in Int
  BY DEF PagingTypeOK, Coalesce
<1>3. CASE o = "date"
  BY <1>1, <1>2, <1>3 DEF IsStrictOrder, Before, Newer
<1>4. CASE o = "similar"
  BY <1>1, <1>2, <1>4 DEF IsStrictOrder, Before, Nearer
<1> QED
  BY <1>3, <1>4 DEF Orders

\* A page holds the first rows behind the cursor, in order; it leaves rows
\* behind only when it is full, and then only rows after its last one.
LEMMA QueryReturns ==
  ASSUME PagingTypeOK, NEW o \in Orders, NEW c, NEW l \in Int
  PROVE  LET rows == {i \in listed : Past(o, i, c)}
             page == Query(o, c, l)
         IN  /\ page \in Seq(rows)
             /\ \A i, j \in DOMAIN page : i < j => Before(o, page[i], page[j])
             /\ \A x \in rows : \/ \E k \in DOMAIN page : page[k] = x
                                \/ /\ Len(page) = ClampLimit(l)
                                   /\ Before(o, Last(page), x)
<1> DEFINE rows == {i \in listed : Past(o, i, c)}
           less == {p \in rows \X rows : Before(o, p[1], p[2])}
           n == Cardinality(rows)
           all == Ranked(rows, less)
           m == IF n < ClampLimit(l) THEN n ELSE ClampLimit(l)
           page == Query(o, c, l)
<1>1. ClampLimit(l) \in Nat \ {0}
  BY DEF ClampLimit
<1>2. rows \in SUBSET Ids /\ IsFiniteSet(rows)
  BY FS_Subset DEF PagingTypeOK
<1>3. IsStrictOrder(rows, less)
  BY <1>2, OrdersAreStrict
<1>5. page = SubSeq(all, 1, m)
  BY DEF Query
<1>b. \A x, y : <<x, y>> \in less => Before(o, x, y)
  OBVIOUS
<1> HIDE DEF rows, less
<1>4. /\ n \in Nat /\ all \in [1..n -> rows]
      /\ \A x \in rows : \E k \in 1..n : all[k] = x
      /\ \A i, j \in 1..n : i < j => <<all[i], all[j]>> \in less
  BY <1>2, <1>3, RankedSorts
<1> HIDE DEF n, all, page
<1>6. m \in 0..n /\ m <= ClampLimit(l) /\ (m < n => m = ClampLimit(l))
  BY <1>1, <1>4
<1> HIDE DEF m
<1>7. /\ page \in Seq(rows) /\ Len(page) = m /\ DOMAIN page = 1..m
      /\ \A k \in 1..m : page[k] = all[k]
  <2>1. all \in Seq(rows) /\ Len(all) = n
    BY <1>4
  <2>2. SubSeq(all, 1, m) = [k \in 1..m |-> all[k]]
    BY <1>6, <2>1
  <2>3. page = [k \in 1..m |-> all[k]]
    BY <1>5, <2>2
  <2>4. page \in Seq(rows)
    BY <1>4, <1>6, <2>3
  <2> QED
    BY <1>4, <1>6, <2>3, <2>4
<1>8. ASSUME NEW x \in rows
      PROVE  \/ \E k \in DOMAIN page : page[k] = x
             \/ Len(page) = ClampLimit(l) /\ Before(o, Last(page), x)
  <2>1. PICK k \in 1..n : all[k] = x
    BY <1>4
  <2>2. CASE k <= m
    BY <1>6, <1>7, <2>1, <2>2
  <2>3. CASE ~(k <= m)
    <3>1. m < k /\ m < n /\ m = ClampLimit(l) /\ m \in 1..n
      BY <1>1, <1>4, <1>6, <2>1, <2>3
    <3>2. <<all[m], all[k]>> \in less
      BY <1>4, <3>1
    <3> QED
      BY <1>7, <1>b, <2>1, <3>1, <3>2 DEF Last
  <2> QED
    BY <2>2, <2>3
<1>9. ASSUME NEW i \in DOMAIN page, NEW j \in DOMAIN page, i < j
      PROVE  Before(o, page[i], page[j])
  <2>1. i \in 1..n /\ j \in 1..n
    BY <1>4, <1>6, <1>7, <1>9
  <2>2. <<all[i], all[j]>> \in less
    BY <1>4, <1>9, <2>1
  <2> QED
    BY <1>7, <1>b, <2>2
<1>10. page \in Seq(rows)
  BY <1>7
<1> QED
  BY <1>8, <1>9, <1>10 DEF rows, page

IsShown(i) == \E k \in DOMAIN shown : shown[k] = i

\* The columns never hold 0; the first page has no cursor, and every later
\* one has.
PagingInv ==
  /\ PagingTypeOK
  /\ Fresh => cursor = Null /\ ~ended
  /\ ~Fresh => limit \in Limits
  /\ \A i \in Ids : local[i] # 0
  /\ ~ended /\ cursor = Null => shown = <<>>

\* An asset listed all the time was shown, or is behind the cursor.
CompleteInv ==
  ~Fresh => \A i \in steady : Positioned(i) =>
              IsShown(i) \/ (~ended /\ Past(order, i, cursor))

\* What PagesOrdered speaks of.
Dated(i) == i \in steady /\ (order = "date" => Coalesce(i) # Null /\ Coalesce(i) > 0)

\* The place of i is that of the cursor, or before it.
NotPast(i, c) ==
  /\ order = "date" => Coalesce(i) > c.key \/ (Coalesce(i) = c.key /\ i >= c.id)
  /\ order = "similar" => Distances[i] < c.key \/ (Distances[i] = c.key /\ i <= c.id)

OrderedInv ==
  /\ \A k, n \in DOMAIN shown :
       k < n /\ Dated(shown[k]) /\ Dated(shown[n]) => Before(order, shown[k], shown[n])
  /\ ~ended /\ cursor # Null =>
       \A k \in DOMAIN shown : Dated(shown[k]) => NotPast(shown[k], cursor)

LEMMA PagingStart == PagingInit => PagingInv /\ CompleteInv /\ OrderedInv
<1> SUFFICES ASSUME PagingInit PROVE PagingInv /\ CompleteInv /\ OrderedInv
  OBVIOUS
<1>1. /\ order = Null /\ cursor = Null /\ ~ended /\ listed = {} /\ steady = {}
      /\ limit = Null /\ shown = <<>> /\ ended \in BOOLEAN
  BY DEF PagingInit
<1>4. shown \in Seq(Ids) /\ Len(shown) = 0
  BY <1>1
<1>5. DOMAIN shown = {}
  BY <1>4
<1>2. \A i \in Ids : local[i] = Null /\ Null # 0
  BY DEF PagingInit
<1>3. local \in [Ids -> Int \cup {Null}] /\ utc \in [Ids -> Int \cup {Null}]
  BY DEF PagingInit
<1> QED
  BY <1>1, <1>2, <1>3, <1>4, <1>5 DEF PagingInv, PagingTypeOK, Fresh, CompleteInv, OrderedInv

\* The key of an asset that has a place in the order is that place.
LEMMA CursorKeys ==
  ASSUME PagingInv, ~Fresh, NEW i \in Ids
  PROVE  /\ CursorAt(order, i) \in [key : Int, id : Int]
         /\ CursorAt(order, i) # Null
         /\ CursorAt(order, i).id = i
         /\ order = "date" /\ Coalesce(i) # Null => CursorAt(order, i).key = Coalesce(i)
         /\ order = "date" /\ Coalesce(i) = Null => CursorAt(order, i).key = 0
         /\ order = "similar" => CursorAt(order, i).key = Distances[i]
<1>1. local[i] \in Int \cup {Null} /\ utc[i] \in Int \cup {Null} /\ local[i] # 0 /\ i \in Int
      /\ Distances[i] \in Int
  BY DEF PagingInv, PagingTypeOK
<1>2. CaptureTime(i) \in Int
  BY <1>1 DEF CaptureTime, Field
<1>3. CursorAt(order, i) \in [key : Int, id : Int]
  BY <1>1, <1>2 DEF CursorAt
<1>4. CursorAt(order, i) # Null
  BY <1>3
<1> QED
  BY <1>1, <1>3, <1>4 DEF CursorAt, CaptureTime, Coalesce, Field

\* A page is all that follows the cursor, so nothing can come before it later.
LEMMA FetchPageStep ==
  ASSUME PagingInv, CompleteInv, OrderedInv, FetchPage
  PROVE  PagingInv' /\ CompleteInv' /\ OrderedInv'
<1> DEFINE rows == {i \in listed : Past(order, i, cursor)}
           found == Query(order, cursor, limit)
<1>1. PagingTypeOK /\ order \in Orders /\ limit \in Int /\ ~Fresh /\ ~ended
  BY DEF FetchPage, PagingInv, PagingTypeOK, Fresh
<1>2. /\ found \in Seq(rows)
      /\ \A i, j \in DOMAIN found : i < j => Before(order, found[i], found[j])
      /\ \A x \in rows : \/ \E k \in DOMAIN found : found[k] = x
                         \/ /\ Len(found) = ClampLimit(limit)
                            /\ Before(order, Last(found), x)
  BY <1>1, QueryReturns
<1>3. /\ shown' = shown \o found
      /\ IF Len(found) = PageSize(limit)
           THEN cursor' = CursorAt(order, Last(found)) /\ UNCHANGED ended
           ELSE cursor' = Null /\ ended' = TRUE
      /\ UNCHANGED <<listed, local, utc, order, limit, steady>>
  BY DEF FetchPage, table
<1>4. PageSize(limit) = ClampLimit(limit) /\ PageSize(limit) \in Nat \ {0}
  BY <1>1 DEF PageSize, ClampLimit
<1> HIDE DEF found
<1>5. /\ rows \subseteq Ids /\ found \in Seq(Ids) /\ shown \in Seq(Ids)
      /\ DOMAIN found = 1..Len(found) /\ Len(found) \in Nat
      /\ \A k \in DOMAIN found : found[k] \in rows
  <2>1. rows \subseteq Ids /\ shown \in Seq(Ids)
    BY <1>1 DEF PagingTypeOK
  <2> HIDE DEF rows
  <2>2. /\ DOMAIN found = 1..Len(found) /\ Len(found) \in Nat
        /\ found \in [1..Len(found) -> rows]
    BY <1>2
  <2>3. found \in [1..Len(found) -> Ids]
    BY <2>1, <2>2
  <2>4. found \in Seq(Ids)
    BY <2>2, <2>3
  <2> QED
    BY <2>1, <2>2, <2>4
<1>6. /\ shown' \in Seq(Ids) /\ Len(shown') = Len(shown) + Len(found)
      /\ \A k \in 1..Len(shown) : shown'[k] = shown[k]
      /\ \A k \in 1..Len(found) : shown'[Len(shown) + k] = found[k]
      /\ DOMAIN shown = 1..Len(shown) /\ DOMAIN found = 1..Len(found)
      /\ Len(shown) \in Nat /\ Len(found) \in Nat
      /\ DOMAIN shown' = 1..Len(shown) + Len(found)
  BY <1>3, <1>5
<1>7. ~ended' => /\ Len(found) = ClampLimit(limit) /\ Len(found) \in DOMAIN found
                 /\ Last(found) = found[Len(found)] /\ Last(found) \in rows
                 /\ cursor' = CursorAt(order, Last(found)) /\ cursor' # Null
                 /\ cursor' \in [key : Int, id : Int]
  <2> SUFFICES ASSUME ~ended'
               PROVE  /\ Len(found) = ClampLimit(limit) /\ Len(found) \in DOMAIN found
                      /\ Last(found) = found[Len(found)] /\ Last(found) \in rows
                      /\ cursor' = CursorAt(order, Last(found)) /\ cursor' # Null
                      /\ cursor' \in [key : Int, id : Int]
    OBVIOUS
  <2> HIDE DEF rows
  <2>1. Len(found) = PageSize(limit) /\ cursor' = CursorAt(order, Last(found))
    BY <1>3
  <2>2. Len(found) \in DOMAIN found /\ Last(found) = found[Len(found)] /\ Last(found) \in rows
    BY <1>4, <1>5, <2>1 DEF Last
  <2> QED
    BY <1>1, <1>4, <1>5, <2>1, <2>2, CursorKeys
<1>8. PagingInv'
  <2>1. cursor' \in [key : Int, id : Int] \cup {Null} /\ ended' \in BOOLEAN
    <3>1. CASE Len(found) = PageSize(limit)
      <4>1. ~ended' /\ ended' = ended
        BY <1>1, <1>3, <3>1
      <4> QED
        BY <1>1, <1>7, <4>1 DEF PagingTypeOK
    <3>2. CASE Len(found) # PageSize(limit)
      BY <1>3, <3>2
    <3> QED
      BY <3>1, <3>2
  <2> QED
    BY <1>1, <1>3, <1>6, <1>7, <2>1 DEF PagingInv, PagingTypeOK, Fresh
<1> USE DEF Coalesce
<1>9. CompleteInv'
  <2> SUFFICES ASSUME NEW i \in steady, Positioned(i), ~IsShown(i)'
               PROVE  ~ended' /\ Past(order, i, cursor')
    BY <1>3 DEF CompleteInv, Positioned, Past, Fresh
  <2>1. ~IsShown(i) /\ \A k \in DOMAIN found : found[k] # i
    BY <1>6 DEF IsShown
  <2>2. i \in rows /\ i \in Ids /\ i \in Int
    BY <1>1, <2>1 DEF CompleteInv, PagingTypeOK
  <2>3. Len(found) = ClampLimit(limit) /\ Before(order, Last(found), i)
    BY <1>2, <2>1, <2>2
  <2>4. ~ended'
    BY <1>1, <1>3, <1>4, <2>3
  <2> DEFINE j == Last(found)
  <2>5. j \in Ids /\ j \in Int /\ Before(order, j, i) /\ cursor' = CursorAt(order, j)
    BY <1>5, <1>7, <2>3, <2>4
  <2> HIDE DEF j
  <2>6. Past(order, i, cursor')
    <3>1. CASE order = "date"
      BY <1>1, <2>2, <2>5, <3>1, CursorKeys DEF Positioned, Past, Before, Newer, PagingTypeOK
    <3>2. CASE order = "similar"
      BY <1>1, <2>2, <2>5, <3>2, CursorKeys DEF Past, Before, Nearer
    <3> QED
      BY <1>1, <3>1, <3>2 DEF Orders
  <2> QED
    BY <2>4, <2>6
<1>10. OrderedInv'
  <2>1. \A i : Dated(i)' <=> Dated(i)
    BY <1>3 DEF Dated
  <2>2. \A k \in DOMAIN found : Dated(found[k]) => Past(order, found[k], cursor)
    BY <1>5
  <2>3. \A k, n \in DOMAIN shown' : k < n /\ Dated(shown'[k]) /\ Dated(shown'[n])
                                   => Before(order, shown'[k], shown'[n])
    <3> SUFFICES ASSUME NEW k \in DOMAIN shown', NEW n \in DOMAIN shown', k < n,
                        Dated(shown'[k]), Dated(shown'[n])
                 PROVE  Before(order, shown'[k], shown'[n])
      OBVIOUS
    <3>1. CASE n \in 1..Len(shown)
      <4>1. k \in 1..Len(shown) /\ shown'[k] = shown[k] /\ shown'[n] = shown[n]
        BY <1>6, <3>1
      <4> QED
        BY <1>6, <3>1, <4>1 DEF OrderedInv
    <3>2. CASE k \in 1..Len(shown) /\ n \notin 1..Len(shown)
      <4>1. PICK m \in DOMAIN found : shown'[n] = found[m]
        <5>1. n - Len(shown) \in 1..Len(found) /\ n = Len(shown) + (n - Len(shown))
          BY <1>6, <3>2
        <5> QED
          BY <1>6, <5>1
      <4> DEFINE x == shown[k]
                 y == found[m]
      <4>2. Dated(x) /\ Dated(y) /\ Past(order, y, cursor) /\ x \in Ids /\ y \in Ids
        BY <1>5, <1>6, <2>2, <3>2, <4>1
      <4>3. cursor # Null
        BY <1>1, <1>6, <3>2 DEF PagingInv
      <4>4. NotPast(x, cursor)
        BY <1>1, <1>6, <3>2, <4>2, <4>3 DEF OrderedInv
      <4> HIDE DEF x, y
      <4>5. Before(order, x, y)
        BY <1>1, <4>2, <4>3, <4>4 DEF Orders, Before, Newer, Nearer, NotPast, Past, Dated,
           PagingTypeOK
      <4> QED
        BY <1>6, <3>2, <4>1, <4>5 DEF x, y
    <3>3. CASE k \notin 1..Len(shown)
      <4>1. /\ k - Len(shown) \in DOMAIN found /\ n - Len(shown) \in DOMAIN found
            /\ k - Len(shown) < n - Len(shown)
            /\ k = Len(shown) + (k - Len(shown)) /\ n = Len(shown) + (n - Len(shown))
        BY <1>6, <3>3
      <4>2. shown'[k] = found[k - Len(shown)] /\ shown'[n] = found[n - Len(shown)]
        BY <1>6, <4>1
      <4> QED
        BY <1>2, <4>1, <4>2
    <3> QED
      BY <3>1, <3>2, <3>3
  <2>4. ASSUME ~ended', NEW k \in DOMAIN shown', Dated(shown'[k])
        PROVE  NotPast(shown'[k], cursor')
    <3> DEFINE last == Last(found)
               x == shown'[k]
    <3>1. /\ last \in Ids /\ Past(order, last, cursor) /\ x \in Ids
          /\ cursor' = CursorAt(order, last)
      BY <1>5, <1>6, <1>7, <2>4
    <3>2. \/ cursor # Null /\ NotPast(x, cursor)
          \/ x = last
          \/ Before(order, x, last)
      <4>1. CASE k \in 1..Len(shown)
        <5>1. cursor # Null /\ shown'[k] = shown[k] /\ k \in DOMAIN shown
          BY <1>1, <1>6, <4>1 DEF PagingInv
        <5> QED
          BY <1>1, <2>4, <5>1 DEF OrderedInv
      <4>2. CASE k \notin 1..Len(shown)
        <5>1. k - Len(shown) \in DOMAIN found /\ k = Len(shown) + (k - Len(shown))
          BY <1>6, <4>2
        <5>2. shown'[k] = found[k - Len(shown)] /\ k - Len(shown) <= Len(found)
          BY <1>6, <5>1
        <5> QED
          BY <1>2, <1>6, <1>7, <2>4, <5>1, <5>2
      <4> QED
        BY <4>1, <4>2
    <3>3. Dated(x)
      BY <2>4
    <3> HIDE DEF last, x
    <3>4. NotPast(x, cursor')
      <4>1. CASE order = "date"
        BY <1>1, <3>1, <3>2, <3>3, <4>1, CursorKeys
           DEF Before, Newer, NotPast, Past, Dated, PagingTypeOK
      <4>2. CASE order = "similar"
        BY <1>1, <3>1, <3>2, <3>3, <4>2, CursorKeys
           DEF Before, Nearer, NotPast, Past, PagingTypeOK
      <4> QED
        BY <1>1, <4>1, <4>2 DEF Orders
    <3> QED
      BY <3>4 DEF x
  <2> QED
    <3>2. /\ \A i, j : Newer(i, j)' <=> Newer(i, j)
          /\ order' = order
      BY <1>3 DEF Newer
    <3>3. \A i, j : Before(order, i, j)' <=> Before(order, i, j)
      BY <3>2 DEF Before, Nearer
    <3>4. \A i : NotPast(i, cursor)' <=> NotPast(i, cursor')
      BY <1>3 DEF NotPast
    <3> QED
      BY <2>1, <2>3, <2>4, <3>3, <3>4 DEF OrderedInv
<1> QED
  BY <1>8, <1>9, <1>10

\* What the indexer does between two pages: an asset whose place changes is
\* not steady any more.
LEMMA IndexerStep ==
  ASSUME PagingInv, CompleteInv, OrderedInv, NEW i \in Ids,
         Listing(i) \/ Unlisting(i) \/ \E taken \in Captures : Metadata(i, taken)
  PROVE  PagingInv' /\ CompleteInv' /\ OrderedInv'
<1>t. PagingTypeOK
  BY DEF PagingInv
<1>1. /\ UNCHANGED <<order, limit, cursor, shown, ended>>
      /\ steady' \subseteq steady /\ steady' \subseteq listed' /\ listed' \subseteq Ids
  BY <1>t DEF Listing, Unlisting, Metadata, Unsettle, client, PagingTypeOK
<1>2. /\ local' \in [Ids -> Int \cup {Null}] /\ utc' \in [Ids -> Int \cup {Null}]
      /\ \A j \in Ids : local'[j] # 0
      /\ \A j \in steady' : local'[j] = local[j] /\ utc'[j] = utc[j]
  <2>1. CASE Listing(i) \/ Unlisting(i)
    BY <1>t, <2>1 DEF Listing, Unlisting, PagingInv, PagingTypeOK
  <2>2. ASSUME NEW taken \in Captures, Metadata(i, taken)
        PROVE  /\ local' \in [Ids -> Int \cup {Null}] /\ utc' \in [Ids -> Int \cup {Null}]
               /\ \A j \in Ids : local'[j] # 0
               /\ \A j \in steady' : local'[j] = local[j] /\ utc'[j] = utc[j]
    <3>1. /\ Column(taken[1]) \in (Int \cup {Null}) \ {0}
          /\ Column(taken[2]) \in Int \cup {Null}
      BY DEF Column
    <3>2. /\ local' = [local EXCEPT ![i] = Column(taken[1])]
          /\ utc' = [utc EXCEPT ![i] = Column(taken[2])]
          /\ steady' = steady \ {i}
      BY <2>2 DEF Metadata, Unsettle
    <3> QED
      BY <1>t, <3>1, <3>2 DEF PagingInv, PagingTypeOK
  <2> QED
    BY <2>1, <2>2
<1>3. \A j \in steady' : Coalesce(j)' = Coalesce(j)
  BY <1>2 DEF Coalesce
<1>4. PagingInv'
  BY <1>t, <1>1, <1>2 DEF PagingInv, PagingTypeOK, Fresh
<1>5. CompleteInv'
  <2>1. \A j \in steady' : (Positioned(j)' <=> Positioned(j))
                           /\ (Past(order, j, cursor)' <=> Past(order, j, cursor))
    BY <1>1, <1>3 DEF Positioned, Past
  <2> QED
    BY <1>1, <2>1 DEF CompleteInv, Fresh, IsShown
<1>6. OrderedInv'
  <2>1. \A j : Dated(j)' => Dated(j) /\ Coalesce(j)' = Coalesce(j)
    BY <1>1, <1>3 DEF Dated
  <2>2. \A j, k : Dated(j)' /\ Dated(k)' => (Before(order, j, k)' <=> Before(order, j, k))
    BY <1>1, <2>1 DEF Before, Newer, Nearer
  <2>3. \A j : Dated(j)' => (NotPast(j, cursor)' <=> NotPast(j, cursor))
    BY <1>1, <2>1 DEF NotPast
  <2> QED
    BY <1>1, <2>1, <2>2, <2>3 DEF OrderedInv
<1> QED
  BY <1>4, <1>5, <1>6

\* One step per action of the listing and of the indexer.
LEMMA PagingStep ==
  PagingInv /\ CompleteInv /\ OrderedInv /\ [PagingNext]_pagingVars
    => PagingInv' /\ CompleteInv' /\ OrderedInv'
<1> SUFFICES ASSUME PagingInv, CompleteInv, OrderedInv, [PagingNext]_pagingVars
             PROVE  PagingInv' /\ CompleteInv' /\ OrderedInv'
  OBVIOUS
<1>1. ASSUME NEW o \in Orders, NEW l \in Limits, Ask(o, l)
      PROVE  PagingInv' /\ CompleteInv' /\ OrderedInv'
  <2>1. /\ Fresh /\ order' = o /\ limit' = l /\ steady' = listed
        /\ UNCHANGED <<listed, local, utc, cursor, shown, ended>>
        /\ cursor = Null /\ ~ended /\ shown = <<>>
    BY <1>1 DEF Ask, PagingInv, table
  <2>2. PagingInv'
    BY <2>1 DEF PagingInv, PagingTypeOK, Fresh
  <2>3. CompleteInv'
    BY <2>1 DEF CompleteInv, Past
  <2>4. shown' = <<>> /\ Len(shown') = 0 /\ cursor' = Null
    BY <2>1
  <2>5. DOMAIN shown' = {}
    BY <2>4
  <2>6. OrderedInv'
    BY <2>4, <2>5 DEF OrderedInv
  <2> QED
    BY <2>2, <2>3, <2>6
<1>2. CASE FetchPage
  BY <1>2, FetchPageStep
<1>3. ASSUME NEW i \in Ids,
             Listing(i) \/ Unlisting(i) \/ \E taken \in Captures : Metadata(i, taken)
      PROVE  PagingInv' /\ CompleteInv' /\ OrderedInv'
  BY <1>3, IndexerStep
<1>4. CASE UNCHANGED pagingVars
  <2>1. UNCHANGED <<listed, local, utc, order, limit, cursor, shown, ended, steady>>
    BY <1>4 DEF pagingVars, table, client
  <2>2. \A i : Coalesce(i)' = Coalesce(i) /\ (IsShown(i)' <=> IsShown(i))
    BY <2>1 DEF Coalesce, IsShown
  <2>3. \A i : /\ Positioned(i)' <=> Positioned(i)
               /\ Past(order, i, cursor)' <=> Past(order, i, cursor)
               /\ Dated(i)' <=> Dated(i)
               /\ NotPast(i, cursor)' <=> NotPast(i, cursor)
    BY <2>1, <2>2 DEF Positioned, Past, Dated, NotPast
  <2>4. \A i, j : Before(order, i, j)' <=> Before(order, i, j)
    BY <2>1, <2>2 DEF Before, Newer, Nearer
  <2>5. PagingInv'
    BY <2>1 DEF PagingInv, PagingTypeOK, Fresh
  <2>6. CompleteInv'
    BY <2>1, <2>2, <2>3 DEF CompleteInv, Fresh
  <2>7. OrderedInv'
    BY <2>1, <2>3, <2>4 DEF OrderedInv
  <2> QED
    BY <2>5, <2>6, <2>7
<1> QED
  BY <1>1, <1>2, <1>3, <1>4 DEF PagingNext

LEMMA PagingInvariant == PagingSpec => [](PagingInv /\ CompleteInv /\ OrderedInv)
BY PagingStart, PagingStep, PTL DEF PagingSpec

\* When the last page has come, every asset that was listed all the time and
\* has a place in the order was shown.
THEOREM PagesShowAll == PagingSpec => []PagesComplete
<1>1. PagingInv /\ CompleteInv => PagesComplete
  <2> SUFFICES ASSUME PagingInv, CompleteInv, ended, NEW i \in steady, Positioned(i)
               PROVE  ShownTimes(i) >= 1
    BY DEF PagesComplete
  <2> DEFINE places == {k \in DOMAIN shown : shown[k] = i}
  <2>1. places # {}
    BY DEF PagingInv, CompleteInv, IsShown
  <2>2. DOMAIN shown = 1..Len(shown) /\ Len(shown) \in Nat
    BY DEF PagingInv, PagingTypeOK
  <2>3. IsFiniteSet(places)
    <3>1. IsFiniteSet(DOMAIN shown)
      BY <2>2, FS_Interval
    <3> QED
      BY <3>1, FS_Subset
  <2> HIDE DEF places
  <2>4. Cardinality(places) \in Nat /\ Cardinality(places) # 0
    BY <2>1, <2>3, FS_CardinalityType, FS_EmptySet
  <2>5. Cardinality(places) >= 1
    BY <2>4
  <2> QED
    BY <2>5 DEF ShownTimes, places
<1> QED
  BY <1>1, PagingInvariant, PTL

\* Pages join in order, whatever the indexer does between them.
THEOREM PagesJoin == PagingSpec => []PagesOrdered
<1>1. OrderedInv => PagesOrdered
  BY DEF OrderedInv, PagesOrdered, Dated
<1> QED
  BY <1>1, PagingInvariant, PTL

HIDE PagingAssumption


----------------------------------------------------------------------------
(* The viewer                                                              *)

\* The assets are positive numbers.
LEMMA AssetNumbers ==
  /\ ViewerAssets \subseteq Nat \ {0} /\ ViewerAssets \in SUBSET Int /\ IsFiniteSet(ViewerAssets)
  /\ ViewerPage \in Nat \ {0}
<1>1. Cardinality(ViewerAssets) \in Nat
  BY ViewerAssumption, FS_CardinalityType
<1> DEFINE n == Cardinality(ViewerAssets)
<1>2. ViewerAssets = 1..n /\ n \in Nat
  BY <1>1, ViewerAssumption
<1> HIDE DEF n
<1> QED
  BY <1>2, ViewerAssumption

\* A page is what follows its cursor, without a gap up to the next one.
LEMMA PageFollows ==
  ASSUME serverLists \subseteq ViewerAssets, NEW c \in ViewerAssets \cup {0}
  PROVE  LET page == Page(c)
             next == CursorOf(page)
         IN  /\ page \in Seq(ViewerAssets)
             /\ \A k \in DOMAIN page : page[k] > c
             /\ \A i, j \in DOMAIN page : i < j => page[i] < page[j]
             /\ next \in ViewerAssets \cup {0}
             /\ next # 0 => page # <<>> /\ next = page[Len(page)]
             /\ \A a \in serverLists : a > c /\ (next = 0 \/ a <= next) => \E k \in DOMAIN page : page[k] = a
<1> DEFINE S == {a \in serverLists : a > c}
           n == Cardinality(S)
           A == Ascending(S)
           m == IF n < ViewerPage THEN n ELSE ViewerPage
           page == Page(c)
           next == CursorOf(page)
<1>1. /\ S \in SUBSET ViewerAssets /\ IsFiniteSet(S) /\ ViewerAssets \subseteq Nat \ {0} /\ S \in SUBSET Int
      /\ c \in Nat
  <2>1. S \in SUBSET ViewerAssets
    OBVIOUS
  <2> HIDE DEF S
  <2>2. IsFiniteSet(S)
    BY <2>1, AssetNumbers, FS_Subset
  <2> QED
    BY <2>1, <2>2, AssetNumbers
<1>2. \A a \in S : a \in serverLists /\ a > c
  OBVIOUS
<1>3. \A a \in serverLists : a > c => a \in S
  OBVIOUS
<1>4. page = SubSeq(A, 1, m)
  BY DEF Page
<1> HIDE DEF S
<1>5. /\ n \in Nat /\ A \in [1..n -> S]
      /\ \A x \in S : \E k \in 1..n : A[k] = x
      /\ \A i, j \in 1..n : i < j => A[i] < A[j]
  BY <1>1, AscendingNumbers
<1> HIDE DEF n, A
<1>6. m \in 0..n /\ m \in Nat /\ (m # ViewerPage => m = n) /\ (m = ViewerPage => m \in 1..n)
  BY <1>5, AssetNumbers
<1> HIDE DEF m, page
<1>7. /\ page \in Seq(S) /\ Len(page) = m /\ DOMAIN page = 1..m
      /\ \A k \in 1..m : page[k] = A[k] /\ k \in 1..n
  BY <1>4, <1>5, <1>6
<1>8. next = IF m = ViewerPage THEN A[m] ELSE 0
  BY <1>6, <1>7 DEF CursorOf, Last
<1>9. m = ViewerPage => A[m] \in S /\ A[m] \in ViewerAssets /\ A[m] # 0
  <2> SUFFICES ASSUME m = ViewerPage PROVE A[m] \in S /\ A[m] \in ViewerAssets /\ A[m] # 0
    OBVIOUS
  <2>1. A[m] \in S
    BY <1>5, <1>6
  <2> QED
    BY <1>1, <2>1
<1> HIDE DEF next
<1>10. page \in Seq(ViewerAssets)
  <2>1. Seq(S) \subseteq Seq(ViewerAssets)
    <3>1. S \subseteq ViewerAssets
      BY <1>1
    <3> QED
      BY <3>1
  <2> QED
    BY <1>7, <2>1
<1>11. \A k \in DOMAIN page : page[k] > c
  BY <1>2, <1>5, <1>7
<1>12. \A i, j \in DOMAIN page : i < j => page[i] < page[j]
  BY <1>5, <1>7
<1>13. next \in ViewerAssets \cup {0} /\ (next # 0 => m = ViewerPage /\ next = A[m])
  BY <1>8, <1>9
<1>14. next # 0 => page # <<>> /\ next = page[Len(page)]
  BY <1>6, <1>7, <1>13
<1>15. ASSUME NEW a \in serverLists, a > c, next = 0 \/ a <= next
       PROVE  \E k \in DOMAIN page : page[k] = a
  <2>1. PICK k \in 1..n : A[k] = a
    BY <1>3, <1>5, <1>15
  <2>2. k \in 1..m
    <3>1. CASE m # ViewerPage
      BY <1>6, <2>1, <3>1
    <3>2. CASE m = ViewerPage
      <4>1. a <= A[m] /\ m \in 1..n /\ A[m] \in Int /\ a \in Int
        <5>1. A[m] \in ViewerAssets /\ A[m] # 0 /\ next = A[m] /\ m \in 1..n
          BY <1>6, <1>8, <1>9, <3>2
        <5>2. a \in S /\ a <= A[m]
          BY <1>3, <1>15, <5>1
        <5>3. a \in Int /\ A[m] \in Int
          BY <5>1, AssetNumbers
        <5> QED
          BY <5>1, <5>2, <5>3
      <4>2. ~(m < k)
        BY <1>5, <2>1, <4>1
      <4> QED
        BY <2>1, <4>1, <4>2
    <3> QED
      BY <3>1, <3>2
  <2> QED
    BY <1>7, <2>1, <2>2
<1> QED
  BY <1>10, <1>11, <1>12, <1>13, <1>14, <1>15 DEF page, next

\* What is loaded is in order, up to the cursor, and without a gap in what was
\* listed all the time.
ViewerInv ==
  /\ ViewerTypeOK
  /\ \A i, j \in DOMAIN loaded : i < j => loaded[i] < loaded[j]
  /\ nextCursor # 0 => loaded # <<>> /\ nextCursor = loaded[Len(loaded)]
  /\ fetching => nextCursor # 0
  /\ \A a \in always : nextCursor = 0 \/ a <= nextCursor => \E k \in DOMAIN loaded : loaded[k] = a

LEMMA ViewerStart == ViewerInit => ViewerInv
<1> SUFFICES ASSUME ViewerInit PROVE ViewerInv
  OBVIOUS
<1>1. /\ serverLists \subseteq ViewerAssets /\ always = serverLists /\ fetching = FALSE
      /\ loaded = Page(0) /\ nextCursor = CursorOf(loaded) /\ current \in ViewerAssets
      /\ changes = 0 /\ failures = 0
  BY DEF ViewerInit
<1>2. fetching \in BOOLEAN /\ 0 \in ViewerAssets \cup {0} /\ changes \in 0..MaxChanges /\ failures \in 0..MaxFailures
  <2>1. MaxChanges \in Nat /\ MaxFailures \in Nat
    BY ViewerAssumption
  <2>2. changes \in 0..MaxChanges
    BY <1>1, <2>1
  <2>3. failures \in 0..MaxFailures
    BY <1>1, <2>1
  <2> QED
    BY <1>1, <2>2, <2>3
<1>3. always \subseteq serverLists /\ \A a \in serverLists : a > 0
  BY <1>1, AssetNumbers
<1>4. /\ loaded \in Seq(ViewerAssets)
      /\ \A i, j \in DOMAIN loaded : i < j => loaded[i] < loaded[j]
      /\ nextCursor \in ViewerAssets \cup {0}
      /\ nextCursor # 0 => loaded # <<>> /\ nextCursor = loaded[Len(loaded)]
      /\ \A a \in serverLists :
           a > 0 /\ (nextCursor = 0 \/ a <= nextCursor) => \E k \in DOMAIN loaded : loaded[k] = a
  BY <1>1, PageFollows
<1> QED
  BY <1>1, <1>2, <1>3, <1>4 DEF ViewerInv, ViewerTypeOK

\* A page joins what is loaded at the cursor.
LEMMA PageJoins == ASSUME ViewerInv, PageArrives PROVE ViewerInv'
<1> DEFINE page == Page(nextCursor)
           next == CursorOf(page)
<1>1. /\ loaded' = loaded \o page /\ nextCursor' = next /\ fetching' = FALSE
      /\ serverLists' = serverLists /\ always' = always /\ current' = current
      /\ changes' = changes /\ failures' = failures /\ fetching
  BY DEF PageArrives
<1>2. /\ loaded \in Seq(ViewerAssets) /\ nextCursor \in ViewerAssets /\ nextCursor \in Int
      /\ always \subseteq serverLists /\ serverLists \subseteq ViewerAssets
      /\ loaded # <<>> /\ nextCursor = loaded[Len(loaded)]
  <2>1. nextCursor \in ViewerAssets
    BY <1>1 DEF ViewerInv, ViewerTypeOK
  <2> QED
    BY <1>1, <2>1, AssetNumbers DEF ViewerInv, ViewerTypeOK
<1>3. /\ page \in Seq(ViewerAssets)
      /\ \A k \in DOMAIN page : page[k] > nextCursor
      /\ \A i, j \in DOMAIN page : i < j => page[i] < page[j]
      /\ next \in ViewerAssets \cup {0}
      /\ next # 0 => page # <<>> /\ next = page[Len(page)]
      /\ \A a \in serverLists :
           a > nextCursor /\ (next = 0 \/ a <= next) => \E k \in DOMAIN page : page[k] = a
  BY <1>2, PageFollows
<1> HIDE DEF page, next
<1> DEFINE n == Len(loaded)
           m == Len(page)
<1>4. /\ n \in Nat \ {0} /\ m \in Nat /\ loaded' \in Seq(ViewerAssets)
      /\ Len(loaded') = n + m /\ DOMAIN loaded' = 1..n + m /\ DOMAIN loaded = 1..n /\ DOMAIN page = 1..m
      /\ \A k \in 1..n : loaded'[k] = loaded[k]
      /\ \A k \in 1..m : loaded'[n + k] = page[k]
      /\ \A k \in 1..n + m : k \in 1..n \/ (k - n \in 1..m /\ n + (k - n) = k)
  BY <1>1, <1>2, <1>3
<1> HIDE DEF n, m
<1>5. loaded[n] = nextCursor /\ (\A k \in 1..n : loaded[k] \in Int /\ loaded[k] <= nextCursor)
      /\ \A k \in 1..m : page[k] \in Int
  <2>1. (\A k \in 1..n : loaded[k] \in Int) /\ (\A k \in 1..m : page[k] \in Int)
    <3>1. (\A k \in 1..n : loaded[k] \in ViewerAssets) /\ (\A k \in 1..m : page[k] \in ViewerAssets)
      BY <1>2, <1>3, <1>4
    <3> QED
      BY <3>1, AssetNumbers
  <2>2. \A k \in 1..n : k < n => loaded[k] < loaded[n]
    BY <1>4 DEF ViewerInv
  <2>3. \A k \in 1..n : k < n \/ k = n
    BY <1>4
  <2> QED
    <3>1. loaded[n] = nextCursor
      BY <1>2 DEF n
    <3>2. ASSUME NEW k \in 1..n PROVE loaded[k] <= nextCursor
      <4>1. loaded[k] \in Int /\ loaded[n] \in Int
        BY <1>4, <2>1
      <4> QED
        BY <2>2, <2>3, <3>1, <4>1
    <3> QED
      BY <2>1, <3>1, <3>2
<1>6. ASSUME NEW i \in DOMAIN loaded', NEW j \in DOMAIN loaded', i < j PROVE loaded'[i] < loaded'[j]
  <2>1. i \in 1..n + m /\ j \in 1..n + m
    BY <1>4
  <2>2. CASE j \in 1..n
    <3>1. i \in 1..n
      BY <1>4, <1>6, <2>1, <2>2
    <3> QED
      BY <1>4, <1>6, <2>2, <3>1 DEF ViewerInv
  <2>3. CASE i \in 1..n /\ j \notin 1..n
    <3>1. j - n \in 1..m /\ loaded'[j] = page[j - n] /\ page[j - n] > nextCursor
      BY <1>3, <1>4, <2>1, <2>3
    <3> QED
      BY <1>2, <1>4, <1>5, <2>3, <3>1
  <2>4. CASE i \notin 1..n /\ j \notin 1..n
    <3>1. /\ i - n \in 1..m /\ loaded'[i] = page[i - n]
          /\ j - n \in 1..m /\ loaded'[j] = page[j - n]
      BY <1>4, <2>1, <2>4
    <3>2. i - n < j - n
      BY <1>4, <1>6, <2>1
    <3> QED
      BY <1>3, <1>4, <3>1, <3>2
  <2> QED
    BY <2>2, <2>3, <2>4
<1>7. nextCursor' # 0 => loaded' # <<>> /\ nextCursor' = loaded'[Len(loaded')]
  <2> SUFFICES ASSUME nextCursor' # 0 PROVE loaded' # <<>> /\ nextCursor' = loaded'[Len(loaded')]
    OBVIOUS
  <2>1. page # <<>> /\ next = page[m]
    BY <1>1, <1>3 DEF m
  <2>2. m # 0
    BY <1>3, <2>1 DEF m
  <2>3. m \in 1..m /\ n + m # 0
    BY <1>4, <2>2
  <2>4. loaded'[n + m] = page[m] /\ Len(loaded') = n + m
    BY <1>4, <2>3
  <2>5. loaded' # <<>>
    BY <2>3, <2>4
  <2> QED
    BY <1>1, <2>1, <2>4, <2>5
<1>8. ASSUME NEW a \in always', nextCursor' = 0 \/ a <= nextCursor'
      PROVE  \E k \in DOMAIN loaded' : loaded'[k] = a
  <2>1. a \in always /\ a \in serverLists /\ a \in Int
    BY <1>1, <1>2, AssetNumbers
  <2>2. CASE a <= nextCursor
    <3>1. PICK k \in 1..n : loaded[k] = a
      BY <1>4, <2>1, <2>2 DEF ViewerInv
    <3>2. k \in DOMAIN loaded' /\ loaded'[k] = a
      BY <1>4, <3>1
    <3> QED
      BY <3>2
  <2>3. CASE a > nextCursor
    <3>1. PICK k \in 1..m : page[k] = a
      BY <1>1, <1>3, <1>4, <1>8, <2>1, <2>3
    <3>2. n + k \in DOMAIN loaded' /\ loaded'[n + k] = a
      BY <1>4, <3>1
    <3> QED
      BY <3>2
  <2> QED
    BY <1>2, <2>1, <2>2, <2>3
<1>9. ViewerTypeOK'
  BY <1>1, <1>2, <1>3, <1>4 DEF ViewerInv, ViewerTypeOK
<1> QED
  BY <1>1, <1>6, <1>7, <1>8, <1>9 DEF ViewerInv

\* The place of the asset that is shown.
LEMMA IndexFinds ==
  ASSUME ViewerInv
  PROVE  /\ Index = 0 \/ (Index \in DOMAIN loaded /\ loaded[Index] = current)
         /\ Index \in Nat /\ Len(loaded) \in Nat
         /\ DOMAIN loaded = 1..Len(loaded)
<1> DEFINE found == {k \in DOMAIN loaded : loaded[k] = current}
<1>1. /\ loaded \in Seq(ViewerAssets) /\ DOMAIN loaded = 1..Len(loaded) /\ Len(loaded) \in Nat
  BY DEF ViewerInv, ViewerTypeOK
<1>2. found \in SUBSET Int /\ IsFiniteSet(found) /\ found \subseteq DOMAIN loaded
  <2>1. found \in SUBSET (1..Len(loaded)) /\ IsFiniteSet(1..Len(loaded)) /\ 1..Len(loaded) \subseteq Int
    BY <1>1, FS_Interval
  <2> HIDE DEF found
  <2> QED
    BY <1>1, <2>1, FS_Subset
<1>3. \A k \in found : loaded[k] = current
  OBVIOUS
<1>4. Index = IF found = {} THEN 0 ELSE CHOOSE k \in found : \A j \in found : k <= j
  BY DEF Index
<1> HIDE DEF found
<1>5. CASE found = {}
  BY <1>1, <1>4, <1>5
<1>6. CASE found # {}
  <2>1. \E k \in found : \A j \in found : k <= j
    BY <1>2, <1>6, LeastNumber
  <2>2. Index \in found
    BY <1>4, <1>6, <2>1
  <2> QED
    BY <1>1, <1>2, <1>3, <2>2
<1> QED
  BY <1>5, <1>6

LEMMA ViewerStep == ASSUME ViewerInv, [ViewerNext]_viewerVars PROVE ViewerInv'
<1>1. ASSUME NEW a \in ViewerAssets, Change(a) PROVE ViewerInv'
  <2>1. /\ changes' \in 0..MaxChanges
        /\ always' \subseteq always /\ always' \subseteq serverLists' /\ serverLists' \subseteq ViewerAssets
    BY <1>1, ViewerAssumption DEF Change, ViewerInv, ViewerTypeOK
  <2> QED
    BY <1>1, <2>1 DEF Change, ViewerInv, ViewerTypeOK
<1>2. CASE Prefetch
  BY <1>2 DEF Prefetch, ViewerInv, ViewerTypeOK
<1>3. CASE Sentinel
  BY <1>3 DEF Sentinel, ViewerInv, ViewerTypeOK
<1>4. CASE PageArrives
  BY <1>4, PageJoins
<1>5. CASE FetchFails
  <2>1. failures' \in 0..MaxFailures
    BY <1>5, ViewerAssumption DEF FetchFails, ViewerInv, ViewerTypeOK
  <2> QED
    BY <1>5, <2>1 DEF FetchFails, ViewerInv, ViewerTypeOK
<1>6. CASE OnNext \/ OnPrev
  <2>1. current' \in ViewerAssets
    <3>1. loaded \in Seq(ViewerAssets)
      BY DEF ViewerInv, ViewerTypeOK
    <3>2. CASE OnNext
      <4>1. Index + 1 \in 1..Len(loaded) /\ current' = loaded[Index + 1]
        BY <3>2, IndexFinds DEF OnNext
      <4> QED
        BY <3>1, <4>1
    <3>3. CASE OnPrev
      <4>1. Index - 1 \in 1..Len(loaded) /\ current' = loaded[Index - 1]
        BY <3>3, IndexFinds DEF OnPrev
      <4> QED
        BY <3>1, <4>1
    <3> QED
      BY <1>6, <3>2, <3>3
  <2> QED
    BY <1>6, <2>1 DEF OnNext, OnPrev, ViewerInv, ViewerTypeOK
<1>7. CASE UNCHANGED viewerVars
  BY <1>7 DEF viewerVars, ViewerInv, ViewerTypeOK
<1> QED
  BY <1>1, <1>2, <1>3, <1>4, <1>5, <1>6, <1>7 DEF ViewerNext

\* Between two neighbours of what is loaded there is nothing of always.
LEMMA NoGap ==
  ASSUME ViewerInv, NEW i \in DOMAIN loaded, i + 1 \in DOMAIN loaded, NEW a \in always
  PROVE  /\ loaded[i] \in Int /\ loaded[i + 1] \in Int /\ loaded[i] < loaded[i + 1]
         /\ a \in Int /\ ~(loaded[i] < a /\ a < loaded[i + 1])
<1>1. /\ loaded \in Seq(ViewerAssets) /\ DOMAIN loaded = 1..Len(loaded) /\ Len(loaded) \in Nat
      /\ always \subseteq ViewerAssets /\ i \in Int
      /\ \A k, j \in DOMAIN loaded : k < j => loaded[k] < loaded[j]
  BY DEF ViewerInv, ViewerTypeOK
<1>2. a \in Int /\ \A k \in DOMAIN loaded : loaded[k] \in Int
  <2>1. a \in ViewerAssets /\ \A k \in DOMAIN loaded : loaded[k] \in ViewerAssets
    BY <1>1
  <2> QED
    BY <2>1, AssetNumbers
<1>3. loaded[i] < loaded[i + 1]
  BY <1>1
<1>4. ASSUME loaded[i] < a, a < loaded[i + 1] PROVE FALSE
  <2>1. nextCursor # 0 => a <= nextCursor
    <3> SUFFICES ASSUME nextCursor # 0 PROVE a <= nextCursor
      OBVIOUS
    <3>1. nextCursor = loaded[Len(loaded)] /\ Len(loaded) \in DOMAIN loaded
      BY <1>1 DEF ViewerInv
    <3>2. i + 1 < Len(loaded) \/ i + 1 = Len(loaded)
      BY <1>1
    <3>3. loaded[i + 1] <= loaded[Len(loaded)]
      BY <1>1, <1>2, <3>1, <3>2
    <3> QED
      BY <1>2, <1>4, <3>1, <3>3
  <2>2. PICK k \in DOMAIN loaded : loaded[k] = a
    BY <2>1 DEF ViewerInv
  <2>3. k \in Int /\ (k < i \/ k = i \/ k = i + 1 \/ i + 1 < k)
    BY <1>1
  <2>4. /\ k < i => loaded[k] < loaded[i]
        /\ i + 1 < k => loaded[i + 1] < loaded[k]
    BY <1>1, <2>3
  <2> QED
    BY <1>2, <1>4, <2>2, <2>3, <2>4
<1> QED
  BY <1>2, <1>3, <1>4

LEMMA ViewerInvariant == ViewerSpec => []ViewerInv
BY ViewerStart, ViewerStep, PTL DEF ViewerSpec

\* Next and Prev skip no asset that was listed all the time, whatever the
\* library does between the pages, for any number of assets and any size of a page.
THEOREM StepsCorrect == ViewerSpec => StepsSkipNothing
<1> DEFINE Clean == /\ OnNext => current' > current
                    /\ ~\E a \in always : a \in (current + 1 .. current' - 1) \cup (current' + 1 .. current - 1)
<1>1. ASSUME ViewerInv, [ViewerNext]_viewerVars, current' # current PROVE Clean
  <2>1. OnNext \/ OnPrev
    BY <1>1 DEF ViewerNext, Change, Prefetch, Sentinel, PageArrives, FetchFails, viewerVars
  <2>2. current \in Int
    BY <1>1, AssetNumbers DEF ViewerInv, ViewerTypeOK
  <2>3. CASE OnNext
    <3>1. Index \in DOMAIN loaded /\ Index + 1 \in DOMAIN loaded /\ loaded[Index] = current
          /\ current' = loaded[Index + 1]
      BY <1>1, <2>3, IndexFinds DEF OnNext
    <3>2. current' > current /\ current' \in Int
      <4>1. /\ loaded \in Seq(ViewerAssets)
            /\ \A i, j \in DOMAIN loaded : i < j => loaded[i] < loaded[j]
        BY <1>1 DEF ViewerInv, ViewerTypeOK
      <4>2. Index < Index + 1
        BY <1>1, IndexFinds
      <4>3. loaded[Index + 1] \in ViewerAssets /\ loaded[Index] < loaded[Index + 1]
        BY <3>1, <4>1, <4>2
      <4> QED
        BY <3>1, <4>3, AssetNumbers
    <3>3. ASSUME NEW a \in always
          PROVE  a \notin (current + 1 .. current' - 1) \cup (current' + 1 .. current - 1)
      BY <1>1, <2>2, <3>1, <3>2, NoGap
    <3> QED
      BY <3>2, <3>3
  <2>4. CASE OnPrev /\ ~OnNext
    <3> DEFINE k == Index - 1
    <3>1. /\ k \in DOMAIN loaded /\ k + 1 \in DOMAIN loaded /\ loaded[k + 1] = current
          /\ current' = loaded[k] /\ k + 1 = Index
      BY <1>1, <2>4, IndexFinds DEF OnPrev
    <3> HIDE DEF k
    <3>2. ASSUME NEW a \in always
          PROVE  a \notin (current + 1 .. current' - 1) \cup (current' + 1 .. current - 1)
      <4>1. /\ loaded[k] \in Int /\ loaded[k + 1] \in Int /\ loaded[k] < loaded[k + 1]
            /\ a \in Int /\ ~(loaded[k] < a /\ a < loaded[k + 1])
        BY <1>1, <3>1, NoGap
      <4> QED
        BY <3>1, <4>1
    <3> QED
      BY <2>4, <3>2
  <2> QED
    BY <2>1, <2>3, <2>4
<1> QED
  BY <1>1, ViewerInvariant, PTL DEF ViewerSpec, StepsSkipNothing

----------------------------------------------------------------------------
(* Progress, for any number of files                                        *)

USE ProgressAssumption

----------------------------------------------------------------------------
(* How many files are in some places                                       *)

LEMMA InFinite ==
  ASSUME NEW S
  PROVE  IsFiniteSet(In(S)) /\ Cardinality(In(S)) \in Nat /\ In(S) \subseteq Files
<1>1. In(S) \in SUBSET Files
  BY DEF In
<1> QED
  BY <1>1, FS_Subset, FS_CardinalityType

\* One file goes from one place to another.
LEMMA OneGoes ==
  ASSUME ProgressTypeOK, NEW f \in Files, NEW p \in Places, Goto(f, p), NEW S
  PROVE  /\ place[f] \in S /\ p \in S => Cardinality(In(S))' = Cardinality(In(S))
         /\ place[f] \notin S /\ p \notin S => Cardinality(In(S))' = Cardinality(In(S))
         /\ place[f] \notin S /\ p \in S => Cardinality(In(S))' = Cardinality(In(S)) + 1
         /\ place[f] \in S /\ p \notin S => Cardinality(In(S))' = Cardinality(In(S)) - 1
<1>1. /\ place'[f] = p /\ \A g \in Files : g # f => place'[g] = place[g]
  BY DEF Goto, ProgressTypeOK
<1>2. p \in S => In(S)' = In(S) \cup {f}
  BY <1>1 DEF In
<1>3. p \notin S => In(S)' = In(S) \ {f}
  BY <1>1 DEF In
<1>4. f \in In(S) <=> place[f] \in S
  BY DEF In
<1>5. IsFiniteSet(In(S))
  BY InFinite
<1> QED
  BY <1>2, <1>3, <1>4, <1>5, FS_AddElement, FS_RemoveElement

----------------------------------------------------------------------------
(* Types                                                                   *)

LEMMA TypeStep ==
  ASSUME ProgressTypeOK, [ProgressNext]_progressVars
  PROVE  ProgressTypeOK'
<1> USE DEF ProgressTypeOK, counters, reader
<1>1. CASE CancelRun \/ BeginWalk \/ EndWalk \/ FailWalk
  BY <1>1 DEF CancelRun, BeginWalk, EndWalk, FailWalk
<1>2. ASSUME NEW f \in Files, Discover(f) \/ CountSkipped(f) PROVE ProgressTypeOK'
  BY <1>2 DEF Discover, CountSkipped, Goto, Places
<1>3. ASSUME NEW f \in Files, StatFile(f) \/ Take(f) PROVE ProgressTypeOK'
  BY <1>3 DEF StatFile, Take, Goto, Places
<1>4. ASSUME NEW f \in Files, NEW ok \in BOOLEAN, Count(f, ok) PROVE ProgressTypeOK'
  BY <1>4 DEF Count, Goto, Places
<1>5. CASE Flush
  BY <1>5 DEF Flush, Places
<1>6. CASE Poll
  BY <1>6 DEF Poll, Blank
<1>7. CASE Load
  BY <1>7 DEF Load, See
<1>8. CASE Answer
  <2>1. seen.discovered \in Nat /\ seen.processed \in Nat /\ seen.errored \in Nat
    OBVIOUS
  <2> QED
    BY <1>8, <2>1 DEF Answer, Blank
<1>9. CASE UNCHANGED progressVars
  BY <1>9 DEF progressVars
<1> QED
  BY <1>1, <1>2, <1>3, <1>4, <1>5, <1>6, <1>7, <1>8, <1>9
     DEF ProgressNext, Walk, Tasks, Status, EndTask, Drain

LEMMA TypesCorrect == ProgressSpec => []ProgressTypeOK
<1>1. ProgressInit => ProgressTypeOK
  <2> SUFFICES ASSUME ProgressInit PROVE ProgressTypeOK
    OBVIOUS
  <2>1. place \in [Files -> Places] /\ {discovered, processed, skipped, errored, ran} \subseteq Nat
    BY DEF ProgressInit, Places
  <2>2. walk \in {"queued", "walking", "over"} /\ canceled \in BOOLEAN /\ failed \in BOOLEAN
    BY DEF ProgressInit
  <2>3. completed \in BOOLEAN
    BY DEF ProgressInit
  <2> QED
    BY <2>1, <2>2, <2>3 DEF ProgressInit, ProgressTypeOK, Blank, NoAnswer
<1> QED
  BY <1>1, TypeStep, PTL DEF ProgressSpec

----------------------------------------------------------------------------
(* The counters                                                            *)

\* Every discovered file is counted or uncounted, and every counted one was
\* skipped or ended by a task of this run.
CountInv ==
  /\ processed + errored + Cardinality(Uncounted) = discovered
  /\ processed + errored + Cardinality(In({"skipped"})) = skipped + ran
  /\ errored <= ran

LEMMA CountInvariant == ProgressSpec => []CountInv
<1>1. ProgressInit => CountInv
  <2> SUFFICES ASSUME ProgressInit PROVE CountInv
    OBVIOUS
  <2>1. Uncounted = {} /\ In({"skipped"}) = {}
    BY DEF ProgressInit, Uncounted, In
  <2> QED
    BY <2>1, FS_EmptySet DEF ProgressInit, CountInv
<1>2. ProgressTypeOK /\ CountInv /\ [ProgressNext]_progressVars => CountInv'
  <2> SUFFICES ASSUME ProgressTypeOK, CountInv, [ProgressNext]_progressVars PROVE CountInv'
    OBVIOUS
  <2> DEFINE u == Cardinality(Uncounted)
             s == Cardinality(In({"skipped"}))
  <2>1. u \in Nat /\ s \in Nat /\ {discovered, processed, skipped, errored, ran} \subseteq Nat
    BY InFinite DEF Uncounted, ProgressTypeOK
  <2>2. ASSUME place' = place, UNCHANGED <<discovered, processed, skipped, errored, ran>>
        PROVE  CountInv'
    BY <2>2 DEF CountInv, Uncounted, In
  <2>3. ASSUME NEW f \in Files, Discover(f) PROVE CountInv'
    <3>1. u' = u + 1 /\ s' = s
      BY <2>3, OneGoes DEF Discover, Uncounted, Places
    <3> QED
      BY <2>1, <2>3, <3>1 DEF Discover, CountInv
  <2>4. ASSUME NEW f \in Files, StatFile(f) PROVE CountInv'
    <3>1. u' = u /\ s' = s
      BY <2>4, OneGoes DEF StatFile, Uncounted, Places
    <3> QED
      BY <2>4, <3>1 DEF StatFile, CountInv, counters
  <2>5. ASSUME NEW f \in Files, CountSkipped(f) PROVE CountInv'
    <3>1. CASE place[f] = "known" /\ Goto(f, "skipped") /\ skipped' = skipped + 1 /\ UNCHANGED processed
      <4>1. u' = u /\ s' = s + 1
        BY <3>1, OneGoes DEF Uncounted, Places
      <4> QED
        BY <2>1, <2>5, <3>1, <4>1 DEF CountSkipped, CountInv
    <3>2. CASE place[f] = "skipped" /\ Goto(f, "done") /\ processed' = processed + 1 /\ UNCHANGED skipped
      <4>1. u' = u - 1 /\ s' = s - 1
        BY <3>2, OneGoes DEF Uncounted, Places
      <4> QED
        BY <2>1, <2>5, <3>2, <4>1 DEF CountSkipped, CountInv
    <3> QED
      BY <2>5, <3>1, <3>2 DEF CountSkipped
  <2>6. CASE Flush
    <3>1. Uncounted' = Uncounted /\ In({"skipped"})' = In({"skipped"})
      BY <2>6 DEF Flush, Uncounted, In
    <3> QED
      BY <2>6, <3>1 DEF Flush, CountInv, counters
  <2>7. ASSUME NEW f \in Files, Take(f) PROVE CountInv'
    <3>1. u' = u /\ s' = s
      BY <2>7, OneGoes DEF Take, Uncounted, Places
    <3> QED
      BY <2>7, <3>1 DEF Take, CountInv, counters
  <2>8. ASSUME NEW f \in Files, NEW ok \in BOOLEAN, place[f] \in {"busy", "queued"}, Count(f, ok)
        PROVE  CountInv'
    <3>1. u' = u - 1 /\ s' = s
      BY <2>8, OneGoes DEF Count, Uncounted, Places
    <3> QED
      BY <2>1, <2>8, <3>1 DEF Count, CountInv
  <2>9. CASE CancelRun \/ BeginWalk \/ EndWalk \/ FailWalk \/ Poll \/ Load \/ Answer
    BY <2>2, <2>9 DEF CancelRun, BeginWalk, EndWalk, FailWalk, Poll, Load, Answer, counters
  <2>10. CASE UNCHANGED progressVars
    BY <2>2, <2>10 DEF progressVars, counters
  <2> QED
    BY <2>3, <2>4, <2>5, <2>6, <2>7, <2>8, <2>9, <2>10
       DEF ProgressNext, Walk, Tasks, Status, EndTask, Drain
<1> QED
  BY <1>1, <1>2, TypesCorrect, PTL DEF ProgressSpec

\* A discovered file is counted as processed or errored once it is finished,
\* and never twice, whichever way it takes.
THEOREM CountersCorrect == ProgressSpec => []CountersExact
<1>1. ProgressTypeOK /\ CountInv => CountersExact
  <2> SUFFICES ASSUME ProgressTypeOK, CountInv PROVE CountersExact
    OBVIOUS
  <2>1. Cardinality(In({"skipped"})) \in Nat
    BY InFinite
  <2> QED
    BY <2>1 DEF ProgressTypeOK, CountInv, CountersExact
<1> QED
  BY <1>1, TypesCorrect, CountInvariant, PTL

----------------------------------------------------------------------------
(* The answers, whose loads are interleaved with everything else           *)

\* The walk is over and every discovered file is counted; this is so for good.
Finished == completed /\ Uncounted = {}

\* What a request that has got to some load knows, and how it compares with
\* the last answer.
LoadInv ==
  /\ completed => walk = "over"
  /\ at \in {"sum", "sumErrored", "compare"} => completed
  /\ at = "sumErrored" => seen.sum <= processed
  /\ at = "compare" => seen.sum <= processed + errored
  /\ at = "skipped" =>
       /\ seen.phase # "none"
       /\ seen.phase = "failed" => failed
       /\ seen.phase = "processing" => completed
       /\ seen.phase = "completed" => Finished
  /\ at = "errored" => seen.processed + errored <= skipped + ran
  /\ at \in {"failed", "completed", "sum", "sumErrored", "compare", "skipped"} =>
       seen.processed + seen.errored <= skipped + ran
AnswerInv ==
  /\ answer.done <= ran
  /\ answer.phase = "failed" =>
       /\ failed /\ at \notin {"completed", "sum", "sumErrored", "compare"}
       /\ at = "skipped" => seen.phase = "failed"
  /\ answer.phase = "processing" =>
       completed /\ (at = "skipped" => seen.phase # "indexing")
  /\ answer.phase = "completed" =>
       /\ Finished
       /\ at = "sumErrored" => seen.sum >= processed
       /\ at = "compare" => seen.sum >= discovered
       /\ at = "skipped" => seen.phase \in {"completed", "failed"}

\* What the walk and the tasks do between the loads.
Work == CancelRun \/ FailWalk \/ Walk \/ Tasks

LEMMA WorkKeeps ==
  ASSUME ProgressTypeOK, CountInv, completed => walk = "over", Work
  PROVE  /\ UNCHANGED reader
         /\ completed' => walk' = "over"
         /\ completed => completed'
         /\ failed => failed'
         /\ processed' >= processed /\ errored' >= errored /\ ran' >= ran
         /\ skipped' + ran' - errored' >= skipped + ran - errored
         /\ Finished => Finished' /\ UNCHANGED <<discovered, processed, errored>>
<1> USE DEF ProgressTypeOK, counters
<1>1. CASE CancelRun \/ BeginWalk
  BY <1>1 DEF CancelRun, BeginWalk, Finished, Uncounted, In
<1>2. CASE EndWalk \/ FailWalk
  BY <1>2 DEF EndWalk, FailWalk, Finished, Uncounted, In
<1>3. CASE Flush
  BY <1>3 DEF Flush, Finished, Uncounted, In
<1>4. ASSUME NEW f \in Files, Discover(f)
      PROVE  /\ UNCHANGED <<reader, processed, errored, skipped, ran, completed, failed, walk>>
             /\ ~completed
  BY <1>4 DEF Discover
<1>5. ASSUME NEW f \in Files, place[f] \in {"found", "known", "skipped", "queued", "busy"}
      PROVE  ~Finished
  BY <1>5 DEF Finished, Uncounted, In
<1>6. ASSUME NEW f \in Files, StatFile(f) \/ CountSkipped(f) \/ Take(f)
      PROVE  /\ UNCHANGED <<reader, completed, failed, walk, errored, ran>>
             /\ processed' >= processed /\ skipped' >= skipped /\ ~Finished
  BY <1>5, <1>6 DEF StatFile, CountSkipped, Take
<1>7. ASSUME NEW f \in Files, NEW ok \in BOOLEAN, Count(f, ok), place[f] \in {"queued", "busy"}
      PROVE  /\ UNCHANGED <<reader, completed, failed, walk, skipped>>
             /\ processed' >= processed /\ errored' >= errored /\ ran' = ran + 1
             /\ errored' <= errored + 1 /\ ~Finished
  BY <1>5, <1>7 DEF Count
<1>8. ASSUME NEW f \in Files, EndTask(f) \/ Drain(f)
      PROVE  \E ok \in BOOLEAN : Count(f, ok) /\ place[f] \in {"queued", "busy"}
  BY <1>8 DEF EndTask, Drain
<1> QED
  <2>1. ASSUME NEW f \in Files, Discover(f) \/ StatFile(f) \/ CountSkipped(f) \/ Take(f)
        PROVE  /\ UNCHANGED <<reader, completed, failed, walk, errored, ran>>
               /\ processed' >= processed /\ skipped' >= skipped /\ ~Finished
    BY <1>4, <1>6, <2>1 DEF Finished
  <2>2. CASE \E f \in Files : Discover(f) \/ StatFile(f) \/ CountSkipped(f) \/ Take(f)
    <3>1. /\ UNCHANGED <<reader, completed, failed, walk, errored, ran>>
          /\ processed' >= processed /\ skipped' >= skipped /\ ~Finished
      BY <2>1, <2>2
    <3>2. skipped' \in Int
      BY <2>2 DEF Discover, StatFile, CountSkipped, Take
    <3> QED
      BY <3>1, <3>2
  <2>3. CASE \E f \in Files : EndTask(f) \/ Drain(f)
    <3>1. PICK f \in Files, ok \in BOOLEAN : Count(f, ok) /\ place[f] \in {"queued", "busy"}
      BY <1>8, <2>3
    <3>2. /\ UNCHANGED <<reader, completed, failed, walk, skipped>>
          /\ processed' >= processed /\ errored' >= errored /\ ran' = ran + 1
          /\ errored' <= errored + 1 /\ ~Finished
      BY <1>7, <3>1
    <3>3. errored' \in Int
      BY <3>1 DEF Count
    <3> QED
      BY <3>2, <3>3
  <2> QED
    BY <1>1, <1>2, <1>3, <2>2, <2>3 DEF Work, Walk, Tasks

\* The three loads that decide the phase, and the ones before the first.
LEMMA LoadSteps ==
  ASSUME ProgressTypeOK, CountInv, LoadInv, AnswerInv, Load
  PROVE  LoadInv' /\ AnswerInv'
<1> USE DEF See
<1>1. /\ {processed, errored, skipped, ran, discovered} \subseteq Nat
      /\ {seen.processed, seen.errored, seen.sum} \subseteq Nat
      /\ seen \in [discovered : Nat, processed : Nat, errored : Nat, sum : Nat,
                   phase : {"none", "failed", "indexing", "processing", "completed"}]
  BY DEF ProgressTypeOK
<1>2. UNCHANGED <<place, walk, counters, answer, ran>>
  BY DEF Load
<1>3. Finished' = Finished
  BY <1>2 DEF Finished, Uncounted, In, counters
<1>4. processed + errored <= skipped + ran
  <2>1. Cardinality(In({"skipped"})) \in Nat
    BY InFinite
  <2> QED
    BY <1>1, <2>1 DEF CountInv
<1>5. Cardinality(Uncounted) \in Nat /\ (Cardinality(Uncounted) = 0 => Uncounted = {})
  BY InFinite, FS_EmptySet DEF Uncounted
<1>6. processed + errored <= discovered /\ (processed + errored >= discovered => Uncounted = {})
  BY <1>1, <1>5 DEF CountInv
<1>7. Finished => processed + errored = discovered
  BY <1>1, FS_EmptySet DEF CountInv, Finished
<1>8. CASE at = "discovered" /\ See("discovered", discovered, "processed")
  BY <1>1, <1>2, <1>3, <1>8 DEF LoadInv, AnswerInv, counters
<1>9. CASE at = "processed" /\ See("processed", processed, "errored")
  BY <1>1, <1>2, <1>3, <1>4, <1>9 DEF LoadInv, AnswerInv, counters
<1>10. CASE at = "errored" /\ See("errored", errored, "failed")
  BY <1>1, <1>2, <1>3, <1>10 DEF LoadInv, AnswerInv, counters
<1>11. CASE /\ at = "failed"
            /\ IF failed THEN See("phase", "failed", "skipped") ELSE See("phase", "none", "completed")
  BY <1>1, <1>2, <1>3, <1>11 DEF LoadInv, AnswerInv, counters
<1>12. CASE /\ at = "completed"
            /\ IF completed THEN See("phase", "none", "sum") ELSE See("phase", "indexing", "skipped")
  BY <1>1, <1>2, <1>3, <1>12 DEF LoadInv, AnswerInv, Finished, counters
<1>13. CASE at = "sum" /\ See("sum", processed, "sumErrored")
  BY <1>1, <1>2, <1>3, <1>13 DEF LoadInv, AnswerInv, counters
<1>14. CASE at = "sumErrored" /\ See("sum", seen.sum + errored, "compare")
  BY <1>1, <1>2, <1>3, <1>7, <1>14 DEF LoadInv, AnswerInv, counters
<1>15. CASE /\ at = "compare"
            /\ See("phase", IF seen.sum < discovered THEN "processing" ELSE "completed", "skipped")
  BY <1>1, <1>2, <1>3, <1>6, <1>15 DEF LoadInv, AnswerInv, Finished, counters
<1> QED
  BY <1>8, <1>9, <1>10, <1>11, <1>12, <1>13, <1>14, <1>15 DEF Load

LEMMA LoadInvariant == ProgressSpec => [](LoadInv /\ AnswerInv)
<1>1. ProgressInit => LoadInv /\ AnswerInv
  <2> SUFFICES ASSUME ProgressInit PROVE LoadInv /\ AnswerInv
    OBVIOUS
  <2>1. completed => walk = "over"
    BY Zenon DEF ProgressInit
  <2>2. at = "none" /\ answer.phase = "none" /\ answer.done = 0 /\ ran = 0
    BY DEF ProgressInit, NoAnswer
  <2> QED
    BY <2>1, <2>2 DEF LoadInv, AnswerInv
<1>2. /\ ProgressTypeOK /\ CountInv /\ LoadInv /\ AnswerInv
      /\ [ProgressNext]_progressVars
      => LoadInv' /\ AnswerInv'
  <2> SUFFICES ASSUME ProgressTypeOK, CountInv, LoadInv, AnswerInv, [ProgressNext]_progressVars
               PROVE  LoadInv' /\ AnswerInv'
    OBVIOUS
  <2>1. /\ {processed, errored, skipped, ran, discovered} \subseteq Nat
        /\ {seen.processed, seen.errored, seen.sum, seen.discovered} \subseteq Nat
        /\ answer.done \in Int
    BY DEF ProgressTypeOK
  <2>2. CASE Work
    <3>1. {processed', errored', skipped', ran', discovered'} \subseteq Nat
      <4>1. ProgressTypeOK'
        BY TypeStep
      <4> QED
        BY <4>1 DEF ProgressTypeOK
    <3>2. /\ UNCHANGED <<at, seen, answer>>
          /\ completed' => walk' = "over"
          /\ completed => completed'
          /\ failed => failed'
          /\ processed' >= processed /\ errored' >= errored /\ ran' >= ran
          /\ skipped' + ran' - errored' >= skipped + ran - errored
          /\ Finished => Finished' /\ UNCHANGED <<discovered, processed, errored>>
      BY <2>2, WorkKeeps DEF LoadInv, reader
    <3>3. LoadInv'
      BY <2>1, <3>1, <3>2 DEF LoadInv
    <3>4. AnswerInv'
      BY <2>1, <3>1, <3>2 DEF AnswerInv
    <3> QED
      BY <3>3, <3>4
  <2>3. CASE Poll
    BY <2>3 DEF Poll, LoadInv, AnswerInv, Finished, Uncounted, In, counters
  <2>4. CASE Load
    BY <2>4, LoadSteps
  <2>5. CASE Answer
    BY <2>1, <2>5 DEF Answer, LoadInv, AnswerInv, Finished, Uncounted, In, counters, ProgressTypeOK
  <2>6. CASE UNCHANGED progressVars
    BY <2>6 DEF progressVars, counters, reader, LoadInv, AnswerInv, Finished, Uncounted, In
  <2> QED
    BY <2>2, <2>3, <2>4, <2>5, <2>6 DEF ProgressNext, Work, Status
<1> QED
  BY <1>1, <1>2, TypesCorrect, CountInvariant, PTL DEF ProgressSpec

\* Status says "completed" only when no discovered file is left, although it
\* loads the counters one by one.
THEOREM PhaseCorrect == ProgressSpec => []PhaseHonest
<1>1. AnswerInv => PhaseHonest
  BY DEF AnswerInv, PhaseHonest, Finished
<1> QED
  BY <1>1, LoadInvariant, PTL

\* What the ETA takes for done was done by tasks of this run.
THEOREM EtaCorrect == ProgressSpec => []EtaCountsTasks
<1>1. AnswerInv => EtaCountsTasks
  BY DEF AnswerInv, EtaCountsTasks
<1> QED
  BY <1>1, LoadInvariant, PTL

\* The phase never goes back: an answer given later is never of an earlier
\* phase, although other answers are composed while the counters move.
THEOREM PhaseNeverGoesBack == ProgressSpec => PhaseForward
<1>1. /\ ProgressTypeOK /\ LoadInv /\ AnswerInv /\ [ProgressNext]_progressVars
      => [Rank(answer'.phase) >= Rank(answer.phase)]_progressVars
  <2> SUFFICES ASSUME ProgressTypeOK, LoadInv, AnswerInv, ProgressNext
               PROVE  Rank(answer'.phase) >= Rank(answer.phase)
    OBVIOUS
  <2>1. answer.phase \in {"none", "failed", "indexing", "processing", "completed"}
    BY DEF ProgressTypeOK
  <2>2. CASE Answer
    <3>1. at = "skipped" /\ answer'.phase = seen.phase
      BY <2>2 DEF Answer
    <3>2. seen.phase \in {"none", "failed", "indexing", "processing", "completed"}
      BY DEF ProgressTypeOK
    <3> QED
      BY <2>1, <3>1, <3>2 DEF LoadInv, AnswerInv, Rank
  <2>3. CASE answer' = answer
    BY <2>1, <2>3 DEF Rank
  <2>4. ~Answer => answer' = answer
    BY DEF ProgressNext, CancelRun, FailWalk, Walk, Tasks, Status, BeginWalk, Flush, EndWalk,
           Discover, StatFile, CountSkipped, Take, EndTask, Drain, Count, Poll, Load, reader
  <2> QED
    BY <2>2, <2>3, <2>4
<1> QED
  BY <1>1, TypesCorrect, LoadInvariant, PTL DEF ProgressSpec, PhaseForward

HIDE ProgressAssumption

----------------------------------------------------------------------------
(* The texts of a photo: first, numbers in rows of equal length              *)

\* Rows of w numbers do not overlap.
LEMMA RowsApart ==
  ASSUME NEW w \in Nat, NEW a \in Int, NEW b \in Int, a < b
  PROVE  a * w + w <= b * w
<1>1. (a + 1) * w = a * w + w
  OBVIOUS
<1>2. b - a - 1 \in Nat /\ (b - a - 1) * w >= 0
  OBVIOUS
<1>3. b * w = (a + 1) * w + (b - a - 1) * w
  OBVIOUS
<1> QED
  BY <1>1, <1>2, <1>3

\* So a number is in one row and one column of it,
LEMMA RowsUnique ==
  ASSUME NEW w \in Nat, NEW y \in Int, NEW q \in Int, NEW x \in 0..w - 1, NEW p \in 0..w - 1,
         y * w + x = q * w + p
  PROVE  y = q /\ x = p
<1>1. ~(y < q)
  <2> SUFFICES ASSUME y < q PROVE FALSE
    OBVIOUS
  <2>1. y * w + w <= q * w
    BY RowsApart
  <2> QED
    BY <2>1
<1>2. ~(q < y)
  <2> SUFFICES ASSUME q < y PROVE FALSE
    OBVIOUS
  <2>1. q * w + w <= y * w
    BY RowsApart
  <2> QED
    BY <2>1
<1>3. y = q
  BY <1>1, <1>2
<1> QED
  BY <1>3

\* those that the division and its rest give.
LEMMA RowAndColumn ==
  ASSUME NEW w \in Nat, NEW y \in Int, NEW x \in 0..w - 1
  PROVE  (y * w + x) \div w = y /\ (y * w + x) % w = x
<1> DEFINE i == y * w + x
<1>1. w \in Nat \ {0} /\ i \in Int
  OBVIOUS
<1> HIDE DEF i
<1> DEFINE q == i \div w
           p == i % w
<1>2. q \in Int /\ p \in 0..w - 1 /\ i = q * w + p
  BY <1>1
<1> HIDE DEF q, p
<1>3. y * w + x = q * w + p
  BY <1>2 DEF i
<1>4. y = q /\ x = p
  BY <1>2, <1>3, RowsUnique
<1> QED
  BY <1>4 DEF i, q, p

----------------------------------------------------------------------------
(* The regions of a mask                                                   *)

USE OcrRegionsAssumption

\* A pixel is its row and its column.
LEMMA PixelPlace ==
  ASSUME NEW i \in Pixels
  PROVE  /\ ColumnOf(i) \in 0..W - 1 /\ RowOf(i) \in 0..H - 1
         /\ i = RowOf(i) * W + ColumnOf(i)
<1>1. /\ RowOf(i) \in Int /\ ColumnOf(i) \in 0..W - 1 /\ i = RowOf(i) * W + ColumnOf(i)
      /\ i \in Int /\ 0 <= i /\ i < H * W
  BY DEF Pixels, RowOf, ColumnOf
<1>2. ~(RowOf(i) < 0)
  <2> SUFFICES ASSUME RowOf(i) < 0 PROVE FALSE
    OBVIOUS
  <2>1. RowOf(i) * W + W <= 0 * W
    BY <1>1, RowsApart
  <2> QED
    BY <1>1, <2>1
<1>3. ~(RowOf(i) > H)
  <2> SUFFICES ASSUME RowOf(i) > H PROVE FALSE
    OBVIOUS
  <2>1. H * W + W <= RowOf(i) * W
    BY <1>1, RowsApart
  <2> QED
    BY <1>1, <2>1
<1>4. RowOf(i) # H
  <2> SUFFICES ASSUME RowOf(i) = H PROVE FALSE
    OBVIOUS
  <2>1. RowOf(i) * W = H * W /\ RowOf(i) * W \in Int
    OBVIOUS
  <2> QED
    BY <1>1, <2>1
<1> QED
  BY <1>1, <1>2, <1>3, <1>4

\* And the other way round.
LEMMA PlacePixel ==
  ASSUME NEW x \in 0..W - 1, NEW y \in 0..H - 1
  PROVE  /\ y * W + x \in Pixels
         /\ ColumnOf(y * W + x) = x /\ RowOf(y * W + x) = y
<1> DEFINE i == y * W + x
<1>1. i \in Pixels
  <2>1. y * W + W <= H * W /\ y * W >= 0
    BY RowsApart
  <2> QED
    BY <2>1 DEF Pixels
<1> HIDE DEF i
<1>2. ColumnOf(i) = x /\ RowOf(i) = y
  BY RowAndColumn DEF i, ColumnOf, RowOf
<1> QED
  BY <1>1, <1>2 DEF i

\* The neighbours of a pixel are the pixels that touch it: none is missed or
\* taken from the other end of a row.
LEMMA NeighboursTouch ==
  ASSUME NEW i \in Pixels, NEW j \in Pixels
  PROVE  j \in Neighbours(i) <=> Touch(i, j)
<1>1. /\ ColumnOf(i) \in 0..W - 1 /\ RowOf(i) \in 0..H - 1
      /\ ColumnOf(j) \in 0..W - 1 /\ RowOf(j) \in 0..H - 1
      /\ j = RowOf(j) * W + ColumnOf(j)
  BY PixelPlace
<1>2. ASSUME j \in Neighbours(i) PROVE Touch(i, j)
  <2>1. PICK nx \in (ColumnOf(i) - 1 .. ColumnOf(i) + 1) \cap (0 .. W - 1),
             ny \in (RowOf(i) - 1 .. RowOf(i) + 1) \cap (0 .. H - 1) : j = ny * W + nx
    BY <1>2 DEF Neighbours
  <2>2. ColumnOf(j) = nx /\ RowOf(j) = ny
    BY <2>1, PlacePixel
  <2> QED
    BY <1>1, <2>1, <2>2 DEF Touch
<1>3. ASSUME Touch(i, j) PROVE j \in Neighbours(i)
  <2>1. /\ ColumnOf(j) \in (ColumnOf(i) - 1 .. ColumnOf(i) + 1) \cap (0 .. W - 1)
        /\ RowOf(j) \in (RowOf(i) - 1 .. RowOf(i) + 1) \cap (0 .. H - 1)
    BY <1>1, <1>3 DEF Touch
  <2> QED
    BY <1>1, <2>1 DEF Neighbours
<1> QED
  BY <1>2, <1>3

LEMMA TouchIsMutual ==
  ASSUME NEW i \in Pixels, NEW j \in Pixels
  PROVE  (Touch(i, j) => Touch(j, i)) /\ Touch(i, i)
<1>1. /\ ColumnOf(i) \in Int /\ RowOf(i) \in Int /\ ColumnOf(j) \in Int /\ RowOf(j) \in Int
  BY PixelPlace
<1> QED
  BY <1>1 DEF Touch

\* The region that is filled, with the pixels it has still to look around.
Cluster == region \cup {stack[k] : k \in DOMAIN stack}

Connected(r) == \A part \in (SUBSET r) \ {{}, r} : \E i \in part, j \in r \ part : Touch(i, j)

\* The regions and the cluster share nothing and are connected; nothing of the
\* mask touches a region from outside, or a filled pixel from outside the
\* cluster; what was scanned is visited.
RegionsInv ==
  /\ RegionsTypeOK
  /\ Cluster \subseteq visited
  /\ \A i \in visited : i \in Cluster \/ \E r \in regions : i \in r
  /\ \A r \in regions : /\ r \cap Cluster = {} /\ r # {} /\ Connected(r)
                        /\ \A i \in r : Neighbours(i) \cap mask \subseteq r
  /\ \A r, s \in regions : r # s => r \cap s = {}
  /\ Connected(Cluster)
  /\ \A i \in region : Neighbours(i) \cap mask \subseteq Cluster
  /\ \A i \in mask : i < scan => i \in visited
  /\ Cluster # {} => scan \in visited

LEMMA RegionsStart == RegionsInit => RegionsInv
<1> SUFFICES ASSUME RegionsInit PROVE RegionsInv
  OBVIOUS
<1>1. /\ mask \subseteq Pixels /\ scan = 0 /\ visited = {} /\ stack = <<>>
      /\ region = {} /\ regions = {}
  BY DEF RegionsInit
<1>2. stack \in Seq(visited) /\ DOMAIN stack = {} /\ Cluster = {}
  <2>1. stack \in Seq(visited) /\ Len(stack) = 0
    BY <1>1
  <2>2. DOMAIN stack = {}
    BY <2>1
  <2> QED
    BY <1>1, <2>1, <2>2 DEF Cluster
<1>3. W * H \in Nat /\ scan \in 0..W * H
  BY <1>1
<1> QED
  BY <1>1, <1>2, <1>3 DEF RegionsInv, RegionsTypeOK, Connected, Pixels

LEMMA StartRegionStep == ASSUME RegionsInv, StartRegion PROVE RegionsInv'
<1>1. /\ stack \in Seq(visited) /\ stack = <<>> /\ region = {} /\ scan \in 0..W * H
      /\ scan # W * H /\ W * H \in Nat
      /\ mask' = mask /\ region' = {} /\ regions' = regions
      /\ mask \subseteq Pixels /\ visited \subseteq mask
  BY DEF StartRegion, RegionsInv, RegionsTypeOK, Scanned
<1>2. scan \in Pixels /\ scan \in Int /\ scan + 1 \in 0..W * H
  BY <1>1 DEF Pixels
<1>3. DOMAIN stack = {} /\ Cluster = {}
  <2>1. Len(stack) = 0 /\ DOMAIN stack = 1..Len(stack)
    BY <1>1
  <2>2. DOMAIN stack = {}
    BY <2>1
  <2> QED
    BY <1>1, <2>2 DEF Cluster
<1>4. CASE scan \in mask \ visited
  <2>1. stack' = <<scan>> /\ visited' = visited \cup {scan} /\ scan' = scan
    BY <1>4 DEF StartRegion
  <2>2. stack' \in Seq(visited') /\ DOMAIN stack' = {1} /\ stack'[1] = scan
    BY <2>1
  <2>3. Cluster' = {scan}
    BY <1>1, <2>2 DEF Cluster
  <2>4. Connected(Cluster)'
    BY <2>3 DEF Connected
  <2>5. RegionsTypeOK'
    BY <1>1, <1>4, <2>1, <2>2 DEF RegionsInv, RegionsTypeOK
  <2>6. /\ Cluster' \subseteq visited'
        /\ \A j \in visited' : j \in Cluster' \/ \E r \in regions' : j \in r
    BY <1>1, <1>3, <2>1, <2>3 DEF RegionsInv
  <2>7. \A r \in regions : scan \notin r
    BY <1>4 DEF RegionsInv, RegionsTypeOK
  <2> QED
    BY <1>1, <2>1, <2>3, <2>4, <2>5, <2>6, <2>7 DEF RegionsInv, Connected
<1>5. CASE scan \notin mask \ visited
  <2>1. scan' = scan + 1 /\ stack' = stack /\ visited' = visited
    BY <1>5 DEF StartRegion
  <2>2. \A i \in mask : i < scan + 1 => i \in visited
    <3> SUFFICES ASSUME NEW i \in mask, i < scan + 1, i \notin visited PROVE FALSE
      OBVIOUS
    <3>1. i \in Int /\ ~(i < scan)
      BY <1>1 DEF RegionsInv, Pixels
    <3>2. i = scan
      BY <1>2, <3>1
    <3> QED
      BY <1>5, <3>2
  <2>3. Cluster' = Cluster
    BY <1>1, <2>1 DEF Cluster
  <2> QED
    BY <1>1, <1>2, <1>3, <2>1, <2>2, <2>3 DEF RegionsInv, RegionsTypeOK, Connected
<1> QED
  BY <1>4, <1>5

\* A connected set stays so with pixels that touch one of it.
LEMMA ConnectedGrows ==
  ASSUME NEW C \in SUBSET Pixels, Connected(C), NEW i \in C, NEW new \in SUBSET Pixels,
         \A j \in new : Touch(i, j)
  PROVE  Connected(C \cup new)
<1> SUFFICES ASSUME NEW part \in SUBSET (C \cup new), part # {}, part # C \cup new
             PROVE  \E x \in part, y \in (C \cup new) \ part : Touch(x, y)
  BY DEF Connected
<1>1. CASE part \cap C = {}
  <2>1. PICK x \in part : x \in new /\ i \notin part
    BY <1>1
  <2>2. Touch(x, i)
    BY <2>1, TouchIsMutual
  <2> QED
    BY <2>1, <2>2
<1>2. CASE C \subseteq part
  <2>1. PICK y \in (C \cup new) \ part : TRUE
    OBVIOUS
  <2>2. Touch(i, y) /\ i \in part
    BY <1>2, <2>1
  <2> QED
    BY <2>1, <2>2
<1>3. CASE part \cap C # {} /\ ~(C \subseteq part)
  <2>1. part \cap C \in (SUBSET C) \ {{}, C}
    BY <1>3
  <2>2. PICK x \in part \cap C, y \in C \ (part \cap C) : Touch(x, y)
    BY <2>1 DEF Connected
  <2> QED
    BY <2>2
<1> QED
  BY <1>1, <1>2, <1>3

LEMMA FillStep == ASSUME RegionsInv, Fill PROVE RegionsInv'
<1> DEFINE i == Last(stack)
           new == (Neighbours(i) \cap mask) \ visited
<1>1. /\ RegionsTypeOK /\ stack # <<>> /\ region' = region \cup {i}
      /\ visited' = visited \cup new /\ stack' = Front(stack) \o Ascending(new)
      /\ mask' = mask /\ scan' = scan /\ regions' = regions
  BY DEF Fill, RegionsInv
<1>2. /\ mask \subseteq Pixels /\ visited \subseteq mask /\ region \subseteq visited
      /\ scan \in 0..W * H /\ stack \in Seq(visited) /\ regions \subseteq SUBSET visited
  BY <1>1 DEF RegionsTypeOK
<1>3. /\ Len(stack) \in Nat \ {0} /\ DOMAIN stack = 1..Len(stack)
      /\ i = stack[Len(stack)] /\ i \in visited /\ i \in Pixels
      /\ Front(stack) = [k \in 1..Len(stack) - 1 |-> stack[k]]
  BY <1>1, <1>2 DEF Last, Front
<1>4. IsFiniteSet(new) /\ new \in SUBSET Int /\ new \in SUBSET mask /\ new \in SUBSET Pixels
  <2>1. IsFiniteSet(Pixels) /\ Pixels \subseteq Int
    BY FS_Interval DEF Pixels
  <2>2. new \in SUBSET Pixels
    BY <1>2
  <2> QED
    BY <2>1, <2>2, FS_Subset
<1> HIDE DEF i
<1>n. \A j : j \in new <=> j \in Neighbours(i) /\ j \in mask /\ j \notin visited
  OBVIOUS
<1> HIDE DEF new
<1>5. /\ Ascending(new) \in Seq(new)
      /\ \A j : j \in new <=> \E k \in DOMAIN Ascending(new) : Ascending(new)[k] = j
  <2>1. /\ Cardinality(new) \in Nat /\ Ascending(new) \in [1..Cardinality(new) -> new]
        /\ \A x \in new : \E k \in 1..Cardinality(new) : Ascending(new)[k] = x
    BY <1>4, AscendingNumbers
  <2> QED
    BY <2>1
<1>6. /\ stack' \in Seq(visited')
      /\ {stack'[k] : k \in DOMAIN stack'} \cup {i}
           = {stack[k] : k \in DOMAIN stack} \cup new
  <2> DEFINE front == Front(stack)
             back == Ascending(new)
  <2>1. /\ front \in Seq(visited') /\ Len(front) = Len(stack) - 1
        /\ DOMAIN front = 1..Len(front) /\ \A k \in DOMAIN front : front[k] = stack[k]
    BY <1>1, <1>2, <1>3
  <2>2. back \in Seq(visited') /\ DOMAIN back = 1..Len(back) /\ Len(back) \in Nat
    BY <1>1, <1>5
  <2> HIDE DEF front, back
  <2>3. /\ stack' \in Seq(visited') /\ DOMAIN stack' = 1..Len(front) + Len(back)
        /\ \A k \in DOMAIN front : stack'[k] = front[k]
        /\ \A k \in DOMAIN back : stack'[Len(front) + k] = back[k]
        /\ Len(front) \in Nat
    BY <1>1, <1>3, <2>1, <2>2 DEF front, back
  <2>4. \A k \in DOMAIN stack' : \/ k \in DOMAIN front
                                 \/ /\ k - Len(front) \in DOMAIN back
                                    /\ k = Len(front) + (k - Len(front))
    BY <2>1, <2>2, <2>3
  <2>5. /\ \A k \in DOMAIN front : k \in DOMAIN stack' /\ k \in DOMAIN stack
        /\ \A k \in DOMAIN back : Len(front) + k \in DOMAIN stack'
        /\ \A k \in DOMAIN stack : k \in DOMAIN front \/ k = Len(stack)
    BY <1>3, <2>1, <2>2, <2>3
  <2>6. \A j : (\E k \in DOMAIN stack' : stack'[k] = j)
                 => (\E k \in DOMAIN stack : stack[k] = j) \/ j \in new
    BY <1>5, <2>1, <2>3, <2>4, <2>5 DEF back
  <2>7. \A j \in new : \E k \in DOMAIN stack' : stack'[k] = j
    BY <1>5, <2>3, <2>5 DEF back
  <2>8. \A k \in DOMAIN stack : stack[k] = i \/ \E m \in DOMAIN stack' : stack'[m] = stack[k]
    BY <1>3, <2>1, <2>3, <2>5
  <2>9. \E k \in DOMAIN stack : stack[k] = i
    BY <1>3
  <2> QED
    BY <2>3, <2>6, <2>7, <2>8, <2>9
<1>7. Cluster' = Cluster \cup new /\ i \in Cluster /\ Cluster \in SUBSET Pixels
  <2>1. i \in Cluster
    BY <1>3 DEF Cluster
  <2>2. Cluster \subseteq visited
    BY DEF RegionsInv
  <2> QED
    BY <1>1, <1>2, <1>6, <2>1, <2>2 DEF Cluster
<1>8. \A j \in new : Touch(i, j) /\ j \in Pixels
  BY <1>3, <1>4, <1>n, NeighboursTouch
<1>9. Connected(Cluster)'
  <2>1. Connected(Cluster)
    BY DEF RegionsInv
  <2>2. Connected(Cluster \cup new)
    BY <1>4, <1>7, <1>8, <2>1, ConnectedGrows
  <2> QED
    BY <1>7, <2>2 DEF Connected
<1>10. RegionsTypeOK'
  BY <1>1, <1>2, <1>3, <1>4, <1>6 DEF RegionsTypeOK
<1>11. Neighbours(i) \cap mask \subseteq Cluster'
  <2> SUFFICES ASSUME NEW j \in Neighbours(i) \cap mask, j \notin new PROVE j \in Cluster
    BY <1>7
  <2>1. j \in visited /\ j \in Pixels
    BY <1>2, <1>n
  <2>2. i \in Neighbours(j) \cap mask
    BY <1>2, <1>3, <2>1, NeighboursTouch, TouchIsMutual
  <2>3. \A r \in regions : j \notin r
    BY <1>7, <2>2 DEF RegionsInv
  <2> QED
    BY <2>1, <2>3 DEF RegionsInv
<1>12. /\ Cluster' \subseteq visited'
         /\ \A j \in visited' : j \in Cluster' \/ \E r \in regions' : j \in r
  BY <1>1, <1>7 DEF RegionsInv
<1>13. \A r \in regions : r \cap Cluster' = {}
  BY <1>2, <1>7, <1>n DEF RegionsInv
<1>14. Cluster' # {} => scan \in visited'
  BY <1>1, <1>7 DEF RegionsInv
<1> QED
  BY <1>1, <1>7, <1>9, <1>10, <1>11, <1>12, <1>13, <1>14 DEF RegionsInv, Connected

LEMMA EndRegionStep == ASSUME RegionsInv, EndRegion PROVE RegionsInv'
<1>1. /\ RegionsTypeOK /\ stack = <<>> /\ region # {} /\ region' = {}
      /\ regions' = regions \cup {region} /\ scan' = scan + 1
      /\ mask' = mask /\ visited' = visited /\ stack' = stack
  BY DEF EndRegion, RegionsInv
<1>2. stack \in Seq(visited) /\ DOMAIN stack = {} /\ Cluster = region /\ Cluster' = {}
  <2>1. stack \in Seq(visited) /\ Len(stack) = 0
    BY <1>1 DEF RegionsTypeOK
  <2>2. DOMAIN stack = {}
    BY <2>1
  <2> QED
    BY <1>1, <2>1, <2>2 DEF Cluster
<1>3. scan \in visited /\ scan \in Pixels /\ scan \in Int /\ scan + 1 \in 0..W * H
  <2>1. scan \in visited /\ scan \in Pixels
    BY <1>1, <1>2 DEF RegionsInv, RegionsTypeOK
  <2> QED
    BY <2>1 DEF Pixels
<1>4. \A i \in mask : i < scan + 1 => i \in visited
  <2> SUFFICES ASSUME NEW i \in mask, i < scan + 1, i \notin visited PROVE FALSE
    OBVIOUS
  <2>1. i \in Int /\ ~(i < scan)
    BY <1>1 DEF RegionsInv, RegionsTypeOK, Pixels
  <2>2. i = scan
    BY <1>3, <2>1
  <2> QED
    BY <1>3, <2>2
<1>5. RegionsTypeOK'
  BY <1>1, <1>3 DEF RegionsTypeOK
<1>6. /\ Cluster' \subseteq visited'
        /\ \A j \in visited' : j \in Cluster' \/ \E r \in regions' : j \in r
  BY <1>1, <1>2 DEF RegionsInv
<1>7. \A r \in regions' : /\ r # {} /\ Connected(r)
                          /\ \A i \in r : Neighbours(i) \cap mask \subseteq r
  BY <1>1, <1>2 DEF RegionsInv
<1>8. \A r, s \in regions' : r # s => r \cap s = {}
  BY <1>1, <1>2 DEF RegionsInv
<1> QED
  BY <1>1, <1>2, <1>4, <1>5, <1>6, <1>7, <1>8 DEF RegionsInv, Connected

LEMMA RegionsInvariant == RegionsSpec => []RegionsInv
<1>1. RegionsInv /\ UNCHANGED regionVars => RegionsInv'
  <2> SUFFICES ASSUME RegionsInv, UNCHANGED regionVars PROVE RegionsInv'
    OBVIOUS
  <2>1. UNCHANGED <<mask, scan, visited, stack, region, regions>>
    BY DEF regionVars
  <2>2. Cluster' = Cluster
    BY <2>1 DEF Cluster
  <2>3. RegionsTypeOK' /\ Connected(Cluster)'
    BY <2>1, <2>2 DEF RegionsInv, RegionsTypeOK, Connected
  <2> QED
    BY <2>1, <2>2, <2>3 DEF RegionsInv
<1>2. RegionsInv /\ [RegionsNext]_regionVars => RegionsInv'
  BY <1>1, StartRegionStep, FillStep, EndRegionStep DEF RegionsNext
<1> QED
  BY RegionsStart, <1>2, PTL DEF RegionsSpec

\* The flood fill takes a mask of any size apart into its components: the
\* regions cover it, do not touch each other, and each hangs together.
THEOREM RegionsCorrect == RegionsSpec => []RegionsAreComponents
<1>1. RegionsInv => RegionsAreComponents
  <2> SUFFICES ASSUME RegionsInv, Scanned PROVE RegionsAreComponents
    BY DEF RegionsAreComponents
  <2>1. /\ mask \subseteq Pixels /\ visited \subseteq mask /\ scan = W * H
        /\ \A i \in Pixels : i < W * H /\ i \in Int
    BY DEF RegionsInv, RegionsTypeOK, Scanned, Pixels
  <2>2. visited = mask
    BY <2>1 DEF RegionsInv
  <2>3. Cluster = {}
    <3>1. scan \notin visited
      BY <2>1
    <3> QED
      BY <3>1 DEF RegionsInv
  <2>4. UNION regions = mask
    BY <2>1, <2>2, <2>3 DEF RegionsInv, RegionsTypeOK
  <2>5. ASSUME NEW r \in regions, NEW s \in regions, r # s, NEW i \in r, NEW j \in s
        PROVE  ~Touch(i, j)
    <3>1. i \in mask /\ j \in mask /\ j \notin r
      BY <2>4, <2>5 DEF RegionsInv
    <3>2. j \notin Neighbours(i)
      BY <3>1 DEF RegionsInv
    <3> QED
      BY <2>1, <3>1, <3>2, NeighboursTouch
  <2> QED
    BY <2>4, <2>5 DEF RegionsAreComponents, RegionsInv, Connected
<1> QED
  BY <1>1, RegionsInvariant, PTL

----------------------------------------------------------------------------
(* The texts of the crops                                                  *)

HIDE OcrRegionsAssumption
USE OcrRecognizeAssumption

Shift(S, d) == {i + d : i \in S}

\* Who is in a shifted set.
LEMMA ShiftMembers ==
  ASSUME NEW S \in SUBSET Int, NEW d \in Int
  PROVE  /\ Shift(S, d) \in SUBSET Int
         /\ \A j : j \in Shift(S, d) <=> j \in Int /\ j - d \in S
BY DEF Shift

\* Shifted numbers are as many.
LEMMA ShiftCounts ==
  ASSUME NEW S \in SUBSET Int, IsFiniteSet(S), NEW d \in Int
  PROVE  /\ IsFiniteSet(Shift(S, d))
         /\ Cardinality(Shift(S, d)) = Cardinality(S)
<1> DEFINE T == Shift(S, d)
           f == [i \in S |-> i + d]
<1>1. f \in [S -> T] /\ \A x, y \in S : f[x] = f[y] => x = y
  <2>1. \A x \in S : x \in Int /\ f[x] = x + d /\ x + d \in T
    BY DEF Shift
  <2>2. f \in [S -> T]
    BY <2>1
  <2> HIDE DEF f
  <2> QED
    BY <2>1, <2>2
<1>2. \A t \in T : \E x \in S : f[x] = t
  BY DEF Shift
<1> HIDE DEF f, T
<1>3. f \in Bijection(S, T)
  BY <1>1, <1>2 DEF Bijection, Injection, Surjection, IsInjective
<1>4. ExistsBijection(S, T)
  BY <1>3 DEF ExistsBijection
<1>5. IsFiniteSet(T) /\ Cardinality(T) = Cardinality(S)
  BY <1>4, FS_Bijection
<1> QED
  BY <1>5 DEF T

\* And they come in the same order.
LEMMA ShiftKeepsOrder ==
  ASSUME NEW S \in SUBSET Int, IsFiniteSet(S), NEW d \in Int
  PROVE  /\ DOMAIN Ascending(Shift(S, d)) = 1..Cardinality(S)
         /\ \A n \in 1..Cardinality(S) : Ascending(Shift(S, d))[n] = Ascending(S)[n] + d
<1> DEFINE T == Shift(S, d)
           lessS == {p \in S \X S : p[1] < p[2]}
           lessT == {p \in T \X T : p[1] < p[2]}
<1>1. T \in SUBSET Int /\ IsFiniteSet(T) /\ Cardinality(T) = Cardinality(S)
  BY ShiftCounts, ShiftMembers
<1>2. IsStrictOrder(S, lessS) /\ IsStrictOrder(T, lessT)
  BY <1>1 DEF IsStrictOrder
<1>3. ASSUME NEW x \in S
      PROVE  /\ x + d \in T
             /\ Cardinality(Below(T, lessT, x + d)) = Cardinality(Below(S, lessS, x))
  <2>5. x + d \in T
    BY DEF Shift
  <2> DEFINE B == Below(S, lessS, x)
  <2>1. B \in SUBSET S /\ B \in SUBSET Int
    BY DEF Below
  <2>2. Below(T, lessT, x + d) = Shift(B, d)
    <3>1. \A j : j \in Below(T, lessT, x + d) <=> j \in T /\ j < x + d
      BY <1>1, <2>5 DEF Below
    <3>2. \A j : j \in B <=> j \in S /\ j < x
      BY DEF Below
    <3> HIDE DEF B
    <3>3. \A j : j \in Shift(B, d) <=> j \in Below(T, lessT, x + d)
      BY <2>1, <3>1, <3>2, ShiftMembers
    <3> QED
      BY <3>3
  <2>3. IsFiniteSet(B)
    BY <2>1, FS_Subset
  <2> HIDE DEF B
  <2>4. Cardinality(Shift(B, d)) = Cardinality(B)
    BY <2>1, <2>3, ShiftCounts
  <2> QED
    BY <2>2, <2>4, <2>5 DEF B
<1>4. /\ Ascending(S) = Ranked(S, lessS) /\ Ascending(T) = Ranked(T, lessT)
  BY DEF Ascending
<1> HIDE DEF T, lessS, lessT
<1>5. /\ Cardinality(S) \in Nat
      /\ Ascending(S) \in [1..Cardinality(S) -> S]
      /\ \A k \in 1..Cardinality(S) : Cardinality(Below(S, lessS, Ascending(S)[k])) = k - 1
  BY <1>2, <1>4, RankedSorts
<1>6. /\ Ascending(T) \in [1..Cardinality(S) -> T]
      /\ \A k \in 1..Cardinality(S) : Cardinality(Below(T, lessT, Ascending(T)[k])) = k - 1
  BY <1>1, <1>2, <1>4, RankedSorts
<1>7. ASSUME NEW n \in 1..Cardinality(S) PROVE Ascending(T)[n] = Ascending(S)[n] + d
  <2> DEFINE x == Ascending(S)[n] + d
             y == Ascending(T)[n]
  <2>1. x \in T /\ y \in T
    BY <1>3, <1>5, <1>6
  <2>2. Cardinality(Below(T, lessT, x)) = n - 1 /\ Cardinality(Below(T, lessT, y)) = n - 1
    BY <1>3, <1>5, <1>6
  <2> HIDE DEF x, y
  <2>3. n - 1 \in Int /\ ~(n - 1 < n - 1)
    BY <1>5
  <2>4. <<x, y>> \notin lessT /\ <<y, x>> \notin lessT
    BY <1>1, <1>2, <2>1, <2>2, <2>3, RankGrows
  <2>5. x = y
    BY <1>2, <2>1, <2>4 DEF IsStrictOrder
  <2> QED
    BY <2>5 DEF x, y
<1> QED
  BY <1>6, <1>7 DEF T

\* What is decoded from a part of the classes is what is decoded from that
\* part alone.
LEMMA DecodePart ==
  ASSUME NEW c, NEW r \in Seq(Nat), NEW d \in Nat,
         \A i \in 1..Len(r) : c[d + i] = r[i]
  PROVE  Decode(c, d + 1, d + Len(r)) = Decode(r, 1, Len(r))
<1> DEFINE n == Len(r)
           S == {i \in 1..n : r[i] # BlankClass /\ (i = 1 \/ r[i] # r[i - 1])}
           T == {i \in d + 1..d + n : c[i] # BlankClass /\ (i = d + 1 \/ c[i] # c[i - 1])}
<1>1. n \in Nat
  OBVIOUS
<1>2. ASSUME NEW i \in 1..n PROVE i \in S <=> i + d \in T
  <2>1. c[i + d] = r[i] /\ i + d \in d + 1..d + n /\ (i = 1 <=> i + d = d + 1)
    OBVIOUS
  <2>2. i # 1 => i - 1 \in 1..n /\ (i + d) - 1 = d + (i - 1)
    OBVIOUS
  <2>3. i # 1 => c[(i + d) - 1] = r[i - 1]
    BY <2>2
  <2> QED
    BY <2>1, <2>3
<1>3. T = Shift(S, d)
  <2>1. ASSUME NEW j \in T PROVE \E i \in S : j = i + d
    <3>1. j - d \in 1..n /\ j = (j - d) + d
      BY <1>1
    <3> QED
      BY <1>2, <2>1, <3>1
  <2>2. ASSUME NEW i \in S PROVE i + d \in T
    BY <1>2, <2>2
  <2> HIDE DEF S, T
  <2> QED
    BY <2>1, <2>2 DEF Shift
<1>4. S \in SUBSET Int /\ IsFiniteSet(S) /\ S \subseteq 1..n
  <2>1. IsFiniteSet(1..n) /\ 1..n \subseteq Int
    BY <1>1, FS_Interval
  <2>2. S \in SUBSET (1..n)
    OBVIOUS
  <2> HIDE DEF S
  <2> QED
    BY <2>1, <2>2, FS_Subset
<1>5. /\ Decode(c, d + 1, d + n) = [m \in DOMAIN Ascending(T) |-> c[Ascending(T)[m]]]
      /\ Decode(r, 1, n) = [m \in DOMAIN Ascending(S) |-> r[Ascending(S)[m]]]
  BY DEF Decode
<1> HIDE DEF S, T, n
<1>6. /\ DOMAIN Ascending(T) = 1..Cardinality(S)
      /\ \A m \in 1..Cardinality(S) : Ascending(T)[m] = Ascending(S)[m] + d
  <2>1. S \in SUBSET Int /\ IsFiniteSet(S) /\ d \in Int
    BY <1>4
  <2>2. /\ DOMAIN Ascending(Shift(S, d)) = 1..Cardinality(S)
        /\ \A m \in 1..Cardinality(S) : Ascending(Shift(S, d))[m] = Ascending(S)[m] + d
    BY <2>1, ShiftKeepsOrder
  <2> QED
    BY <1>3, <2>2
<1>7. Ascending(S) \in [1..Cardinality(S) -> S]
  BY <1>4, AscendingNumbers
<1>8. ASSUME NEW m \in 1..Cardinality(S) PROVE c[Ascending(T)[m]] = r[Ascending(S)[m]]
  <2>1. Ascending(S)[m] \in 1..n
    BY <1>4, <1>7
  <2> QED
    BY <1>6, <2>1 DEF n
<1>9. DOMAIN Ascending(S) = 1..Cardinality(S) /\ DOMAIN Ascending(T) = 1..Cardinality(S)
  BY <1>6, <1>7
<1>10. Decode(c, d + 1, d + n) = Decode(r, 1, n)
  BY <1>5, <1>8, <1>9
<1> QED
  BY <1>10 DEF n

\* The crops before start are in one place of one batch and hold their own
\* texts, the others are nowhere and have none.
ReadInv ==
  /\ widths \in [Crops -> Widths] /\ reading \in [Crops -> Readings]
  /\ byWidth \in [Crops -> Crops] /\ \A i, j \in Crops : byWidth[i] = byWidth[j] => i = j
  /\ Sorted(byWidth)
  /\ start \in 1..Boxes + 1
  /\ batches \in Seq(Seq(Crops))
  /\ \A j \in Crops :
       IF j < start
         THEN /\ texts[byWidth[j]] = Decode(reading[byWidth[j]], 1, Len(reading[byWidth[j]]))
              /\ \E p \in (DOMAIN batches) \X Crops : PlacesOf(byWidth[j]) = {p}
         ELSE PlacesOf(byWidth[j]) = {} /\ texts[byWidth[j]] = <<>>
  /\ \A n \in DOMAIN batches : \A k, j \in ToSet(batches[n]) :
       /\ widths[k] <= 2 * widths[j]
       /\ Len(batches[n]) > 1 => Len(batches[n]) * PaddedWidth(widths[k]) <= MaxBatchWidth

\* The crops, as a finite set.
LEMMA CropsFinite ==
  /\ IsFiniteSet(Crops) /\ Crops \subseteq Nat \ {0}
  /\ Cardinality(Crops) = Boxes
BY FS_Interval DEF Crops

\* Every crop has a place in the order.
LEMMA OrderIsWhole ==
  ASSUME ReadInv, NEW k \in Crops
  PROVE  \E j \in Crops : byWidth[j] = k
<1>1. byWidth \in Injection(Crops, Crops)
  BY DEF ReadInv, Injection, IsInjective
<1>2. byWidth \in Surjection(Crops, Crops)
  BY <1>1, CropsFinite, FS_Injection
<1> QED
  BY <1>2 DEF Surjection

LEMMA ReadStart == RecognizeInit => ReadInv
<1> SUFFICES ASSUME RecognizeInit PROVE ReadInv
  OBVIOUS
<1>1. byWidth \in [Crops -> Crops] /\ \A i, j \in Crops : byWidth[i] = byWidth[j] => i = j
  <2>1. Cardinality(Crops) = Boxes
    BY CropsFinite
  <2> QED
    BY <2>1 DEF RecognizeInit, SetToSeqs, Crops
<1>2. /\ start = 1 /\ batches = <<>> /\ batches \in Seq(Seq(Crops)) /\ Len(batches) = 0
      /\ widths \in [Crops -> Widths] /\ reading \in [Crops -> Readings] /\ Sorted(byWidth)
  BY DEF RecognizeInit
<1>3. DOMAIN batches = {}
  BY <1>2
<1>4. \A k : PlacesOf(k) = {}
  BY <1>3 DEF PlacesOf
<1>5. \A j \in Crops : ~(j < start) /\ texts[byWidth[j]] = <<>>
  BY <1>1, <1>2, CropsFinite DEF RecognizeInit
<1>6. start \in 1..Boxes + 1
  BY <1>2
<1> QED
  BY <1>1, <1>2, <1>3, <1>4, <1>5, <1>6 DEF ReadInv

\* A batch ends where the next crop does not fit, or the crops do.
LEMMA BatchEnds ==
  ASSUME ReadInv, start <= Boxes
  PROVE  /\ End \in start..Boxes
         /\ \A i \in start + 1..End : Fits(i)
<1> DEFINE Stop(e) == e < Boxes => ~Fits(e + 1)
           stops == {e \in start..Boxes : Stop(e)}
<1>1. start \in Int /\ Boxes \in Int /\ start..Boxes \subseteq Int /\ IsFiniteSet(start..Boxes)
  BY FS_Interval DEF ReadInv
<1>2. stops \in SUBSET Int /\ IsFiniteSet(stops) /\ Boxes \in stops
  <2>1. stops \in SUBSET (start..Boxes) /\ Boxes \in stops
    BY <1>1
  <2> HIDE DEF stops
  <2> QED
    BY <1>1, <2>1, FS_Subset
<1>3. \A e : e \in stops <=> e \in start..Boxes /\ Stop(e)
  OBVIOUS
<1> HIDE DEF stops
<1>4. PICK end \in stops : \A e \in stops : end <= e
  BY <1>2, LeastNumber
<1>5. end \in start..Boxes /\ Stop(end)
  BY <1>3
<1>6. ASSUME NEW i \in start + 1..end PROVE Fits(i)
  <2>1. i - 1 \in start..Boxes /\ i - 1 < end /\ i - 1 < Boxes /\ (i - 1) + 1 = i /\ i - 1 \in Int
    BY <1>1, <1>5
  <2>2. i - 1 \notin stops
    BY <1>2, <1>4, <2>1
  <2>3. ~Stop(i - 1)
    BY <1>3, <2>1, <2>2
  <2> QED
    BY <2>1, <2>3
<1>7. \E e \in start..Boxes : (\A i \in start + 1..e : Fits(i)) /\ (e < Boxes => ~Fits(e + 1))
  BY <1>5, <1>6
<1> QED
  BY <1>7 DEF End

\* A wider crop is padded to no less.
LEMMA PaddedGrows ==
  ASSUME NEW a \in Nat, NEW b \in Nat, a <= b, NEW n \in Nat
  PROVE  /\ PaddedWidth(a) \in Nat /\ PaddedWidth(b) \in Nat
         /\ n * PaddedWidth(a) <= n * PaddedWidth(b)
<1>1. PaddedWidth(a) \in Nat /\ PaddedWidth(b) \in Nat /\ PaddedWidth(a) <= PaddedWidth(b)
  BY DEF PaddedWidth
<1> DEFINE x == PaddedWidth(a)
           y == PaddedWidth(b)
<1>2. x \in Nat /\ y \in Nat /\ x <= y
  BY <1>1
<1> HIDE DEF x, y
<1>3. (y - x) \in Nat /\ n * (y - x) >= 0
  BY <1>2
<1>4. n * y = n * x + n * (y - x)
  BY <1>2
<1>5. n * x <= n * y /\ n * x \in Int
  BY <1>2, <1>3, <1>4
<1> QED
  BY <1>1, <1>5 DEF x, y

\* The widths of a batch.
LEMMA BatchFits ==
  ASSUME ReadInv, start <= Boxes, NEW a \in start..End, NEW b \in start..End
  PROVE  /\ widths[byWidth[a]] <= 2 * widths[byWidth[b]]
         /\ End - start + 1 > 1 =>
              (End - start + 1) * PaddedWidth(widths[byWidth[a]]) <= MaxBatchWidth
<1>1. End \in start..Boxes /\ \A i \in start + 1..End : Fits(i)
  BY BatchEnds
<1>2. start \in Crops /\ End \in Crops /\ a \in Crops /\ b \in Crops /\ start \in Int /\ End \in Int
  BY <1>1 DEF ReadInv, Crops
<1>3. \A i \in Crops : widths[byWidth[i]] \in Nat /\ widths[byWidth[i]] > 0
  <2> SUFFICES ASSUME NEW i \in Crops
               PROVE  widths[byWidth[i]] \in Nat /\ widths[byWidth[i]] > 0
    OBVIOUS
  <2>1. byWidth[i] \in Crops
    BY DEF ReadInv
  <2>2. widths[byWidth[i]] \in Widths
    BY <2>1 DEF ReadInv
  <2>3. Widths \subseteq Nat \ {0}
    OBVIOUS
  <2> HIDE OcrRecognizeAssumption
  <2>4. \A w \in Nat \ {0} : w > 0
    OBVIOUS
  <2> QED
    BY <2>2, <2>3, <2>4
<1>4. /\ widths[byWidth[start]] <= widths[byWidth[b]]
      /\ widths[byWidth[a]] <= widths[byWidth[End]]
  <2>1. (start = b \/ start < b) /\ (a = End \/ a < End)
    <3>1. start <= b /\ a <= End /\ a \in Int /\ b \in Int
      BY <1>2 DEF Crops
    <3> QED
      BY <1>2, <3>1
  <2> QED
    BY <1>2, <1>3, <2>1 DEF ReadInv, Sorted
<1>5. CASE End = start
  <2>1. a = b
    BY <1>2, <1>5
  <2> QED
    BY <1>1, <1>2, <1>3, <1>5, <2>1
<1>6. CASE End # start
  <2>1. Fits(End)
    <3>1. End \in start + 1..End
      BY <1>1, <1>2, <1>6
    <3> QED
      BY <1>1, <3>1
  <2>2. /\ widths[byWidth[End]] <= 2 * widths[byWidth[start]]
        /\ (End - start + 1) * PaddedWidth(widths[byWidth[End]]) <= MaxBatchWidth
    BY <2>1 DEF Fits
  <2>3. widths[byWidth[a]] <= 2 * widths[byWidth[b]]
    BY <1>2, <1>3, <1>4, <2>2
  <2>4. End - start + 1 \in Nat
    <3>1. start <= End
      BY <1>1, <1>2
    <3> QED
      BY <1>2, <3>1
  <2> DEFINE n == End - start + 1
             v == widths[byWidth[a]]
             u == widths[byWidth[End]]
  <2>5. n \in Nat /\ v \in Nat /\ u \in Nat /\ v <= u /\ n * PaddedWidth(u) <= MaxBatchWidth
    BY <1>2, <1>3, <1>4, <2>2, <2>4
  <2> HIDE DEF n, v, u
  <2>6. n * PaddedWidth(v) <= n * PaddedWidth(u) /\ PaddedWidth(v) \in Nat /\ PaddedWidth(u) \in Nat
    BY <2>5, PaddedGrows
  <2>7. n * PaddedWidth(v) <= MaxBatchWidth
    <3> DEFINE s == n * PaddedWidth(v)
               t == n * PaddedWidth(u)
    <3>1. s \in Int /\ t \in Int /\ s <= t /\ t <= MaxBatchWidth
      BY <2>5, <2>6
    <3> HIDE DEF s, t
    <3>2. s <= MaxBatchWidth
      BY <3>1
    <3> QED
      BY <3>2 DEF s
  <2> QED
    BY <2>3, <2>7 DEF n, v
<1> QED
  BY <1>5, <1>6

\* What the network gives for the crop at place b of a batch.
LEMMA OutputOfCrop ==
  ASSUME ReadInv, NEW batch \in Seq(Crops), NEW b \in DOMAIN batch
  PROVE  LET classes == Output(batch)
             steps == Len(classes) \div Len(batch)
             r == reading[batch[b]]
         IN  Decode(classes, (b - 1) * steps + 1, b * steps) = Decode(r, 1, Len(r))
<1> DEFINE classes == Output(batch)
           steps == Len(classes) \div Len(batch)
           r == reading[batch[b]]
           T == Len(r)
           L == Len(batch)
<1>1. L \in Nat \ {0} /\ b \in 1..L /\ \A c \in 1..L : batch[c] \in Crops
  OBVIOUS
<1>2. \A c \in 1..L : reading[batch[c]] \in Readings
  BY <1>1 DEF ReadInv
<1>3. r \in Seq(Nat) /\ T \in Nat /\ Len(reading[batch[1]]) = T
  BY <1>1, <1>2
<1>4. classes = [n \in 1..L * T |-> reading[batch[(n - 1) \div T + 1]][((n - 1) % T) + 1]]
  BY <1>3 DEF Output
<1> HIDE DEF classes, r, T, L
<1>5. L * T \in Nat
  BY <1>1, <1>3
<1>6. Len(classes) = L * T
  BY <1>4, <1>5
<1>7. steps = T
  <2>1. L * T = T * L + 0 /\ 0 \in 0..L - 1
    BY <1>1, <1>3
  <2>2. (T * L + 0) \div L = T
    BY <1>1, <1>3, <2>1, RowAndColumn
  <2> QED
    BY <1>6, <2>1, <2>2 DEF L
<1> HIDE DEF steps
<1> DEFINE d == (b - 1) * T
<1>8. d \in Nat /\ b * T = d + T
  BY <1>1, <1>3
<1>9. ASSUME NEW i \in 1..T PROVE classes[d + i] = r[i]
  <2>1. /\ (d + i) - 1 = (b - 1) * T + (i - 1) /\ i - 1 \in 0..T - 1 /\ b - 1 \in Int
    <3>1. d = (b - 1) * T /\ d \in Int /\ i \in Int /\ b \in Int /\ T \in Int
      BY <1>1, <1>3, <1>8
    <3> HIDE DEF d
    <3>2. (d + i) - 1 = d + (i - 1) /\ i - 1 \in 0..T - 1 /\ b - 1 \in Int
      BY <3>1
    <3> QED
      BY <3>1, <3>2
  <2>2. ((d + i) - 1) \div T = b - 1 /\ ((d + i) - 1) % T = i - 1
    <3>1. ((b - 1) * T + (i - 1)) \div T = b - 1 /\ ((b - 1) * T + (i - 1)) % T = i - 1
      BY <1>3, <2>1, RowAndColumn
    <3> QED
      BY <2>1, <3>1
  <2>3. d + i \in 1..L * T
    <3>1. d + T <= L * T
      <4>1. CASE b = L
        BY <1>3, <1>5, <1>8, <4>1
      <4>2. CASE b # L
        <5>1. b < L /\ b \in Int /\ L \in Int
          BY <1>1, <4>2
        <5>2. b * T + T <= L * T
          BY <1>3, <5>1, RowsApart
        <5> QED
          BY <1>3, <1>5, <1>8, <5>2
      <4> QED
        BY <4>1, <4>2
    <3>2. d \in Nat /\ i \in 1..T /\ T \in Nat /\ L * T \in Nat
      BY <1>3, <1>5, <1>8
    <3> DEFINE size == L * T
    <3> HIDE DEF d, size
    <3>3. size \in Nat /\ d + T <= size
      BY <3>1, <3>2 DEF size
    <3>4. d + i \in 1..size
      BY <3>2, <3>3
    <3> QED
      BY <3>4 DEF size
  <2>4. classes[d + i] = reading[batch[((d + i) - 1) \div T + 1]][(((d + i) - 1) % T) + 1]
    BY <1>4, <2>3
  <2>5. (b - 1) + 1 = b /\ (i - 1) + 1 = i
    BY <1>1
  <2> QED
    BY <2>2, <2>4, <2>5 DEF r
<1> HIDE DEF d
<1>10. Decode(classes, d + 1, d + Len(r)) = Decode(r, 1, Len(r))
  BY <1>3, <1>8, <1>9, DecodePart DEF T
<1>11. (b - 1) * steps + 1 = d + 1 /\ b * steps = d + Len(r)
  BY <1>7, <1>8 DEF d, T
<1> QED
  BY <1>10, <1>11 DEF classes, steps, r

\* The crops of the next batch.
LEMMA BatchMembers ==
  ASSUME ReadInv, start <= Boxes
  PROVE  LET batch == SubSeq(byWidth, start, End)
         IN  /\ batch \in Seq(Crops) /\ Len(batch) = End - start + 1
             /\ \A i \in DOMAIN batch : start + i - 1 \in start..End /\ batch[i] = byWidth[start + i - 1]
             /\ \A j \in start..End : j - start + 1 \in DOMAIN batch /\ batch[j - start + 1] = byWidth[j]
<1> DEFINE batch == SubSeq(byWidth, start, End)
<1>1. End \in start..Boxes /\ start \in 1..Boxes + 1 /\ Boxes \in Nat
  BY BatchEnds DEF ReadInv
<1> DEFINE e == End
<1>2. start \in 1..Boxes /\ e \in start..Boxes /\ e \in Int /\ start \in Int
  BY <1>1
<1> HIDE DEF e
<1>3. byWidth \in Seq(Crops) /\ Len(byWidth) = Boxes
  <2>1. byWidth \in [Crops -> Crops]
    BY DEF ReadInv
  <2>2. byWidth \in [1..Boxes -> Crops] /\ Boxes \in Nat
    BY <2>1 DEF Crops
  <2> QED
    BY <2>2
<1>4. batch = [i \in 1..e - start + 1 |-> byWidth[start + i - 1]]
  BY <1>2, <1>3 DEF e
<1>5. \A i \in 1..e - start + 1 :
        start + i - 1 \in start..e /\ start + i - 1 \in Crops /\ byWidth[start + i - 1] \in Crops
  BY <1>1, <1>2 DEF ReadInv, Crops
<1>6. e - start + 1 \in Nat
  BY <1>2
<1> HIDE DEF batch
<1>7. batch \in Seq(Crops) /\ Len(batch) = e - start + 1 /\ DOMAIN batch = 1..e - start + 1
  BY <1>4, <1>5, <1>6
<1>8. ASSUME NEW j \in start..e
      PROVE  j - start + 1 \in 1..e - start + 1 /\ start + (j - start + 1) - 1 = j
  BY <1>2
<1>9. \A i \in DOMAIN batch : start + i - 1 \in start..e /\ batch[i] = byWidth[start + i - 1]
  BY <1>4, <1>5, <1>7
<1>10. ASSUME NEW j \in start..e
       PROVE  j - start + 1 \in DOMAIN batch /\ batch[j - start + 1] = byWidth[j]
  BY <1>7, <1>8, <1>9
<1> QED
  BY <1>7, <1>9, <1>10 DEF batch, e

\* A batch adds one place for each of its crops and none for the others.
LEMMA RecognizeBatchStep == ASSUME ReadInv, RecognizeBatch PROVE ReadInv'
<1> DEFINE batch == SubSeq(byWidth, start, End)
           classes == Output(batch)
           steps == Len(classes) \div Len(batch)
           n == Len(batches) + 1
           e == End
<1>1. /\ start <= Boxes
      /\ batches' = Append(batches, batch)
      /\ texts' = [k \in Crops |->
           IF \E b \in DOMAIN batch : batch[b] = k
             THEN LET b == CHOOSE b \in DOMAIN batch : batch[b] = k
                  IN  Decode(classes, (b - 1) * steps + 1, b * steps)
             ELSE texts[k]]
      /\ start' = e + 1
      /\ widths' = widths /\ reading' = reading /\ byWidth' = byWidth
  BY DEF RecognizeBatch
<1>2. /\ batch \in Seq(Crops) /\ Len(batch) = e - start + 1
      /\ \A i \in DOMAIN batch : start + i - 1 \in start..e /\ batch[i] = byWidth[start + i - 1]
      /\ \A j \in start..e : j - start + 1 \in DOMAIN batch /\ batch[j - start + 1] = byWidth[j]
  BY <1>1, BatchMembers
<1>3. e \in start..Boxes /\ start \in 1..Boxes /\ e \in Int /\ start \in Int /\ Boxes \in Nat
  <2>1. End \in start..Boxes /\ start \in 1..Boxes + 1 /\ Boxes \in Nat
    BY <1>1, BatchEnds DEF ReadInv
  <2>2. start \in Int /\ Boxes \in Int /\ start..Boxes \subseteq Int
    BY <2>1
  <2> QED
    BY <1>1, <2>1, <2>2
<1>4. \A b \in DOMAIN batch :
        Decode(classes, (b - 1) * steps + 1, b * steps)
          = Decode(reading[batch[b]], 1, Len(reading[batch[b]]))
  BY <1>2, OutputOfCrop
<1>5. \A a, b \in start..e :
        /\ widths[byWidth[a]] <= 2 * widths[byWidth[b]]
        /\ e - start + 1 > 1 =>
             (e - start + 1) * PaddedWidth(widths[byWidth[a]]) <= MaxBatchWidth
  BY <1>1, BatchFits
<1> HIDE DEF e, classes, steps, batch
<1>6. /\ DOMAIN batch \subseteq Crops
      /\ \A j \in Crops, i \in DOMAIN batch : batch[i] = byWidth[j] => j = start + i - 1 /\ i = j - start + 1
  <2>1. ASSUME NEW i \in DOMAIN batch PROVE i \in Crops
    <3>1. i \in 1..e - start + 1
      BY <1>2
    <3> QED
      BY <1>3, <3>1 DEF Crops
  <2>2. ASSUME NEW j \in Crops, NEW i \in DOMAIN batch, batch[i] = byWidth[j]
        PROVE  j = start + i - 1 /\ i = j - start + 1
    <3>1. start + i - 1 \in start..e /\ byWidth[start + i - 1] = byWidth[j] /\ i \in Int
      BY <1>2, <2>2
    <3>2. start + i - 1 \in Crops
      BY <1>3, <3>1 DEF Crops
    <3>3. j = start + i - 1
      BY <3>1, <3>2 DEF ReadInv
    <3> QED
      BY <1>3, <3>1, <3>3
  <2> QED
    BY <2>1, <2>2
<1>7. \A j \in Crops : j \notin start..e => ~\E b \in DOMAIN batch : batch[b] = byWidth[j]
  <2> SUFFICES ASSUME NEW j \in Crops, NEW b \in DOMAIN batch, batch[b] = byWidth[j]
               PROVE  j \in start..e
    OBVIOUS
  <2>1. j = start + b - 1
    BY <1>6
  <2>2. start + b - 1 \in start..e
    BY <1>2
  <2> QED
    BY <2>1, <2>2
<1>8. /\ batches \in Seq(Seq(Crops)) /\ batches' \in Seq(Seq(Crops))
      /\ DOMAIN batches' = DOMAIN batches \cup {n} /\ n \notin DOMAIN batches
      /\ batches'[n] = batch /\ \A m \in DOMAIN batches : batches'[m] = batches[m]
  <2>1. batches \in Seq(Seq(Crops)) /\ batch \in Seq(Crops)
    BY <1>2 DEF ReadInv
  <2> QED
    BY <1>1, <2>1
<1> HIDE DEF n
<1> DEFINE New(k) == {p \in {n} \X Crops : p[2] \in DOMAIN batch /\ batch[p[2]] = k}
           Placed(k) == {p \in (DOMAIN batches') \X Crops :
                           p[2] \in DOMAIN batches'[p[1]] /\ batches'[p[1]][p[2]] = k}
<1>9. ASSUME NEW k PROVE Placed(k) = PlacesOf(k) \cup New(k)
  <2>1. ASSUME NEW p \in (DOMAIN batches') \X Crops
        PROVE  /\ p[1] \in DOMAIN batches => p \in (DOMAIN batches) \X Crops /\ batches'[p[1]] = batches[p[1]]
               /\ p[1] = n => p \in {n} \X Crops /\ batches'[p[1]] = batch
               /\ p[1] \in DOMAIN batches \/ p[1] = n
    BY <1>8
  <2>2. ASSUME NEW p \in (DOMAIN batches) \X Crops
        PROVE  p \in (DOMAIN batches') \X Crops /\ batches'[p[1]] = batches[p[1]]
    BY <1>8
  <2>3. ASSUME NEW p \in {n} \X Crops
        PROVE  p \in (DOMAIN batches') \X Crops /\ batches'[p[1]] = batch
    BY <1>8
  <2>4. Placed(k) \subseteq PlacesOf(k) \cup New(k)
    BY <2>1 DEF PlacesOf
  <2>5. PlacesOf(k) \subseteq Placed(k)
    BY <2>2 DEF PlacesOf
  <2>6. New(k) \subseteq Placed(k)
    BY <2>3
  <2> QED
    BY <2>4, <2>5, <2>6
<1>10. ASSUME NEW j \in Crops, j \notin start..e PROVE New(byWidth[j]) = {}
  BY <1>7, <1>10
<1>11. ASSUME NEW j \in start..e
       PROVE  /\ New(byWidth[j]) = {<<n, j - start + 1>>} /\ <<n, j - start + 1>> \in {n} \X Crops
  <2>1. j \in Crops
    BY <1>3 DEF Crops
  <2>2. j - start + 1 \in DOMAIN batch /\ batch[j - start + 1] = byWidth[j] /\ j - start + 1 \in Crops
    BY <1>2, <1>6
  <2>3. ASSUME NEW p \in New(byWidth[j]) PROVE p = <<n, j - start + 1>>
    <3>1. p[2] \in DOMAIN batch /\ batch[p[2]] = byWidth[j] /\ p = <<n, p[2]>>
      OBVIOUS
    <3>2. p[2] = j - start + 1
      BY <1>6, <2>1, <3>1
    <3> QED
      BY <3>1, <3>2
  <2>4. <<n, j - start + 1>> \in New(byWidth[j]) /\ <<n, j - start + 1>> \in {n} \X Crops
    BY <2>2
  <2> QED
    BY <2>3, <2>4
<1> HIDE DEF New, Placed
<1>12. ASSUME NEW j \in Crops, j < start'
       PROVE  \E p \in (DOMAIN batches') \X Crops : Placed(byWidth[j]) = {p}
  <2>1. CASE j < start
    <3>1. j \notin start..e
      BY <1>3, <2>1 DEF Crops
    <3>2. PICK p \in (DOMAIN batches) \X Crops : PlacesOf(byWidth[j]) = {p}
      BY <2>1 DEF ReadInv
    <3>3. Placed(byWidth[j]) = {p}
      BY <1>9, <1>10, <3>1, <3>2
    <3>4. p \in (DOMAIN batches') \X Crops
      BY <1>8
    <3> QED
      BY <3>3, <3>4
  <2>2. CASE ~(j < start)
    <3>1. j \in start..e
      BY <1>1, <1>3, <1>12, <2>2 DEF Crops
    <3>2. PlacesOf(byWidth[j]) = {}
      BY <2>2 DEF ReadInv
    <3>3. Placed(byWidth[j]) = {<<n, j - start + 1>>}
      BY <1>9, <1>11, <3>1, <3>2
    <3>4. <<n, j - start + 1>> \in (DOMAIN batches') \X Crops
      BY <1>8, <1>11, <3>1
    <3> QED
      BY <3>3, <3>4
  <2> QED
    BY <2>1, <2>2
<1>13. ASSUME NEW j \in Crops, ~(j < start')
       PROVE  Placed(byWidth[j]) = {} /\ texts'[byWidth[j]] = <<>>
  <2>1. j \notin start..e /\ ~(j < start)
    BY <1>1, <1>3, <1>13 DEF Crops
  <2>2. PlacesOf(byWidth[j]) = {} /\ texts[byWidth[j]] = <<>>
    BY <2>1 DEF ReadInv
  <2>3. texts'[byWidth[j]] = texts[byWidth[j]]
    BY <1>1, <1>7, <2>1 DEF ReadInv
  <2> QED
    BY <1>9, <1>10, <2>1, <2>2, <2>3
<1>14. ASSUME NEW j \in Crops, j < start'
       PROVE  texts'[byWidth[j]] = Decode(reading[byWidth[j]], 1, Len(reading[byWidth[j]]))
  <2>1. byWidth[j] \in Crops
    BY DEF ReadInv
  <2>2. CASE j < start
    <3>1. j \notin start..e
      BY <1>3, <2>2 DEF Crops
    <3>2. texts'[byWidth[j]] = texts[byWidth[j]]
      BY <1>1, <1>7, <2>1, <3>1
    <3> QED
      BY <2>2, <3>2 DEF ReadInv
  <2>3. CASE ~(j < start)
    <3>1. j \in start..e
      BY <1>1, <1>3, <1>14, <2>3 DEF Crops
    <3>2. \E b \in DOMAIN batch : batch[b] = byWidth[j]
      BY <1>2, <3>1
    <3> DEFINE b == CHOOSE b \in DOMAIN batch : batch[b] = byWidth[j]
    <3>3. b \in DOMAIN batch /\ batch[b] = byWidth[j]
      BY <3>2
    <3>4. texts'[byWidth[j]] = Decode(classes, (b - 1) * steps + 1, b * steps)
      BY <1>1, <2>1, <3>2
    <3> HIDE DEF b
    <3> QED
      BY <1>4, <3>3, <3>4
  <2> QED
    BY <2>2, <2>3
<1>15. ASSUME NEW m \in DOMAIN batches', NEW k \in ToSet(batches'[m]), NEW j \in ToSet(batches'[m])
       PROVE  /\ widths[k] <= 2 * widths[j]
              /\ Len(batches'[m]) > 1 => Len(batches'[m]) * PaddedWidth(widths[k]) <= MaxBatchWidth
  <2>1. CASE m \in DOMAIN batches
    <3>1. batches'[m] = batches[m]
      BY <1>8, <2>1
    <3> QED
      BY <2>1, <3>1 DEF ReadInv
  <2>2. CASE m = n
    <3>1. batches'[m] = batch
      BY <1>8, <2>2
    <3>2. PICK a \in DOMAIN batch, b \in DOMAIN batch : k = batch[a] /\ j = batch[b]
      BY <3>1 DEF ToSet
    <3>3. /\ start + a - 1 \in start..e /\ k = byWidth[start + a - 1]
          /\ start + b - 1 \in start..e /\ j = byWidth[start + b - 1]
      BY <1>2, <3>2
    <3> QED
      BY <1>2, <1>5, <3>1, <3>3
  <2> QED
    BY <1>8, <2>1, <2>2
<1>16. start' \in 1..Boxes + 1
  BY <1>1, <1>3
<1>17. Sorted(byWidth)'
  BY <1>1 DEF ReadInv, Sorted
<1>18. \A j \in Crops : Placed(byWidth[j]) = PlacesOf(byWidth[j])'
  BY <1>1 DEF Placed, PlacesOf
<1> HIDE DEF Placed
<1>19. ASSUME NEW j \in Crops
       PROVE  IF j < start'
                THEN /\ texts'[byWidth'[j]] = Decode(reading'[byWidth'[j]], 1, Len(reading'[byWidth'[j]]))
                     /\ \E p \in (DOMAIN batches') \X Crops : PlacesOf(byWidth[j])' = {p}
                ELSE PlacesOf(byWidth[j])' = {} /\ texts'[byWidth'[j]] = <<>>
  <2>1. CASE j < start'
    <3>1. texts'[byWidth'[j]] = Decode(reading'[byWidth'[j]], 1, Len(reading'[byWidth'[j]]))
      BY <1>1, <1>14, <2>1
    <3>2. \E p \in (DOMAIN batches') \X Crops : PlacesOf(byWidth[j])' = {p}
      <4>1. PICK p \in (DOMAIN batches') \X Crops : Placed(byWidth[j]) = {p}
        BY <1>12, <2>1
      <4>2. PlacesOf(byWidth[j])' = {p}
        BY <1>18, <4>1
      <4> QED
        BY <4>2
    <3> QED
      BY <2>1, <3>1, <3>2
  <2>2. CASE ~(j < start')
    <3>1. PlacesOf(byWidth[j])' = {} /\ texts'[byWidth'[j]] = <<>>
      BY <1>1, <1>13, <1>18, <2>2
    <3> QED
      BY <2>2, <3>1
  <2> QED
    BY <2>1, <2>2
<1>20. \A m \in DOMAIN batches' : \A k, j \in ToSet(batches'[m]) :
         /\ widths'[k] <= 2 * widths'[j]
         /\ Len(batches'[m]) > 1 => Len(batches'[m]) * PaddedWidth(widths'[k]) <= MaxBatchWidth
  BY <1>1, <1>15
<1>21. /\ widths' \in [Crops -> Widths] /\ reading' \in [Crops -> Readings]
       /\ byWidth' \in [Crops -> Crops] /\ \A i, j \in Crops : byWidth'[i] = byWidth'[j] => i = j
  BY <1>1 DEF ReadInv
<1> QED
  BY <1>8, <1>16, <1>17, <1>19, <1>20, <1>21 DEF ReadInv

LEMMA RecognizeInvariant == RecognizeSpec => []ReadInv
<1>1. RecognizeInit => ReadInv
  BY ReadStart
<1>2. ASSUME ReadInv, [RecognizeNext]_recognizeVars PROVE ReadInv'
  <2>1. CASE RecognizeBatch
    BY <1>2, <2>1, RecognizeBatchStep
  <2>2. CASE UNCHANGED recognizeVars
    <3>1. UNCHANGED <<widths, reading, byWidth, start, batches, texts>>
      BY <2>2 DEF recognizeVars
    <3>2. Sorted(byWidth)' = Sorted(byWidth) /\ \A j \in Crops : PlacesOf(byWidth[j])' = PlacesOf(byWidth[j])
      BY <3>1 DEF Sorted, PlacesOf
    <3> QED
      BY <1>2, <3>1, <3>2 DEF ReadInv
  <2> QED
    BY <1>2, <2>1, <2>2 DEF RecognizeNext
<1> QED
  BY <1>1, <1>2, PTL DEF RecognizeSpec

\* The text of a crop is made of the classes the network gave for it.
LEMMA DecodeKeepsClasses ==
  ASSUME NEW C, NEW r \in Seq(C)
  PROVE  Decode(r, 1, Len(r)) \in Seq(C)
<1> DEFINE S == {i \in 1..Len(r) : r[i] # BlankClass /\ (i = 1 \/ r[i] # r[i - 1])}
           kept == Ascending(S)
<1>1. S \in SUBSET Int /\ IsFiniteSet(S) /\ S \subseteq 1..Len(r)
  BY FS_Interval, FS_Subset
<1> HIDE DEF S
<1>2. Cardinality(S) \in Nat /\ kept \in [1..Cardinality(S) -> S]
  BY <1>1, AscendingNumbers
<1> HIDE DEF kept
<1>3. [n \in DOMAIN kept |-> r[kept[n]]] = [n \in 1..Cardinality(S) |-> r[kept[n]]]
  BY <1>2
<1>4. ASSUME NEW n \in 1..Cardinality(S) PROVE r[kept[n]] \in C
  <2>1. kept[n] \in 1..Len(r)
    BY <1>1, <1>2
  <2> QED
    BY <2>1
<1>5. [n \in 1..Cardinality(S) |-> r[kept[n]]] \in Seq(C)
  BY <1>2, <1>4
<1> QED
  BY <1>3, <1>5 DEF Decode, S, kept

LEMMA RecognizeTypes == RecognizeSpec => []RecognizeTypeOK
<1> DEFINE C == UNION {ToSet(r) : r \in Readings}
<1>1. ASSUME NEW r \in Readings PROVE r \in Seq(C)
  <2>1. \A k \in 1..Len(r) : r[k] \in C
    BY DEF ToSet
  <2>2. r \in Seq(Nat) /\ Len(r) \in Nat
    OBVIOUS
  <2> HIDE DEF C
  <2>3. [k \in 1..Len(r) |-> r[k]] \in Seq(C)
    BY <2>1, <2>2
  <2> QED
    BY <2>2, <2>3, SequenceAsFunction
<1>2. ReadInv => RecognizeTypeOK
  <2> SUFFICES ASSUME ReadInv PROVE RecognizeTypeOK
    OBVIOUS
  <2>1. ASSUME NEW k \in Crops PROVE texts[k] \in Seq(C)
    <3>1. PICK j \in Crops : byWidth[j] = k
      BY OrderIsWhole
    <3>2. CASE j < start
      <4>1. texts[k] = Decode(reading[k], 1, Len(reading[k])) /\ reading[k] \in Readings
        BY <3>1, <3>2 DEF ReadInv
      <4> HIDE DEF C
      <4> QED
        BY <1>1, <4>1, DecodeKeepsClasses
    <3>3. CASE ~(j < start)
      <4>1. texts[k] = <<>>
        BY <3>1, <3>3 DEF ReadInv
      <4> QED
        BY <4>1
    <3> QED
      BY <3>2, <3>3
  <2> QED
    BY <2>1 DEF ReadInv, RecognizeTypeOK
<1> QED
  BY <1>2, RecognizeInvariant, PTL

\* For any number of crops, any widths, any bound of a batch and whatever the
\* network gives for each crop, the text of every box is what its own crop alone
\* gives, every crop is in one place of one batch, and the batches keep their
\* bounds: recognize and recognizeBatch never mix two crops up.
THEOREM BatchesCorrect == RecognizeSpec => []BatchesRight
<1>1. ReadInv => BatchesRight
  <2> SUFFICES ASSUME ReadInv PROVE BatchesRight
    OBVIOUS
  <2>1. ASSUME start > Boxes, NEW k \in Crops
        PROVE  /\ texts[k] = Decode(reading[k], 1, Len(reading[k]))
               /\ \E p \in (DOMAIN batches) \X Crops : PlacesOf(k) = {p}
    <3>1. PICK j \in Crops : byWidth[j] = k
      BY OrderIsWhole
    <3>2. j < start
      BY <2>1 DEF ReadInv, Crops
    <3> QED
      BY <3>1, <3>2 DEF ReadInv
  <2> QED
    BY <2>1 DEF ReadInv, BatchesRight, TextsOfTheirCrops, BatchesBounded
<1> QED
  BY <1>1, RecognizeInvariant, PTL

HIDE OcrRecognizeAssumption
=============================================================================
