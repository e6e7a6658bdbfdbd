------------------------------- MODULE Viewer -------------------------------
(***************************************************************************)
(* The asset viewer on top of the timeline                                 *)
(* (frontend/src/routes/_timeline/asset.$checksum.tsx): it steps through   *)
(* the pages that the timeline and itself have loaded into one infinite    *)
(* query (lib/search.ts), and asks for the next page before their end.     *)
(*                                                                         *)
(* Assets are numbered in the order of the listing.  Indexing adds assets  *)
(* and takes others offline all the while; the query never refetches what  *)
(* it has (main.tsx).  A page is what module Paging shows it to be.        *)
(* React runs an effect after a render in which one of its dependencies    *)
(* has changed, and the query lets one fetch go on at a time: both are     *)
(* external.                                                               *)
(***************************************************************************)
EXTENDS Integers, Sequences, FiniteSets, SequencesExt, Ranking

CONSTANTS
  ViewerAssets,       \* 1..n, in the order of the listing
  ViewerPage,
  MaxChanges,   \* bound: how often the library changes
  MaxFailures   \* bound: how many fetches fail, each with its retry

ASSUME ViewerAssumption ==
  /\ ViewerPage \in Nat \ {0} /\ MaxChanges \in Nat /\ MaxFailures \in Nat
  /\ IsFiniteSet(ViewerAssets) /\ ViewerAssets = 1..Cardinality(ViewerAssets)

VARIABLES
  serverLists,    \* the assets the server lists now
  always,    \* history: those it has listed all the time
  loaded,    \* assets, of all the pages
  nextCursor,    \* nextCursor of the last page, or 0: hasNextPage is nextCursor # 0
  fetching,  \* isFetchingNextPage
  current,   \* the checksum in the URL
  lastDeps,      \* the dependencies with which the effect ran last
  changes, failures

viewerVars == <<serverLists, always, loaded, nextCursor, fetching, current, lastDeps, changes, failures>>

\* The page after asset c, and its nextCursor: a page that is not full is the last.
Page(c) ==
  LET after == {a \in serverLists : a > c}
      count == Cardinality(after)
  IN  SubSeq(Ascending(after), 1, IF count < ViewerPage THEN count ELSE ViewerPage)
CursorOf(page) == IF Len(page) = ViewerPage THEN Last(page) ELSE 0

\* findIndex, counted from 1; 0 is not found.
Index ==
  LET found == {k \in DOMAIN loaded : loaded[k] = current}
  IN  IF found = {} THEN 0 ELSE CHOOSE k \in found : \A j \in found : k <= j

\* Bug form: the effect does not depend on isFetchingNextPage.
DependenciesFewer == <<Index, Len(loaded), nextCursor # 0>>
\* What the effect depends on: [index, assets.length, hasNextPage,
\* isFetchingNextPage].
Dependencies == <<Index, Len(loaded), nextCursor # 0, fetching>>

\* The timeline is there with its first page; the viewer is opened from it,
\* or by a URL.
ViewerInit ==
  /\ serverLists \in SUBSET ViewerAssets /\ always = serverLists
  /\ loaded = Page(0) /\ nextCursor = CursorOf(loaded) /\ fetching = FALSE
  /\ current \in ViewerAssets
  /\ lastDeps = <<>>
  /\ changes = 0 /\ failures = 0

----------------------------------------------------------------------------
\* The library changes: an asset is indexed or goes offline.
Change(a) ==
  /\ changes < MaxChanges /\ changes' = changes + 1
  /\ serverLists' = IF a \in serverLists THEN serverLists \ {a} ELSE serverLists \cup {a}
  /\ always' = always \ {a}
  /\ UNCHANGED <<loaded, nextCursor, fetching, current, lastDeps, failures>>

\* The effect: near the end of what is loaded the next page is asked for.
Prefetch ==
  /\ lastDeps # Dependencies
  /\ lastDeps' = Dependencies
  /\ fetching' = (fetching \/ (Index > 0 /\ Index >= Len(loaded) - 1 /\ nextCursor # 0))
  /\ UNCHANGED <<serverLists, always, loaded, nextCursor, current, changes, failures>>

\* The timeline under the viewer is scrolled to its end.
Sentinel ==
  /\ nextCursor # 0 /\ ~fetching
  /\ fetching' = TRUE
  /\ UNCHANGED <<serverLists, always, loaded, nextCursor, current, lastDeps, changes, failures>>

\* Bug form: pages are counted, and not continued after an asset.
AnswerByCount ==
  /\ fetching /\ fetching' = FALSE
  /\ LET all == Ascending(serverLists)
         page == [i \in 1..Min({ViewerPage, Max({0, Len(all) - Len(loaded)})}) |-> all[Len(loaded) + i]]
     IN  loaded' = loaded \o page /\ nextCursor' = CursorOf(page)
  /\ UNCHANGED <<serverLists, always, current, lastDeps, changes, failures>>
PageArrives ==
  /\ fetching /\ fetching' = FALSE
  /\ LET page == Page(nextCursor)
     IN  loaded' = loaded \o page /\ nextCursor' = CursorOf(page)
  /\ UNCHANGED <<serverLists, always, current, lastDeps, changes, failures>>

\* The fetch and its retry fail: the pages stay as they are.  The retry comes
\* a second later, when the effect has long run with isFetchingNextPage.
FetchFails ==
  /\ fetching /\ lastDeps = Dependencies /\ fetching' = FALSE
  /\ failures < MaxFailures /\ failures' = failures + 1
  /\ UNCHANGED <<serverLists, always, loaded, nextCursor, current, lastDeps, changes>>

OnNext ==
  /\ Index > 0 /\ Index < Len(loaded)
  /\ current' = loaded[Index + 1]
  /\ UNCHANGED <<serverLists, always, loaded, nextCursor, fetching, lastDeps, changes, failures>>
OnPrev ==
  /\ Index > 1
  /\ current' = loaded[Index - 1]
  /\ UNCHANGED <<serverLists, always, loaded, nextCursor, fetching, lastDeps, changes, failures>>

ViewerNext ==
  \/ \E a \in ViewerAssets : Change(a)
  \/ Prefetch \/ Sentinel \/ PageArrives \/ FetchFails
  \/ OnNext \/ OnPrev

ViewerSpec == ViewerInit /\ [][ViewerNext]_viewerVars
ViewerFairSpec == ViewerSpec /\ WF_viewerVars(Prefetch) /\ WF_viewerVars(PageArrives)

----------------------------------------------------------------------------
ViewerTypeOK ==
  /\ always \subseteq serverLists /\ serverLists \subseteq ViewerAssets
  /\ loaded \in Seq(ViewerAssets) /\ nextCursor \in ViewerAssets \cup {0} /\ fetching \in BOOLEAN
  /\ current \in ViewerAssets
  /\ changes \in 0..MaxChanges /\ failures \in 0..MaxFailures

\* Next and Prev go forth and back, and never past an asset that was listed
\* all the time, whatever was indexed or lost between the pages.
StepsSkipNothing ==
  [][current' # current =>
       /\ OnNext => current' > current
       /\ ~\E a \in always : a \in (current + 1 .. current' - 1) \cup (current' + 1 .. current - 1)
    ]_viewerVars

\* At the last loaded asset of an unfinished listing, Next is offered sooner
\* or later, although fetches fail.
NextIsOffered ==
  Index > 0 /\ Index = Len(loaded) /\ nextCursor # 0
    ~> Index < Len(loaded) \/ nextCursor = 0
=============================================================================
