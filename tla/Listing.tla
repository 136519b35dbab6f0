------------------------------ MODULE Listing ------------------------------
(***************************************************************************)
(* Reading a listing page by page while its items change.                  *)
(*                                                                         *)
(* loadItems (app/db/item.go) selects the rows that match a filter, orders *)
(* them by a score that decays with age, and returns a page of them with   *)
(* LIMIT and OFFSET (GetLimit, app/loader.go).  Each page is a query of    *)
(* its own: between two of them items are submitted, deleted or restored,  *)
(* and change places because of votes, age, or a tie that the ORDER BY     *)
(* leaves open.                                                            *)
(*                                                                         *)
(* A reader of the site follows the links that HandleIndex and the other   *)
(* listings make from the number of items on the page (app/frontend), a    *)
(* client of the API those that loadCollection makes from the number of    *)
(* all items, which countItems finds in a second query (app/api).          *)
(***************************************************************************)
EXTENDS Integers, FiniteSets

CONSTANTS Items,    \* items that match the filter at some time
          MaxItems  \* Filters.MaxItems: how many a page has

ASSUME ListingAssumption == IsFiniteSet(Items) /\ MaxItems \in Nat \ {0}

VARIABLES
  pos,      \* the place of each item that matches now, from 1 on
  reader,   \* "site" or "api"
  pc,       \* "load", "count", or "page": the reader has the page
  page,     \* Filters.Page
  rows,     \* how many items the query of the page returned
  next,     \* the page that the next link leads to, or 0
  shown,    \* the items of all pages so far
  read,     \* the last of those pages, or 0
  rose,     \* history: items that came, or moved up, since the first page
  sank      \* history: items that came, or moved down, since the first page

listing == <<pos, rose, sank>>
reading == <<reader, pc, page, rows, next, shown, read>>
vars == <<listing, reading>>

Listed == DOMAIN pos

\* Every listing: its items have the places from 1 on, one each.
Listings ==
  {p \in UNION {[S -> 1..Cardinality(S)] : S \in SUBSET Items} :
     \A i, j \in DOMAIN p : p[i] = p[j] => i = j}

Init ==
  /\ pos \in Listings
  /\ reader \in {"site", "api"}
  /\ pc = "load" /\ page = 1 /\ rows = 0 /\ next = 0
  /\ shown = {} /\ read = 0
  /\ rose = {} /\ sank = {}
-----------------------------------------------------------------------------
\* The listing becomes p.
Becomes(p) ==
  /\ pos' = p
  /\ rose' = rose \union {i \in DOMAIN p : i \in Listed => p[i] < pos[i]}
  /\ sank' = sank \union {i \in DOMAIN p : i \in Listed => p[i] > pos[i]}
  /\ UNCHANGED reading

\* An item that begins to match the filter, submitted or restored, takes
\* place n.
Enter(i, n) ==
  /\ i \notin Listed
  /\ n \in 1..Cardinality(Listed) + 1
  /\ Becomes([j \in Listed \union {i} |->
                IF j = i THEN n ELSE IF pos[j] < n THEN pos[j] ELSE pos[j] + 1])

\* As Leave, with the places that OFFSET skips taken for those of all items.
LeaveGap(i) ==
  /\ i \in Listed
  /\ Becomes([j \in Listed \ {i} |-> pos[j]])

\* An item is deleted, and the filter leaves it out.
Leave(i) ==
  /\ i \in Listed
  /\ Becomes([j \in Listed \ {i} |->
                IF pos[j] < pos[i] THEN pos[j] ELSE pos[j] - 1])

\* An item moves to place n and the items between make room.
Move(i, n) ==
  /\ i \in Listed
  /\ n \in 1..Cardinality(Listed)
  /\ Becomes([j \in Listed |->
                CASE j = i -> n
                  [] j # i /\ pos[i] < pos[j] /\ pos[j] <= n -> pos[j] - 1
                  [] j # i /\ n <= pos[j] /\ pos[j] < pos[i] -> pos[j] + 1
                  [] OTHER -> pos[j]])
-----------------------------------------------------------------------------
\* As OnPage, with a LIMIT of one item more, to look for a next page.
OnPageOverlap(i, p) ==
  (p - 1) * MaxItems < pos[i] /\ pos[i] <= p * MaxItems + 1

\* LIMIT MaxItems OFFSET MaxItems * (p - 1).
OnPage(i, p) == (p - 1) * MaxItems < pos[i] /\ pos[i] <= p * MaxItems

\* As SiteLink, for a page with more items than it can have.
SiteLinkLate(n, p) == IF n > MaxItems THEN p + 1 ELSE 0

\* A listing links the next page when this one is full.
SiteLink(n, p) == IF n >= MaxItems THEN p + 1 ELSE 0

\* As ApiLink, another page too late.
ApiLinkLate(n, count, p) ==
  IF n > 0 /\ count > (p + 2) * MaxItems THEN p + 1 ELSE 0

\* loadCollection links the next page when n items are on this one and there
\* are more of them than fit on this page and the next.
ApiLink(n, count, p) ==
  IF n > 0 /\ count > (p + 1) * MaxItems THEN p + 1 ELSE 0

\* loadItems.  What the site shows depends on this query alone.
LoadItems ==
  /\ pc = "load"
  /\ LET found == {i \in Listed : OnPage(i, page)} IN
       /\ shown' = shown \union found
       /\ rows' = Cardinality(found)
       /\ \/ reader = "site"
             /\ pc' = "page" /\ next' = SiteLink(Cardinality(found), page)
          \/ reader = "api"
             /\ pc' = "count" /\ next' = 0
  /\ read' = IF page > read THEN page ELSE read
  /\ UNCHANGED <<listing, reader, page>>

\* countItems, and loadCollection with what both queries returned.
CountItems ==
  /\ pc = "count"
  /\ pc' = "page"
  /\ next' = ApiLink(rows, Cardinality(Listed), page)
  /\ UNCHANGED <<listing, reader, page, rows, shown, read>>

\* The reader follows the link to the next page, or to the previous one, which
\* the API makes for pages that have items only.
FollowNext ==
  /\ pc = "page" /\ next # 0
  /\ page' = next
  /\ pc' = "load"
  /\ UNCHANGED <<listing, reader, rows, next, shown, read>>

FollowPrev ==
  /\ pc = "page" /\ page > 1
  /\ reader = "site" \/ rows > 0
  /\ page' = page - 1
  /\ pc' = "load"
  /\ UNCHANGED <<listing, reader, rows, next, shown, read>>

Next ==
  \/ \E i \in Items, n \in 1..Cardinality(Items) : Enter(i, n) \/ Move(i, n)
  \/ \E i \in Items : Leave(i)
  \/ LoadItems \/ CountItems \/ FollowNext \/ FollowPrev

Spec == Init /\ [][Next]_vars
-----------------------------------------------------------------------------
TypeOK ==
  /\ pos \in Listings
  /\ reader \in {"site", "api"}
  /\ pc \in {"load", "count", "page"}
  /\ page \in Nat \ {0}
  /\ rows \in 0..MaxItems
  /\ next \in {0, page + 1} \/ pc = "load"
  /\ shown \subseteq Items
  /\ read \in Nat
  /\ rose \subseteq Items /\ sank \subseteq Items

\* Items the reader could have seen all the time and has not: they never moved
\* up past the page that was read.
Missed == {i \in Listed : i \notin shown \union rose}

\* A reader of the site who gets to a page without a link to a next one has
\* seen every item that did not come or move up in the meantime, although each
\* page is a query of its own (GetLimit lines 423-432, HandleIndex lines
\* 183-185).
LastPageMissesNothing ==
  [][pc = "load" /\ pc' = "page" /\ next' = 0 => Missed' = {}]_vars

\* A client of the API who gets to a page without a next link has missed at
\* most one page of such items (loadCollection line 534).
LastPageMissesOnePage ==
  [][pc = "count" /\ pc' = "page" /\ next' = 0
       => Cardinality(Missed) <= MaxItems]_vars

\* An item shown before comes up again on a later page only if it moved down,
\* or went and came back, in the meantime (GetLimit lines 428-430).
ShownTwiceMovedDown ==
  [][pc = "load" /\ pc' # "load" /\ page > read
       => \A i \in Listed : OnPage(i, page) /\ i \in shown => i \in sank]_vars
=============================================================================
