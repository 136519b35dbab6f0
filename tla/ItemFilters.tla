----------------------------- MODULE ItemFilters -----------------------------
(***************************************************************************)
(* What the pages of littr.go ask for, and what they get.                  *)
(*                                                                         *)
(* A page of the site makes a filter (app/frontend), the client of the API *)
(* makes a route and a query from it (LoadItem and LoadItems,              *)
(* app/api/loader.go), the API makes a filter from these                   *)
(* (LoadFiltersCtxt) and the database a WHERE clause from that             *)
(* (GetWhereClauses, app/loader.go).  The API puts links to other pages in *)
(* its answer, made from a copy of its filter (copyFilters and             *)
(* loadCollection).                                                        *)
(*                                                                         *)
(* A list in a filter is a set here.  Hash and handle of an account, and   *)
(* the short and the full hash of an item, are the same.  LIMIT and OFFSET *)
(* are in module Listing.                                                  *)
(***************************************************************************)
EXTENDS ItemDocuments

CONSTANTS Other,  \* an account that has not submitted or voted
          Top,    \* ContextNil: the items that start a thread
          Depth   \* how many levels of comments a page shows

ASSUME FilterAssumption ==
  Depth \in Nat \ {0} /\ Top \notin Keys /\ Other # Author

\* LoadItemsFilter without clauses.  A text asked for is the set of the items
\* whose title or data match it, of the media types asked for with it.  IRIs and
\* dates are left out: no page asks for them.
NoFilter ==
  [key |-> {}, by |-> {}, context |-> {}, inReplyTo |-> {}, content |-> {},
   deleted |-> {}, followedBy |-> {}, federated |-> {}, depth |-> 0]
-----------------------------------------------------------------------------
\* The clauses of LoadItemsFilter.GetWhereClauses, which must all be true of a
\* row.  An empty list makes no clause, the elements of a list are alternatives.
InContext(k, c) == IF c = Top THEN path[k] = <<>> ELSE c \in stored /\ k \in Context(c)
RepliesTo(k, p) == p \in stored /\ path[k] = ChildPath(p)

\* Items a voted on, and threads in which a replied to a reply.
Follows(k, a) ==
  /\ a = Author
  /\ k \in voted \/ \E j \in stored : Len(path[j]) > 1 /\ path[j][1] = k

\* As NotDeeper, for the depth of an item in its thread.
NotDeeperInThread(k, f) == f.depth = 0 \/ Len(path[k]) <= f.depth

\* Depth counts from the item of the first context or parent, or else from the
\* thread, to which its first item does not belong.
NotDeeper(k, f) ==
  LET above == (f.context \union f.inReplyTo) \ {Top}
  IN \/ f.depth = 0
     \/ \E p \in above : p \in stored /\ Len(path[k]) <= Len(path[p]) + f.depth
     \/ above = {} /\ path[k] # <<>> /\ Len(path[k]) <= f.depth

\* The metadata of a row never hold attributedTo: nothing is from a peer.
IsFederated(k) == FALSE

Selected(f) ==
  {k \in stored :
     /\ f.key = {} \/ k \in f.key
     /\ f.by = {} \/ Author \in f.by
     /\ f.context = {} \/ \E c \in f.context : InContext(k, c)
     /\ f.inReplyTo = {} \/ \E p \in f.inReplyTo : RepliesTo(k, p)
     /\ f.content = {} \/ \E s \in f.content : k \in s
     /\ f.deleted = {} \/ deleted[k] \in f.deleted
     /\ f.followedBy = {} \/ \E a \in f.followedBy : Follows(k, a)
     /\ Cardinality(f.federated) # 1 \/ IsFederated(k) \in f.federated
     /\ NotDeeper(k, f)}

\* LoadVotesFilter.GetWhereClauses: votes by some accounts on some items.
SelectedVotes(by, items) ==
  {k \in voted : (by = {} \/ Author \in by) /\ (items = {} \/ k \in items)}
-----------------------------------------------------------------------------
\* The requests of the client: a collection of the site or of an account, or
\* one item of it, and a query.
LoadItems(f) ==
  [collection |-> IF f.followedBy # {} \/ TRUE \in f.federated THEN "inbox"
                  ELSE "outbox",
   handle |-> f.followedBy, hash |-> {}, query |-> f]

LoadItem(f) ==
  [collection |-> "outbox", handle |-> {}, hash |-> f.key,
   query |-> [f EXCEPT !.key = {}]]

\* LoadFiltersCtxt: path and query together.
LoadFiltersCtxt(r) ==
  CASE r.collection = "outbox" ->
         [r.query EXCEPT !.by = r.handle \union @, !.key = r.hash \union @]
    [] r.collection = "inbox" ->
         [r.query EXCEPT !.followedBy = r.handle \union @, !.key = r.hash \union @]
    [] r.collection = "replies" -> [r.query EXCEPT !.inReplyTo = r.hash]

Answer(r) == Selected(LoadFiltersCtxt(r))

\* As CopyItemsFilters, which lost Deleted, FollowedBy as well.
CopyFewFilters(f) ==
  [f EXCEPT !.depth = 0, !.federated = {}, !.followedBy = {}, !.deleted = {}]

\* copyItemsFilters leaves Depth and Federated behind.
CopyItemsFilters(f) == [f EXCEPT !.depth = 0, !.federated = {}]

\* The request behind a link to another page.  loadCollection drops the author
\* when there is one, whom the path names if he came from there.
Linked(r) ==
  LET f == LoadFiltersCtxt(r)
  IN [r EXCEPT !.query =
        CopyItemsFilters(IF Cardinality(f.by) = 1 THEN [f EXCEPT !.by = {}] ELSE f)]
-----------------------------------------------------------------------------
\* The filters of the pages: HandleIndex, HandleTags, HandleDomains,
\* ShowAccount, ShowItem (which names the author, as HandleVoting does not),
\* and the route of the replies to an item.
Index == [NoFilter EXCEPT !.context = {Top}, !.federated = {FALSE}, !.deleted = {FALSE}]
Federated == [Index EXCEPT !.federated = {TRUE}]
Followed(a) == [Index EXCEPT !.followedBy = {a}]
Tagged(text) == [NoFilter EXCEPT !.content = {text}]
FromDomain(text) == [NoFilter EXCEPT !.context = {Top}, !.content = {text}]
Submissions(a) == [NoFilter EXCEPT !.by = {a}]
Comments(k) == [NoFilter EXCEPT !.context = {k}, !.depth = Depth]
OneItem(k, by) == [NoFilter EXCEPT !.key = {k}, !.by = by]
Replies(k) == [NoFilter EXCEPT !.inReplyTo = {k}]

\* What replied to k, to a reply to k, and so on, n times.
Below(k, n) ==
  LET level[m \in 0..n] ==
        IF m = 0 THEN {k} ELSE {j \in stored : replyTo[j] \in level[m - 1]}
  IN UNION {level[m] : m \in 1..n}

Threads == {k \in stored : replyTo[k] = NoKey}

\* Every page of the site shows the items it is about, neither more nor less,
\* through route, query, filter and WHERE clause: threads that are not deleted,
\* the matches of a text, an author's items, the comments on an item down to
\* a depth, an item, its replies.  What "followed" shows is threads that the
\* reader voted on or replied to a reply in, "federated" no item of this server,
\* the votes on a page are those of the reader (loader.go 161-368, api/loader.go
\* 235-410, listing.go 150-294, content.go 197-262).  As for rows, states in
\* which no handler runs are all.
PagesShowTheirItems ==
  (\A h \in Handlers : pc[h] = "idle") =>
    LET shown(f) == Answer(LoadItems(f))
        open == {k \in Threads : ~deleted[k]}
    IN /\ shown(Index) = open
       /\ shown(Federated) = {}
       /\ shown(Followed(Other)) = {}
       /\ shown(Followed(Author)) =
            {k \in open : k \in voted \/ \E j \in Below(k, 1) : Below(j, 1) # {}}
       /\ shown(Submissions(Author)) = stored /\ shown(Submissions(Other)) = {}
       /\ \A text \in SUBSET stored :
            /\ shown(Tagged(text)) = text
            /\ shown(FromDomain(text)) = text \cap Threads
            /\ text # {} => SelectedVotes({Author}, text) = voted \cap text
       /\ \A k \in stored :
            /\ shown(Comments(k)) = Below(k, Depth)
            /\ \A by \in {{}, {Author}} : Answer(LoadItem(OneItem(k, by))) = {k}
            /\ Selected(Replies(k)) = Below(k, 1)

\* Requests of any client for a page of a collection, but for comments to a
\* depth, which links forget.
Query(by, context, del, fol) ==
  [NoFilter EXCEPT !.by = by, !.context = context, !.deleted = del,
                   !.followedBy = fol]
Queries ==
  {Query(by, context, del, fol) :
     by \in {{}, {Author}, {Author, Other}},
     context \in {{}, {Top}} \union {{k} : k \in stored},
     del \in {{}, {FALSE}}, fol \in {{}, {Author}}}

Requests ==
  {[collection |-> c, handle |-> a, hash |-> {}, query |-> q] :
     c \in {"outbox", "inbox"}, a \in {{}, {Author}}, q \in Queries}

\* A link to another page of a collection leads to a page of the same items,
\* except that it forgets the author when the query alone names one (loader.go
\* 369-422, accounts.go 490-493, 534-568).
LinksStayInListing ==
  (\A h \in Handlers : pc[h] = "idle") =>
    \A r \in Requests :
      LET f == LoadFiltersCtxt(r)
      IN \/ Cardinality(f.by) # 1
         \/ r.collection = "outbox" /\ r.handle = f.by
         => Answer(Linked(r)) = Answer(r)
=============================================================================
