---------------------------- MODULE CommentTree ----------------------------
(***************************************************************************)
(* The tree of comments on the page of an item: ShowItem and               *)
(* reparentComments (app/frontend/content.go).                             *)
(*                                                                         *)
(* ShowItem puts the item itself first in allComments, at index 0 here,    *)
(* and the comments it loaded after it, in any order: newest or best       *)
(* scored first, and one page of them only, so the item that a comment     *)
(* replied to may come later in the list or not be in it.                  *)
(* reparentComments then fills in Parent and Children, one comment per     *)
(* iteration of each of its two loops; an iteration is an action here.     *)
(***************************************************************************)
EXTENDS Integers, SequencesExt

CONSTANTS N,         \* the number of comments loaded
          NotLoaded  \* a parent that is not in the list

ASSUME NAssumption == N \in Nat /\ NotLoaded \notin Int

Comments == 0..N

VARIABLES
  replyTo,   \* input: index of the parent that the item names, or NotLoaded
  pc,        \* "replies" and "rest", the loops, then "built"
  i,         \* the comment of the next iteration
  parent,    \* comment.Parent, or NotLoaded
  children   \* comment.Children

vars == <<replyTo, pc, i, parent, children>>

\* No group of comments can be left by no parent: nobody replied in a circle.
Acyclic(par, C) ==
  \A S \in SUBSET C : S # {} => \E c \in S : par[c] \notin S

\* Whatever ShowItem loads: the item of the page is below none of its comments.
Threads ==
  {r \in [Comments -> Comments \union {NotLoaded}] :
     r[0] = NotLoaded /\ Acyclic(r, Comments)}

Init ==
  /\ replyTo \in Threads
  /\ pc = "replies"
  /\ i = 0
  /\ parent = [c \in Comments |-> NotLoaded]
  /\ children = [c \in Comments |-> <<>>]

Attach(c, p) ==
  /\ parent' = [parent EXCEPT ![c] = p]
  /\ children' = [children EXCEPT ![p] = Append(@, c)]

\* As Advance, one comment too far.
AdvancePast(next) ==
  IF i <= N THEN i' = i + 1 /\ pc' = pc ELSE i' = 0 /\ pc' = next

\* The loop goes on with the next comment, or the next loop begins.
Advance(next) ==
  IF i < N THEN i' = i + 1 /\ pc' = pc ELSE i' = 0 /\ pc' = next
-----------------------------------------------------------------------------
\* As ReplyStep, appending to the children of the item of the page at once
\* what has no parent in the list; or looking only at what comes earlier.
ReplyStepOnce ==
  /\ pc = "replies"
  /\ IF replyTo[i] # NotLoaded THEN Attach(i, replyTo[i])
     ELSE IF i # 0 THEN Attach(i, 0) ELSE UNCHANGED <<parent, children>>
  /\ Advance("rest")
  /\ UNCHANGED replyTo

ReplyStepBackwards ==
  /\ pc = "replies"
  /\ IF replyTo[i] # NotLoaded /\ replyTo[i] < i
       THEN Attach(i, replyTo[i])
       ELSE UNCHANGED <<parent, children>>
  /\ Advance("rest")
  /\ UNCHANGED replyTo

\* First loop: parFn finds the comment that this one replied to.
ReplyStep ==
  /\ pc = "replies"
  /\ IF replyTo[i] # NotLoaded THEN Attach(i, replyTo[i])
                               ELSE UNCHANGED <<parent, children>>
  /\ Advance("rest")
  /\ UNCHANGED replyTo

\* As RestStep, with the loop left at its first comment.
RestStepReturns ==
  /\ pc = "rest"
  /\ pc' = "built" /\ i' = 0
  /\ UNCHANGED <<replyTo, parent, children>>

\* Second loop: the rest goes under the item of the page.
RestStep ==
  /\ pc = "rest"
  /\ IF i # 0 /\ parent[i] = NotLoaded THEN Attach(i, 0)
                                       ELSE UNCHANGED <<parent, children>>
  /\ Advance("built")
  /\ UNCHANGED replyTo

\* ShowItem renders the page; nothing follows.
Rendered == pc = "built" /\ UNCHANGED vars

Next == ReplyStep \/ RestStep \/ Rendered

Spec == Init /\ [][Next]_vars
-----------------------------------------------------------------------------
TypeOK ==
  /\ replyTo \in [Comments -> Comments \union {NotLoaded}]
  /\ pc \in {"replies", "rest", "built"}
  /\ i \in Comments
  /\ parent \in [Comments -> Comments \union {NotLoaded}]
  /\ children \in [Comments -> Seq(Comments)]

\* Parent and Children agree at any time (reparentComments lines 157-172).
ChildrenMatchParents ==
  \A p \in Comments :
    ToSet(children[p]) = {c \in Comments : parent[c] = p}

\* The page shows every comment that was loaded: going up from any comment ends
\* at the item of the page, whatever part of the thread was loaded and in
\* whatever order (reparentComments lines 165-173).
EveryCommentShown ==
  pc = "built" => /\ parent[0] = NotLoaded
                  /\ \A c \in Comments \ {0} : parent[c] \in Comments
                  /\ Acyclic(parent, Comments)

\* A comment stands under what it replied to when that was loaded, even when it
\* comes later in the list (parFn lines 148-155).
RepliesUnderParent ==
  pc # "replies" =>
    \A c \in Comments : replyTo[c] \in Comments => parent[c] = replyTo[c]

\* Comments in the order they were loaded, but those without a parent last.
Before(c, d) ==
  IF replyTo[c] = NotLoaded <=> replyTo[d] = NotLoaded
    THEN c < d
    ELSE replyTo[d] = NotLoaded

\* Children keep the order in which they were loaded, none of them twice, and
\* the comments whose parent is not on the page come after the replies to the
\* item of the page (reparentComments lines 157-173).
ChildrenInOrder ==
  \A p \in Comments : \A m, n \in 1..Len(children[p]) :
    m < n => Before(children[p][m], children[p][n])
=============================================================================
