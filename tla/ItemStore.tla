----------------------------- MODULE ItemStore -----------------------------
(***************************************************************************)
(* Items of littr.go: submissions and comments, the threads they form, and *)
(* how their authors edit and delete them.                                 *)
(*                                                                         *)
(* The frontend handlers HandleSubmit and HandleDelete                     *)
(* (app/frontend/content.go), behind ValidateItemAuthor                    *)
(* (app/frontend/new.go), load and save items through the API              *)
(* (app/api/loader.go), which ends in saveItem (app/db/item.go).  A        *)
(* handler holds no lock between its calls: each call is one action here.  *)
(*                                                                         *)
(* The column path of an item is the sequence of the keys of its           *)
(* ancestors, the first item of the thread first; it is written once.      *)
(***************************************************************************)
EXTENDS Integers, SequencesExt

CONSTANTS Keys,      \* keys an item may get
          Handlers,  \* goroutines inside a handler, for the author of the item
          NoKey      \* no parent, or a goroutine that has no item

ASSUME NoKeyAssumption == NoKey \notin Keys

VARIABLES
  stored,    \* table items: the keys that have a row
  path,      \* items.path
  title,     \* whether items.title is not NULL
  deleted,   \* whether items.flags has FlagsDeleted
  voted,     \* the items that carry the vote of their author
  forms,     \* the items whose edit form their author was ever served
  pc,        \* where each goroutine is in its handler
  target,    \* the item it works on, or NoKey
  hasTitle,  \* whether the item it will save has a title
  replyTo,   \* history: the stored item each item was a reply to, or NoKey
  outlived,  \* history: the items deleted when their author had the edit form
  blind      \* history: the items edited after LoadItem failed

rows == <<stored, path, title, deleted, voted>>
locals == <<pc, target, hasTitle>>
history == <<replyTo, outlived, blind>>
vars == <<rows, forms, locals, history>>

Init ==
  /\ stored = {}
  /\ path = [k \in Keys |-> <<>>]
  /\ title = [k \in Keys |-> FALSE]
  /\ deleted = [k \in Keys |-> FALSE]
  /\ voted = {}
  /\ pc = [h \in Handlers |-> "idle"]
  /\ target = [h \in Handlers |-> NoKey]
  /\ hasTitle = [h \in Handlers |-> FALSE]
  /\ replyTo = [k \in Keys |-> NoKey]
  /\ forms = {}
  /\ outlived = {}
  /\ blind = {}

\* As ChildPath: the path of the parent alone.
SiblingPath(p) == path[p]

\* The path of a reply to p, computed by the INSERT.
ChildPath(p) == Append(path[p], p)

\* GetParentKey and GetOPKey.
ParentKey(k) == IF path[k] = <<>> THEN NoKey ELSE path[k][Len(path[k])]
OPKey(k) == IF path[k] = <<>> THEN NoKey ELSE path[k][1]

\* The items a filter on Context selects: those below the item in the ltree.
Context(k) ==
  {j \in stored : path[j] # <<>> /\ IsPrefix(ChildPath(k), path[j])}

Enter(h, label, k, t) ==
  /\ pc' = [pc EXCEPT ![h] = label]
  /\ target' = [target EXCEPT ![h] = k]
  /\ hasTitle' = [hasTitle EXCEPT ![h] = t]

Return(h) == Enter(h, "idle", NoKey, FALSE)
-----------------------------------------------------------------------------
\* HandleSubmit of a new item: saveItem inserts it.  A parent that has no row
\* leaves the path NULL.
SubmitItem(h, k, p) ==
  /\ pc[h] = "idle"
  /\ k \notin stored
  /\ stored' = stored \union {k}
  /\ path' = [path EXCEPT ![k] = IF p \in stored THEN ChildPath(p) ELSE <<>>]
  /\ \E t \in BOOLEAN : title' = [title EXCEPT ![k] = t]
  /\ replyTo' = [replyTo EXCEPT ![k] = IF p \in stored THEN p ELSE NoKey]
  /\ Enter(h, "submitted", k, FALSE)
  /\ UNCHANGED <<deleted, voted, forms, outlived, blind>>

\* The key is derived from the content: the INSERT of what was submitted before
\* is refused.
DuplicateItem(h, k) ==
  /\ pc[h] = "idle"
  /\ k \in stored
  /\ UNCHANGED vars

\* HandleSubmit then votes for the new item; a second vote in the same
\* direction takes the first back.
VoteOwn(h) ==
  /\ pc[h] = "submitted"
  /\ voted' = IF target[h] \in voted THEN voted \ {target[h]}
                                     ELSE voted \union {target[h]}
  /\ Return(h)
  /\ UNCHANGED <<stored, path, title, deleted, forms, history>>

\* As ValidateItemAuthor, for an item that keeps its author when deleted.
ValidateAnyItem(k) == k \in stored

\* Whether k is loaded as an item of its author: a deleted one is loaded as a
\* Tombstone of the anonymous account.
ValidateItemAuthor(k) == k \in stored /\ ~deleted[k]

\* GET /edit, by the author: ShowItem serves the form when the item is his,
\* and otherwise the item alone.  Once served, a form can be posted at any time
\* and any number of times.
OpenEditForm(k) ==
  /\ ValidateItemAuthor(k)
  /\ forms' = forms \union {k}
  /\ UNCHANGED <<rows, locals, history>>

\* POST /edit with that form.  HandleSubmit runs whether the check passes or
\* not: the refusal is a temporary redirect to the page of the item, which the
\* browser follows with the same POST, and that route has no check.
PostEditForm(h, k) ==
  /\ pc[h] = "idle"
  /\ k \in forms
  /\ Enter(h, "edit", k, FALSE)
  /\ UNCHANGED <<rows, forms, history>>

\* GET /rm: a refused one is redirected to ShowItem, which changes nothing.
RequestDelete(h, k) ==
  /\ pc[h] = "idle"
  /\ ValidateItemAuthor(k)
  /\ Enter(h, "delete", k, FALSE)
  /\ UNCHANGED <<rows, forms, history>>

\* HandleSubmit of an edited item takes the title from the item it loads.
LoadTitle(h) ==
  /\ pc[h] = "edit"
  /\ Enter(h, "edited", target[h], title[target[h]])
  /\ UNCHANGED <<rows, forms, history>>

\* LoadItem fails: the title is the one of the form, and the form that edits an
\* item has none.
LoadTitleFails(h) ==
  /\ pc[h] = "edit"
  /\ Enter(h, "edited", target[h], FALSE)
  /\ blind' = blind \union {target[h]}
  /\ UNCHANGED <<rows, forms, replyTo, outlived>>

\* As SaveEdit, with the title of the form in any case; followed by a vote.
SaveEditFromForm(h) ==
  /\ pc[h] = "edited"
  /\ title' = [title EXCEPT ![target[h]] = FALSE]
  /\ deleted' = [deleted EXCEPT ![target[h]] = FALSE]
  /\ Return(h)
  /\ UNCHANGED <<stored, path, voted, forms, history>>

SaveEditAndVote(h) ==
  /\ pc[h] = "edited"
  /\ title' = [title EXCEPT ![target[h]] = hasTitle[h]]
  /\ deleted' = [deleted EXCEPT ![target[h]] = FALSE]
  /\ Enter(h, "submitted", target[h], FALSE)
  /\ UNCHANGED <<stored, path, voted, forms, history>>

\* An Update activity carries no flags: the UPDATE clears FlagsDeleted.
SaveEdit(h) ==
  /\ pc[h] = "edited"
  /\ title' = [title EXCEPT ![target[h]] = hasTitle[h]]
  /\ deleted' = [deleted EXCEPT ![target[h]] = FALSE]
  /\ Return(h)
  /\ UNCHANGED <<stored, path, voted, forms, history>>

\* HandleDelete loads the item.  When it is deleted by now, its Tombstone is
\* saved for the anonymous account, which the API refuses.
LoadToDelete(h) ==
  /\ pc[h] = "delete"
  /\ IF deleted[target[h]] THEN Return(h)
                           ELSE Enter(h, "doomed", target[h], FALSE)
  /\ UNCHANGED <<rows, forms, history>>

\* As SaveDelete, with the row deleted.
DeleteRow(h) ==
  /\ pc[h] = "doomed"
  /\ stored' = stored \ {target[h]}
  /\ Return(h)
  /\ UNCHANGED <<path, title, deleted, voted, forms, history>>

\* A Delete activity carries a Tombstone: the UPDATE clears the title and the
\* data and sets FlagsDeleted.  Row and path stay.
SaveDelete(h) ==
  /\ pc[h] = "doomed"
  /\ title' = [title EXCEPT ![target[h]] = FALSE]
  /\ deleted' = [deleted EXCEPT ![target[h]] = TRUE]
  /\ outlived' = outlived \union ({target[h]} \cap forms)
  /\ Return(h)
  /\ UNCHANGED <<stored, path, voted, forms, replyTo, blind>>

\* A call fails, or the process dies, and the handler goes no further.
Fail(h) ==
  /\ pc[h] # "idle"
  /\ Return(h)
  /\ UNCHANGED <<rows, forms, history>>

Next ==
  \/ \E k \in Keys : OpenEditForm(k)
  \/ \E h \in Handlers :
       \/ \E k \in Keys, p \in Keys \union {NoKey} : SubmitItem(h, k, p)
       \/ \E k \in Keys :
            DuplicateItem(h, k) \/ PostEditForm(h, k) \/ RequestDelete(h, k)
       \/ VoteOwn(h) \/ LoadTitle(h) \/ LoadTitleFails(h) \/ SaveEdit(h)
       \/ LoadToDelete(h) \/ SaveDelete(h) \/ Fail(h)

Spec == Init /\ [][Next]_vars
-----------------------------------------------------------------------------
TypeOK ==
  /\ stored \subseteq Keys
  /\ path \in [Keys -> Seq(Keys)]
  /\ title \in [Keys -> BOOLEAN]
  /\ deleted \in [Keys -> BOOLEAN]
  /\ voted \subseteq stored
  /\ pc \in [Handlers ->
               {"idle", "submitted", "edit", "edited", "delete", "doomed"}]
  /\ target \in [Handlers -> stored \union {NoKey}]
  /\ hasTitle \in [Handlers -> BOOLEAN]
  /\ replyTo \in [Keys -> stored \union {NoKey}]
  /\ forms \subseteq stored
  /\ outlived \subseteq forms
  /\ blind \subseteq stored
  /\ \A h \in Handlers : pc[h] = "idle" <=> target[h] = NoKey

\* Paths agree with one another: what stands before a key in any path is the
\* path of the item with that key, and that item is stored.  So threads are
\* trees, the first key of a path is an item without ancestors, and no item
\* is its own ancestor, whatever is edited or deleted (saveItem lines 190-200,
\* 213-214).
ThreadsAgree ==
  \A k \in stored : \A n \in 1..Len(path[k]) :
    /\ path[k][n] \in stored \ {k}
    /\ path[path[k][n]] = SubSeq(path[k], 1, n - 1)

\* The parent and the thread of an item, as Model derives them from the path,
\* are the item it replied to and the thread of that item (Model lines 87-96).
ParentIsReplyTo ==
  \A k \in stored :
    /\ ParentKey(k) = replyTo[k]
    /\ OPKey(k) = IF replyTo[k] = NoKey THEN NoKey
                  ELSE IF OPKey(replyTo[k]) = NoKey THEN replyTo[k]
                  ELSE OPKey(replyTo[k])

\* The page of an item loads its descendants and nothing else (loader.go lines
\* 257-276): the items that have its key in their path.
ContextIsSubtree ==
  \A k \in stored :
    Context(k) = {j \in stored : \E n \in 1..Len(path[j]) : path[j][n] = k}

\* A deleted item comes back only through an edit form that its author was
\* served before the deletion, and that no check stops when it is posted after
\* it: no form is served of a deleted item, and nothing else restores one
\* (ValidateItemAuthor lines 178-188, ShowItem lines 228-233, HandleSubmit,
\* saveItem lines 203-214).
DeletedStaysDeleted ==
  [][\A k \in stored : deleted[k] /\ ~deleted'[k] => k \in outlived]_vars

\* An edit never takes the title of an item away nor gives it another, except
\* after a LoadItem that failed, or once it was deleted when its author had the
\* edit form: an edit that loaded the title before the deletion restores it with
\* the item, one that did so after it restores the item without (HandleSubmit
\* lines 330-335).
TitleKept ==
  [][\A k \in stored :
       title'[k] = title[k] \/ deleted'[k] \/ k \in outlived \union blind]_vars

\* Editing an item never takes the vote of its author back (HandleSubmit lines
\* 329-368, saveVote lines 266-268).
AuthorVoteKept == [][voted \subseteq voted']_vars
=============================================================================
