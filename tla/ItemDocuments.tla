---------------------------- MODULE ItemDocuments ----------------------------
(***************************************************************************)
(* Items, votes and accounts as ActivityPub documents, and back.           *)
(*                                                                         *)
(* The API answers with documents that loadAPItem, loadAPActivity,         *)
(* loadAPLike and loadAPPerson (app/api/accounts.go) make from rows; the   *)
(* site, which knows the database only through the API, makes its items,   *)
(* votes and accounts from them with FromActivityPub (app/converter.go).   *)
(* What a reader sees of the rows of ItemStore has passed through both.    *)
(*                                                                         *)
(* An IRI is the sequence of the segments of its path, data is empty or    *)
(* not, and JSON in between gives back what it was given, save that the    *)
(* object of an activity always becomes an Article (Activity.UnmarshalJSON,*)
(* app/activitypub).  Dates and tags are left out.                         *)
(***************************************************************************)
EXTENDS ItemStore

CONSTANTS Author,    \* the account whose items these are
          Anonymous  \* AnonymousAccount

\* Hashes are hexadecimal.
ASSUME AuthorAssumption == Author # "object"

Link == "application/url"
Markdown == "text/markdown"
MimeTypes == {Link, Markdown, "text/plain", "text/html"}

\* Data and what it becomes: nothing stays nothing.
Empty == <<>>
Render(data) == IF data = Empty THEN Empty ELSE <<"html">> \o data
Base64(bytes) == <<"base64">> \o bytes
-----------------------------------------------------------------------------
\* The IRIs of actors, items and votes; an item of unknown author is one of
\* the whole site, and an item without hash has no IRI.
ActorID(a) == <<"self", "following", a>>
ObjectID(k, by) ==
  IF k = NoKey THEN <<>>
  ELSE (IF by = NoKey THEN <<"self">> ELSE ActorID(by)) \o <<"outbox", k, "object">>
ActivityID(k, by) == Front(ObjectID(k, by))
VoteID(k, by) == ActorID(by) \o <<"liked", k>>

\* GetHashFromAP: the last segment, or the one before it for an object.
HashOf(iri) ==
  CASE iri = <<>> -> NoKey
    [] iri # <<>> /\ Last(iri) = "object" -> iri[Len(iri) - 1]
    [] OTHER -> Last(iri)
-----------------------------------------------------------------------------
\* The row of item k as Model gives it, with a type and data that ItemStore
\* leaves out.  A reply to the first item of a thread has no OP.
Model(k, mime, data) ==
  [hash |-> k, title |-> title[k], mime |-> mime, data |-> data,
   by |-> Author, deleted |-> deleted[k], parent |-> ParentKey(k),
   op |-> IF OPKey(k) = ParentKey(k) THEN NoKey ELSE OPKey(k)]

\* What is left of a deleted item.
Tombstone(o) ==
  [o EXCEPT !.type = "Tombstone", !.by = <<>>, !.name = FALSE,
            !.url = Empty, !.content = Empty, !.source = Empty, !.mediaType = ""]

\* loadAPItem.  The data of a link is its URL; Markdown is kept as the source
\* of the content; other items have the address of their page as URL.
LoadAPItem(i) ==
  LET text == i.mime # Link
      o == [type |-> IF text THEN "Note" ELSE "Page",
            id |-> ObjectID(i.hash, i.by),
            url |-> IF text THEN <<"page", i.hash>> ELSE i.data,
            mediaType |-> IF i.mime = Markdown THEN "text/html"
                          ELSE IF text THEN i.mime ELSE "",
            content |-> CASE i.mime = Markdown -> Render(i.data)
                          [] i.mime # Markdown /\ text -> i.data
                          [] OTHER -> Empty,
            source |-> IF i.mime = Markdown THEN i.data ELSE Empty,
            name |-> i.title,
            by |-> IF i.by = NoKey THEN <<>> ELSE ActorID(i.by),
            inReplyTo |-> ObjectID(i.parent, NoKey),
            context |-> ObjectID(i.op, NoKey)]
  IN IF i.deleted THEN Tombstone(o) ELSE o

\* loadAPActivity: items are listed as the activities that made them.
LoadAPActivity(i) ==
  LET o == LoadAPItem(i)
  IN [id |-> ActivityID(i.hash, i.by), object |-> o,
      type |-> IF o.type = "Tombstone" THEN "Delete" ELSE "Create",
      actor |-> ActorID(IF o.type = "Tombstone" THEN Anonymous ELSE i.by)]

\* As FromTombstone, for a tombstone without place.
FromTombstoneAlone(o) ==
  [hash |-> HashOf(o.id), title |-> FALSE, mime |-> "", data |-> Empty,
   by |-> Anonymous, deleted |-> TRUE, parent |-> NoKey, op |-> NoKey]

\* Item.FromActivityPub of an object.  The source of an Article, when it has
\* any, wins over the content.
FromTombstone(o) ==
  [hash |-> HashOf(o.id), title |-> FALSE, mime |-> "", data |-> Empty,
   by |-> Anonymous, deleted |-> TRUE,
   parent |-> HashOf(o.inReplyTo), op |-> HashOf(o.context)]

FromArticle(o) ==
  [hash |-> HashOf(o.id), title |-> o.name,
   mime |-> CASE o.source # Empty -> Markdown
              [] o.source = Empty /\ o.type = "Page" -> Link
              [] OTHER -> o.mediaType,
   data |-> CASE o.source # Empty -> o.source
              [] o.source = Empty /\ o.type = "Page" -> o.url
              [] OTHER -> o.content,
   by |-> HashOf(o.by), deleted |-> FALSE,
   parent |-> HashOf(o.inReplyTo), op |-> HashOf(o.context)]

FromObject(o) == IF o.type = "Tombstone" THEN FromTombstone(o) ELSE FromArticle(o)

\* Item.FromActivityPub of an activity: a Create, or an Update, names the
\* author; the item of a Delete is deleted.
FromActivity(a) ==
  IF a.type = "Delete"
  THEN [FromObject(a.object) EXCEPT !.deleted = TRUE]
  ELSE [FromObject(a.object) EXCEPT !.by = HashOf(a.actor)]
-----------------------------------------------------------------------------
Weights == {-1, 0, 1}

\* loadAPLike, which names the voter as AttributedTo and not as actor.
LoadAPLike(k, weight) ==
  [id |-> VoteID(k, Author), object |-> ObjectID(k, Author), actor |-> <<>>,
   type |-> CASE weight = 0 -> "Undo" [] weight > 0 -> "Like" [] OTHER -> "Dislike"]

\* Vote.FromActivityPub.
FromLike(a) ==
  [item |-> HashOf(a.object), by |-> HashOf(a.actor),
   weight |-> CASE a.type = "Like" -> 1 [] a.type = "Dislike" -> -1 [] OTHER -> 0]

\* Accounts: of this server or of another, with or without avatar and key, and
\* with a hash once they are stored.
Rows == [hash : {Author}, handle : {"handle"}, local : BOOLEAN,
         icon : {Empty, <<"icon">>}, key : {Empty, <<"der">>}]

\* loadAPPerson.  The ID of every account with a hash is on this server; the key
\* is put in a PEM block.
LoadAPPerson(a) ==
  [id |-> ActorID(a.hash),
   name |-> IF a.local THEN a.handle ELSE "name",
   preferredUsername |-> a.handle,
   icon |-> a.icon,
   publicKeyPem |-> IF a.key = Empty THEN Empty ELSE Base64(a.key)]

\* Account.FromActivityPub of a Person; the bytes of the PEM block are encoded
\* once more, as GetKey expects them.
FromPerson(p) ==
  [hash |-> HashOf(p.id),
   handle |-> IF p.preferredUsername = "" THEN p.name ELSE p.preferredUsername,
   icon |-> p.icon,
   key |-> IF p.publicKeyPem = Empty THEN Empty ELSE Base64(Tail(p.publicKeyPem))]
-----------------------------------------------------------------------------
\* The thread an item is listed under, of an item made from a document.
ThreadOf(i) == IF i.op = NoKey THEN i.parent ELSE i.op

\* The item r, read back, is the stored item k, at its place in its thread.  A
\* deleted item lost all else; Markdown without a word comes back as HTML.
IsReadBack(r, k, mime, data) ==
  /\ r.hash = k
  /\ r.deleted = deleted[k]
  /\ r.parent = replyTo[k]
  /\ ThreadOf(r) = OPKey(k)
  /\ IF deleted[k]
     THEN r.by = Anonymous /\ ~r.title /\ r.data = Empty
     ELSE /\ r.by = Author /\ r.title = title[k] /\ r.data = data
          /\ r.mime = mime \/ (mime = Markdown /\ data = Empty)

\* Whatever has been submitted, edited and deleted, the site reads every item
\* back from the API, alone as an object or in a collection as an activity, as
\* the author wrote it and under the item it replied to; a deleted item as one
\* of nobody, in its place (accounts.go 42-280, converter.go 184-424).  Votes
\* keep their item and sign, and accounts what a page shows of them.  Rows do
\* not depend on what handlers are at: states in which none runs are all.
ReadBackAgrees ==
  (\A h \in Handlers : pc[h] = "idle") =>
    /\ \A k \in stored, mime \in MimeTypes, data \in {Empty, <<"data">>} :
         LET i == Model(k, mime, data)
         IN /\ IsReadBack(FromObject(LoadAPItem(i)), k, mime, data)
            /\ IsReadBack(FromActivity(LoadAPActivity(i)), k, mime, data)
    /\ \A k \in stored, weight \in Weights :
         LET v == FromLike(LoadAPLike(k, weight))
         IN v.item = k /\ v.weight = weight
    /\ \A a \in Rows :
         LET r == FromPerson(LoadAPPerson(a))
         IN /\ r.hash = a.hash /\ r.handle = a.handle /\ r.icon = a.icon
            /\ r.key = IF a.key = Empty THEN Empty ELSE Base64(a.key)
=============================================================================
