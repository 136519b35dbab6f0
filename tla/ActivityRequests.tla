-------------------------- MODULE ActivityRequests --------------------------
(***************************************************************************)
(* Activities that clients post to outboxes and other instances to inboxes *)
(* of littr.go: the routes of app/api/routes.go, the middleware of         *)
(* app/api/api.go that loads the account of a request, and the handlers    *)
(* ClientRequest and ServerRequest (app/api/accounts.go) with what they    *)
(* call to validate an activity, to store it, to store an account for an   *)
(* actor that is not known yet, and to store the item or vote it carries.  *)
(*                                                                         *)
(* The account of a request is kept in the handler, which all requests     *)
(* share: whatever reads it is a step of its own here.                     *)
(*                                                                         *)
(* An answer "stored" stands for the statuses 200 and 201, "error" for     *)
(* those from 400 on and for a panic, after which the request does nothing *)
(* else.  Left out: actors whose IRI names no account at all, and a Delete *)
(* of an object without ID.                                                *)
(***************************************************************************)
CONSTANTS Requests,  \* requests, each handled by a goroutine
          Locals,    \* actors of this instance
          Remotes,   \* actors of other instances
          Blocked,   \* those whose instance is on the black list
          Anonymous, \* AnonymousAccount, an actor of this instance
          NoOne,     \* no account
          Types      \* bound: the types of activity that are posted

ActivityTypes == {"Follow", "Create", "Update", "Delete", "Like", "Undo"}
Actors == Locals \union Remotes

ASSUME ActorsAssumption ==
  /\ Anonymous \in Locals
  /\ Blocked \subseteq Remotes
  /\ Locals \intersect Remotes = {}
  /\ NoOne \notin Actors
  /\ Types \subseteq ActivityTypes

VARIABLES
  acc,       \* handler.acc: the account loaded last, or NoOne
  accounts,  \* table accounts
  objects,   \* table objects: the requests whose activity was stored
  pc,        \* where each request is in its handler
  box,       \* what it was posted to: inbox or outbox
  sender,    \* the account its Authorization header names, or NoOne: invalid
  body,      \* its activity once validated
  broken,    \* whether its object was found invalid
  content,   \* the requests whose item or vote was stored
  author,    \* who submitted the item or vote of a request, NoOne if it has
             \* none, or is an edit: then the item keeps its author
  answer,    \* none, stored, accepted or error
  saved,     \* history: the requests that stored an account for their actor
  overlap    \* history: whether a request began before another had ended

stable == <<box, sender>>
progress == <<pc, body, broken, content, author, answer>>
history == <<saved, overlap>>
vars == <<acc, accounts, objects, stable, progress, history>>

\* The object of an activity is absent, an IRI or an object of this instance,
\* an object without ID, or else: an IRI of another instance, which would have
\* to be dereferenced, an object of a type that is not supported, a blocked IRI.
ObjectKinds == {"absent", "known", "new", "else"}

Activities ==
  {a \in [type: Types, actor: Actors, object: ObjectKinds] :
     ~(a.type = "Delete" /\ a.object = "new")}

InboxTypes == {"Create", "Like", "Follow"}
OutboxTypes == {"Create", "Update", "Like", "Delete", "Undo"}
Votes == {"Like", "Undo"}

Init ==
  /\ acc = NoOne
  /\ accounts = Locals
  /\ objects = {}
  /\ pc = [r \in Requests |-> "new"]
  /\ box \in [Requests -> {"inbox", "outbox"}]
  /\ sender \in [Requests -> Actors \union {NoOne}]
  /\ body = [r \in Requests |-> NoOne]
  /\ broken = [r \in Requests |-> FALSE]
  /\ content = {}
  /\ author = [r \in Requests |-> NoOne]
  /\ answer = [r \in Requests |-> "none"]
  /\ saved = {}
  /\ overlap = FALSE

Goto(r, label) == pc' = [pc EXCEPT ![r] = label]

\* The request goes on.
Going == UNCHANGED <<stable, body, broken, content, author, answer>>

Answer(r, status) ==
  /\ Goto(r, "done")
  /\ answer' = [answer EXCEPT ![r] = status]

Refuse(r) ==
  /\ Answer(r, "error")
  /\ UNCHANGED <<stable, body, broken, content, author>>
-----------------------------------------------------------------------------
\* Without a header the account is the anonymous one.  A header that cannot be
\* verified is logged, and the account that was loaded before stays.
LoadAccountFromAuthHeader(r) ==
  /\ pc[r] = "new"
  /\ overlap' = (overlap \/ \E s \in Requests : pc[s] \notin {"new", "done"})
  /\ acc' = IF sender[r] = NoOne THEN acc ELSE sender[r]
  /\ Goto(r, "verify")
  /\ Going /\ UNCHANGED <<accounts, objects, saved>>

\* As Verified, without looking for a missing account.
VerifiedUnlessAnonymous(r) ==
  acc \in IF box[r] = "outbox" THEN Locals
                               ELSE (Actors \union {NoOne}) \ {Anonymous}

\* LocalAccount for an outbox, NotAnonymous for an inbox.
Verified(r) ==
  acc \in IF box[r] = "outbox" THEN Locals ELSE Actors \ {Anonymous}

VerifyAuthHeader(r) ==
  /\ pc[r] = "verify"
  /\ \/ Verified(r) /\ Goto(r, "validate") /\ Going
     \/ ~Verified(r) /\ Refuse(r)
  /\ UNCHANGED <<acc, accounts, objects, history>>

\* LoadActivity fails: the body is no activity.
LoadActivityFails(r) ==
  /\ pc[r] = "validate"
  /\ Refuse(r)
  /\ UNCHANGED <<acc, accounts, objects, history>>

\* validateObject: no embedded object suits a Follow, an IRI does; an Update is
\* of an object with an ID.
ObjectFails(a) ==
  \/ a.object = "else"
  \/ a.object = "new" /\ a.type \in {"Follow", "Update"}

\* validateLocalActor and validateObject must both succeed for an outbox; the
\* actor may also be blocked, and the database may fail.
ValidateOutboxActivity(r, a) ==
  /\ pc[r] = "validate" /\ box[r] = "outbox"
  /\ \/ /\ a.type \in OutboxTypes
        /\ a.actor \in Locals \intersect accounts
        /\ ~ObjectFails(a)
        /\ body' = [body EXCEPT ![r] = a]
        /\ Goto(r, "sign")
        /\ UNCHANGED <<stable, broken, content, author, answer>>
     \/ Refuse(r)
  /\ UNCHANGED <<acc, accounts, objects, history>>

\* For an inbox an invalid object is remembered, and an actor that LoadAccount
\* does not find, or fails to load, is to be saved; a wrong type, no recipient
\* of this instance or a blocked actor is refused.
ValidateInboxActivity(r, a) ==
  /\ pc[r] = "validate" /\ box[r] = "inbox"
  /\ \/ /\ a.type \in InboxTypes
        /\ a.actor \notin Blocked
        /\ body' = [body EXCEPT ![r] = a]
        /\ broken' = [broken EXCEPT ![r] = ObjectFails(a)]
        /\ \/ a.actor \in accounts /\ Goto(r, "save")
           \/ Goto(r, "saveWithActor")
        /\ UNCHANGED <<stable, content, author, answer>>
     \/ Refuse(r)
  /\ UNCHANGED <<acc, accounts, objects, history>>

\* As MatchActor, without the comparison.
MatchAnyActor(r) ==
  /\ pc[r] = "sign"
  /\ Goto(r, "save") /\ Going
  /\ UNCHANGED <<acc, accounts, objects, history>>

\* ClientRequest compares the actor of the activity with the account.
MatchActor(r) ==
  /\ pc[r] = "sign"
  /\ \/ body[r].actor = acc /\ Goto(r, "save") /\ Going
     \/ body[r].actor # acc /\ Refuse(r)
  /\ UNCHANGED <<acc, accounts, objects, history>>

\* As SaveActivity, assigning its error to that of the validation.
SaveActivityForgets(r) ==
  /\ pc[r] \in {"save", "saveWithActor"}
  /\ objects' \in {objects, objects \union {r}}
  /\ broken' = [broken EXCEPT ![r] = r \notin objects']
  /\ Goto(r, IF pc[r] = "save" THEN "content" ELSE "actor")
  /\ UNCHANGED <<acc, accounts, stable, body, content, author, answer, history>>

\* SaveActivity may fail: that is logged, and the request goes on.
SaveActivity(r) ==
  /\ pc[r] \in {"save", "saveWithActor"}
  /\ objects' \in {objects, objects \union {r}}
  /\ Goto(r, IF pc[r] = "save" THEN "content" ELSE "actor")
  /\ Going /\ UNCHANGED <<acc, accounts, history>>

\* As SaveAccount, going on with the actor of the activity when the account is
\* not saved.
SaveAccountUnchecked(r) ==
  /\ pc[r] = "actor"
  /\ accounts' \in {accounts, accounts \union {acc}}
  /\ Goto(r, "content")
  /\ Going /\ UNCHANGED <<acc, objects, history>>

\* As SaveAccount, saving the actor of the activity.
SaveActor(r) ==
  /\ pc[r] = "actor"
  /\ accounts' = accounts \union {body[r].actor}
  /\ broken' = [broken EXCEPT ![r] = FALSE]
  /\ saved' = saved \union {r}
  /\ Goto(r, "content")
  /\ UNCHANGED <<acc, objects, overlap, stable, body, content, author, answer>>

\* The account that is saved is the one in the handler, and it becomes the
\* actor.  Its error, which is nil, replaces that of an invalid object.
SaveAccount(r) ==
  /\ pc[r] = "actor"
  /\ accounts' = accounts \union {acc}
  /\ body' = [body EXCEPT ![r].actor = acc]
  /\ broken' = [broken EXCEPT ![r] = FALSE]
  /\ saved' = saved \union {r}
  /\ Goto(r, "content")
  /\ UNCHANGED <<acc, objects, overlap, stable, content, author, answer>>

SaveAccountFails(r) ==
  /\ pc[r] = "actor"
  /\ Refuse(r)
  /\ UNCHANGED <<acc, accounts, objects, history>>

\* A Follow is accepted and nothing is stored.
AcceptFollow(r) ==
  /\ pc[r] = "content"
  /\ body[r].type = "Follow"
  /\ Answer(r, IF broken[r] THEN "error" ELSE "accepted")
  /\ UNCHANGED <<acc, accounts, objects, history, stable, body, broken, content,
                 author>>

\* Item.FromActivityPub loads no item from an absent object or one of no
\* supported type; Vote.FromActivityPub drops the error of its item.
Loadable(a) ==
  \/ a.type \in Votes
  \/ a.type # "Follow" /\ a.object \in {"known", "new"}

\* SaveItem or SaveVote.  Only an insert sets who submitted an item.
Store(r) ==
  /\ Loadable(body[r])
  /\ content' = content \union {r}
  /\ author' = IF body[r].type \in Votes \/ body[r].object = "new"
               THEN [author EXCEPT ![r] = body[r].actor] ELSE author

\* The error of an invalid object is answered after storing.
SaveContent(r) ==
  /\ pc[r] = "content"
  /\ Store(r)
  /\ Answer(r, IF broken[r] THEN "error" ELSE "stored")
  /\ UNCHANGED <<acc, accounts, objects, history, stable, body, broken>>

\* Loading the activity or saving fails; it may do so after the item or vote
\* was stored, when the score or the item cannot be read back.
SaveContentFails(r) ==
  /\ pc[r] = "content" /\ body[r].type # "Follow"
  /\ Store(r) \/ UNCHANGED <<content, author>>
  /\ Answer(r, "error")
  /\ UNCHANGED <<acc, accounts, objects, history, stable, body, broken>>

Next ==
  \E r \in Requests :
    \/ LoadAccountFromAuthHeader(r) \/ VerifyAuthHeader(r)
    \/ LoadActivityFails(r)
    \/ \E a \in Activities :
         ValidateOutboxActivity(r, a) \/ ValidateInboxActivity(r, a)
    \/ MatchActor(r) \/ SaveActivity(r) \/ SaveAccount(r) \/ SaveAccountFails(r)
    \/ AcceptFollow(r) \/ SaveContent(r) \/ SaveContentFails(r)

\* Every request has been answered.
Idle == (\A r \in Requests : pc[r] = "done") /\ UNCHANGED vars

Spec == Init /\ [][Next \/ Idle]_vars
-----------------------------------------------------------------------------
Labels == {"new", "verify", "validate", "sign", "save", "saveWithActor",
           "actor", "content", "done"}
Answers == {"none", "stored", "accepted", "error"}

TypeOK ==
  /\ acc \in Actors \union {NoOne}
  /\ accounts \subseteq Actors /\ Locals \subseteq accounts
  /\ objects \subseteq Requests
  /\ pc \in [Requests -> Labels]
  /\ box \in [Requests -> {"inbox", "outbox"}]
  /\ sender \in [Requests -> Actors \union {NoOne}]
  /\ body \in [Requests -> Activities \union {NoOne}]
  /\ broken \in [Requests -> BOOLEAN]
  /\ content \subseteq Requests
  /\ author \in [Requests -> Actors \union {NoOne}]
  /\ answer \in [Requests -> Answers]
  /\ saved \subseteq Requests
  /\ overlap \in BOOLEAN

\* A request is answered 200 or 201 only if the item or vote it carries was
\* stored, and an activity with an invalid object is refused at last, though it
\* may be stored: but for a request that saves an account for its actor, which
\* forgets that the object was invalid (ServerRequest lines 1210-1281).
SuccessIsStored ==
  \A r \in Requests :
    /\ answer[r] = "stored" => r \in content
    /\ answer[r] \in {"stored", "accepted"} => ~ObjectFails(body[r]) \/ r \in saved

\* Whoever an item or vote is attributed to has an account by then, whether the
\* actor was known, was saved by this request, or was mixed up with the account
\* of another one.
AuthorHasAccount == \A r \in content : author[r] \in accounts \union {NoOne}

\* No request makes up an account: those stored for unknown actors are accounts
\* that signed a request, though maybe not the one for which they were stored.
AccountsAreSenders ==
  accounts \subseteq Locals \union {sender[r] : r \in Requests}

\* What is stored through an outbox is attributed to the account that the
\* Authorization header of that very request names, and to nobody when that
\* header cannot be verified (accounts.go line 1148).
OutboxAuthorIsSender ==
  \A r \in content : box[r] = "outbox" => author[r] \in {sender[r], NoOne}

\* As long as no request begins before another one has ended, what is stored
\* through an outbox, or after saving an account, is attributed to the account
\* that the header of that request names; when that cannot be verified, to the
\* one that the last header before it named.
SerialAuthor ==
  [][\A r \in content' \ content :
       ~overlap /\ (box[r] = "outbox" \/ r \in saved) =>
         author'[r] \in {NoOne, IF sender[r] = NoOne THEN acc ELSE sender[r]}]_vars
=============================================================================
