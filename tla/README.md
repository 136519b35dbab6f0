# Specifications of littr.go

TLA+ models of littr.go (a link aggregator that federates over ActivityPub), the
TLC configurations that check them on small instances, and proofs, checked by
TLAPS, of what holds for every instance.  Paths below are relative to the root
of the repository, which is `src/` in `PROJECT.json`.

    tlc -config MCVoting_race.cfg MCVoting           # model-check a run
    tlapm VoteStoreProofs.tla                        # check the proofs of a module

`PROJECT.json` lists components, runs, mutants (changes of a definition, each
like a plausible bug, that the property of the run must detect), the source
lines of every definition, findings, hazards and theorems.

## 1. The system

One process serves the site and the API; PostgreSQL holds all state that lasts.
Commands under `cli/` are processes of their own on the same database.  There
are no locks in the Go code, and one transaction (`oauth/db.go`): what the
database does not order by a constraint is ordered by nothing.

| component | state | operations | talks to |
|---|---|---|---|
| Vote store `app/db/vote.go` | tables `votes`, `items.score` | `saveVote`: select, write, sum, store, four autocommitted statements | called by API handlers, importer |
| Score recounts `app/cmd/votes.go`, `app/db/db.go` | the scores computed and not written yet | `UpdateScores` of items or of accounts | same tables, another process |
| Voting from a page `frontend/content.go`, `api/loader.go` | the vote the client read | a click: read the stored vote, post a Like, a Dislike or an Undo | API, vote store |
| Server lifecycle `app/app.go` | server goroutine, signal channel, exit channel, open connections | `Run`: serve, receive signals, reload, shut down, exit | all handlers |
| Configuration `app/app.go` | `app.Instance`, the environment, `.env` files | `New`, `loadEnv`, again for each SIGHUP | everything that reads the configuration |
| OAuth storage `app/oauth/db.go`, `app/frontend/oauth.go` | tables `client`, `authorize`, `access`, `refresh` | issue a code, buy a token with it, look a token up | osin; session of a reader; API requests with a bearer token |
| Sessions and login `app/frontend/frontend.go`, `login.go`, `oauth.go` | `handler.account`; session cookies | load a session, log in and out, authorize, callback | OAuth storage, account store |
| Item store `app/db/item.go` and the handlers of `content.go` | table `items`: path, title, flags | submit, reply, edit, delete | vote store (the author's own vote) |
| Conversions `app/converter.go`, `loadAP*` of `app/api/accounts.go` | none | rows to documents, documents to what the site shows | between item store and pages |
| Comment page `app/frontend/content.go` | the comments of a page, parents, children, levels | `reparentComments`, `addLevelComments` | item store, templates |
| Activity requests `app/api/accounts.go`, `app/api/api.go` | `handler.acc`; tables `objects`, `accounts`, and items or votes | POST to an inbox or an outbox | account, item and vote stores |
| Listings `app/loader.go`, `loadItems`, `loadCollection`, `frontend/listing.go`, `api/loader.go` | none of their own; the page a client is at | make a filter, a route and a query, a WHERE clause; load a page, count, link other pages | item store |
| Account store `app/db/account.go`, `frontend/register.go` | table `accounts`, with a column `metadata` | register; save, load, update | registration, keys, activity requests, importer |
| Importer `app/cmd/poacher.go` | locals of its loop | import a feed: author, item, vote | account, item and vote stores |
| Keys `app/cmd/keys.go` | the accounts it loaded | make a key for each | account store |
| Bootstrap `app/cmd/bootstrap.go` | database | create and seed it | - |
| Fetcher, queue, processing | - | unfinished: messages are declared, nothing consumes them | - |
| WebFinger, NodeInfo, types, templates, logging, errors | - | read or format | - |

What is hard here:

* **Interleaving.**  Each handler runs in a goroutine per request.  `saveVote`,
  the count of a listing and the exchange of a code are several statements with
  nothing around them; `handler.acc` (API) and `handler.account` (frontend) are
  single fields that all requests overwrite, and so is the configuration.
* **Partial failure.**  A vote is stored before its score; an activity, an
  account and an item are stored one after the other; a token is stored before
  its code is deleted.  Errors in between are often only logged, or looked at in
  the wrong variable.
* **Stale values.**  A sum, a title, an item's flags, a parent, the metadata of an
  account or the vote of a reader are read early and written later.
* **Order.**  Comments arrive by score, parents after replies or not at all;
  pages are cut out of an order that changes; signals get lost in a channel of one
  place.
* **Translation.**  What a page shows has gone from row to document, to JSON, and
  back; what it asks for, from filter to query, to filter, to SQL.
* **Stopping.**  Signals, the server goroutine and the main goroutine race for
  who ends the process.

What makes each component correct is stated in section 3, and every hazard, at
its line, in `PROJECT.json`.

## 2. The modules

| module | models | kind |
|---|---|---|
| `VoteBoard` | what voting promises: ask, cast or take back in one step | abstract specification |
| `VoteStore` | `saveVote`, failures, `cli/votes` | implements `VoteBoard` (`INSTANCE`) |
| `Voting` | clicks of readers, the client's decision, and `VoteStore` behind it | composition, implements `VoteStore` |
| `Lifecycle` | `Application.Run` | component |
| `Configuration` | `New`, `loadEnv`, reload beside handlers | composition, implements `Lifecycle` |
| `OAuthStore` | codes, tokens, refresh tokens, the callback's lookup | component |
| `Sessions` | cookies, `handler.account`, login, authorization, callback | composition, implements `OAuthStore` |
| `ItemStore` | items, threads, submit, edit, delete | component |
| `ItemDocuments` | rows to ActivityPub documents and back | pure functions over `ItemStore` |
| `ItemFilters` | filters, routes, WHERE clauses, links | pure functions over `ItemStore` |
| `CommentTree` | `reparentComments` | component |
| `CommentLevels` | `CommentTree` followed by `addLevelComments` | composition |
| `ActivityRequests` | POST to inboxes and outboxes | component |
| `Listing` | pages of a listing that changes | component |
| `AccountStore` | registration, `cli/keys`, `cli/poach` on one table | composition of three programs |
| `MC*` | constants, bounds and symmetry; `MCVoteRecount` is recounts alone | model checking |
| `*Proofs` | theorems | proofs |

An operator whose name varies that of another and whose comment begins with
"As ..." is not part of a specification: it is the form a mutant gives the
other one.

### How state and actions correspond to the code

**VoteStore.**  `votes[i][a]` is the row of an account for an item or `NoVote`;
`pc`, `req`, `old` and `sum` are the locals of each goroutine inside `saveVote`.
`SelectVote`, `UpdateVote`/`InsertVote`/`InsertConflict`, `SumVotes` and
`StoreScore` are its statements; `Fail` is an error of one, or a crash.  The
error of the SELECT is dropped by the code, so a failed SELECT looks like a
missing row, and the INSERT that follows hits the unique key.  `RecountItems`
and `RecountAccounts` are the queries of `cli/votes`, `WriteRecount` one of its
UPDATEs; `Elapse` lets rows fall out of its time window.  `stale` is a history
variable: items whose score a race, a failure or a partial recount may have left
wrong.  `VotesAreAtomic` maps `VoteStore` to `VoteBoard`: a vote is cast when its
row is written.  When another vote of the account came between the SELECT and the
UPDATE of a call, the call is `Superseded`, and it is cast on the row it had selected
(`CastOn`) instead of the one recorded.

**Voting.**  `click` is what the page of a goroutine asked for: the arrow and the
activity the client chose after it read the vote (`Activity`).  A read that fails
looks like no vote.  The frontend waits for the API, so one goroutine of
`VoteStore` stands for both.  `quiet` is history: no other vote of the account on
that item was recorded since the read.

**Lifecycle.**  `server` is the goroutine of `ListenAndServe`, `main` the one of
`Run`, `sigChan` the channel with one place, `handling` the signal the signal
goroutine has taken out of it.  The send on `exitChan` and its receipt are one
step, as the channel has no buffer.  `Shutdown` is three steps: it closes the
listeners, which makes `ListenAndServe` return; connections finish or the
deadline comes; it returns.

**Configuration.**  Three variables stand for all that `loadEnv` reads: one read
before the files (`LOG_LEVEL`), one that others are made from (`HTTPS`), one with
a default that is assigned in a second step (`API_URL`).  `at` is the next
assignment.  `StoreActivity` is a handler that uses the result: `saveActivity` cuts
the host off an IRI that `HostIsLocal`.  A string read while it is replaced by
another one is a data race; `APIHosts` has its outcomes.

**OAuthStore.**  The tables are `authorize`, `access` and `refresh`; a token is
named by the request that buys it.  osin is modelled from the storage calls it
makes.  A panic (the branch of `LoadAuthorize` for an expired code calls
`err.Error()` on a nil error, `app/oauth/db.go:198`) ends the request.  `left` is
a history variable: codes whose row a failure left behind.

**Sessions.**  `account` is `handler.account`, `cookie[b]` the session a browser
brings, `owner[c]` the UserData of a code.  `BeginAuthorize`, `ValidateLoggedIn`,
`Authorized`, `Authorize` are the places where `/oauth/authorize` reads the account
of the handler; `Exchange` and `TokenOfCallback` are the request the callback makes
to its own server, whose middleware and decoder both overwrite that account, and
`FinishCallback` loads it anew.  `quiet`, `mixed` and `loggedIn` are history.

**ItemStore.**  `path` is the ltree column: the keys of the ancestors.
`SubmitItem` computes it with `ChildPath`, the CASE expression in the INSERT;
`ParentKey`, `OPKey` and `Context` read it as `Model` and the filter do.  An edit
begins with the form: `OpenEditForm` serves it to the author of an item that is not
deleted (a deleted one is loaded as anonymous, so `ValidateItemAuthor` fails), and what
was served can be posted at any time and again (`PostEditForm`).  The check of
`ValidateItemAuthor` does not stop a post: it answers with status 307 to the page of the
item, where the browser posts the form again, and that route runs `HandleSubmit` without
a check (`frontend/new.go:185`, `routes.go:37`).  `LoadTitle` and `SaveEdit` follow, of
which the last sets all columns; a deletion is checked, loads the item and writes it.
`replyTo`, `outlived` (items deleted when their author had the edit form) and `blind`
(items edited after a failed load) are history variables.

**ItemDocuments, ItemFilters.**  Nothing here changes state; the functions are
applied to the rows of every state `ItemStore` reaches.  `LoadAPItem` and
`FromObject` (and the pairs for activities, likes and persons) are the two halves of
a round trip.  `LoadItems`, `LoadFiltersCtxt`, `Selected` are the three
translations of a filter, and `Linked` makes the filter behind a link.  `Index`,
`Comments` and so on are the filters the handlers of the pages build.

**CommentTree, CommentLevels.**  Comment 0 is the item of the page, the others
are numbered as loaded; `replyTo` gives any thread in any order, with parents on
the page or not.  `ReplyStep` and `RestStep` are iterations of the two loops.
`stack` holds the calls of `addLevelComments` that have not returned, each with its
list, the comment it is at and the child that is next.  `LevelChild` is the assignment
of a level and the call that follows it, `NextComment` the step of the outer loop.  The
page is `Rendered` only when the first call has returned, so a call that could not go
on would be a deadlock.

**ActivityRequests.**  `acc` is `handler.acc`.  A request goes through
`LoadAccountFromAuthHeader`, `VerifyAuthHeader`, validation, `MatchActor`
(outbox), `SaveActivity`, `SaveAccount` (an inbox and an unknown actor) and
`SaveContent`; each may fail, and other requests run between any two.  The
sender is what the Authorization header proves, `NoOne` for a header that is not
valid: such a request goes on with the account that is in `acc`
(`app/api/api.go:461`).  A request without header is that of `Anonymous`.  `broken` is
the error of an invalid object, which the error of `SaveAccount` replaces.  `saved` (the
requests that stored an account for their actor) and `overlap` (whether one began before
another had ended) are history variables.

**Listing.**  `pos` is the order of the items that match the filter.  `LoadItems`
and `CountItems` are the two queries; `SiteLink` and `ApiLink` the next links of
the site and of the API.  Items enter, leave and move between any two queries.
`rose` and `sank` are history variables.

**AccountStore.**  `row[a]` is the metadata of an account: which registration made
its password, which run of `cli/keys` its key.  `copy` and `todo` are the accounts a
run loaded first and writes back one by one.  `at`, `pc`, `author` and `err` are the
loop of `PoachFeed`, where `err` is the outer variable that the `if` statements
shadow.  `failed` and `blind` are history: entries whose item was not saved, and
accounts some program wrote without knowing their row.

## 3. Runs

Passing runs check what their properties say on all behaviours of the instance;
in a run with `expect: violation` the code contradicts its documentation.  The
passing runs also check a type invariant, but for `votes_tabs`, which shares its module.

| run | shows | bounds and why they are enough |
|---|---|---|
| `votes_race` | With votes, clicks, failures and recounts overlapping at will, the score of an item is the sum of its votes once nothing is under way for it, unless a race or a failure made it stale (`SettledScoreIsSum`); a click that no other vote of the account on that item overtakes does what its arrow promises, although client and server both toggle (`ClickToggles`). | 1 item, 2 accounts, 2 goroutines, one of which may come from a page. Items share nothing; two goroutines give every order of the four statements, and `cli/votes` is a third actor. Proved for any number. |
| `votes_tabs` | `saveVote` implements `VoteBoard` also when two goroutines vote for one account: each vote takes effect at most once, in one step, on the recorded vote, or on the selected one if the call was overtaken, and no first vote replaces another (`VotesAreAtomic`); a written vote gets counted or its item is stale (`VoteGetsCounted`). | 1 item, 2 accounts, 2 goroutines: both vote for the first account, one for the second too, so that tabs overtake each other and another voter is counted meanwhile. Without symmetry and with failures and recounts; the proof has no bounds. |
| `recount_accounts` | Violation: `cli/votes -accounts` writes 0 to the items that have the identifier of an account. | 2 items, 2 accounts, no votes during the recount. Items and accounts are numbered from 1, as serial columns are. |
| `lifecycle` | A stop signal that found room in the channel ends the process, also during a reload and with connections that hang (`StopEndsProcess`); an edit of the files that is followed by a SIGHUP is read, also when that signal is dropped (`EditIsRead`); a reload never makes the IRI of another instance look local, but at the assignment of a changed `API_URL` or without one (`RemoteIRIsStayWhole`). | 1 connection, 1 edit, 2 SIGHUP, 1 SIGINT and 1 SIGQUIT, which are handled as SIGTERM is: a reload asked for during a reload, a full channel, a dropped signal and a second stop all happen. |
| `lifecycle_graceful` | Violation: connections are cut before the deadline, because the server goroutine exits when `Shutdown` makes `ListenAndServe` return. | 2 connections, each of the 4 signals once. |
| `sessions` | Codes, sessions and the account of the handler belong to accounts that logged in (`OwnersLoggedIn`); a session and its token are of one account, unless the code was got while another request set the account of the handler, or was kept over a login to another account (`TokenMatchesSession`); the token stays accepted while codes expire and others spend the code (`SessionTokenIsAccepted`); a code whose row is deleted buys nothing more (`SpentCodeBuysNothing`). | 2 browsers, 2 accounts, 1 code, 2 token requests, restarts and failures at any time: one browser logs in, out and around while the other is given a code, and two requests race for the code. `OneFlow` keeps one browser at a time between `/oauth/authorize` and the end of its callback; the proofs need no such bound. |
| `items` | Parent and thread read back are those replied to (`ParentIsReplyTo`), also through ActivityPub documents, with the author and the deletion (`ReadBackAgrees`); every page shows the items it is about, neither more nor less (`PagesShowTheirItems`), and links to pages of the same (`LinksStayInListing`); a deleted item comes back only through an edit form served before the deletion (`DeletedStaysDeleted`), an edit keeps the title unless its form outlived a deletion or the load of the title failed (`TitleKept`), and the author's vote survives edits (`AuthorVoteKept`). | 3 items: a chain and two siblings; 2 goroutines: every overlap of two handlers. Three authors: a reader, another one, nobody. Filters of depth 1, so that an item one level deeper is left out. |
| `comments` | Every comment loaded is shown once (`EveryCommentShown`), under its parent if that is on the page (`RepliesUnderParent`), siblings in order (`ChildrenInOrder`), and once the nested calls of `addLevelComments` have returned its level is its depth, although they compute levels from levels that are not final (`LevelIsDepth`). | 5 comments: all orders of all trees, with and without parents on the page. `LevelSize` is 4 for 256: chains of five wrap. |
| `requests` | Success means stored with a valid object, but for a request that saves an account for its actor, which forgets that the object was not valid (`SuccessIsStored`); authors have accounts (`AuthorHasAccount`); only senders get accounts (`AccountsAreSenders`). While requests do not overlap, what an outbox stores, or an inbox that saved its actor, is attributed to the account its request names, or, when its header is invalid, to the account the last valid header before it named (`SerialAuthor`). | 2 requests, 4 actors: local, anonymous, remote, on a blocked instance; four types of activity that take every branch. Two requests are enough to replace `handler.acc`. |
| `requests_outbox` | Violation of `OutboxAuthorIsSender`: an outbox takes an activity for another account, as the check compares with the account of another request; with overlapping requests, or with an invalid header after another request. | 2 requests, Create only. |
| `listing` | A reader of the site who gets to the last page missed no item that did not come or move up meanwhile (`LastPageMissesNothing`); a client of the API missed at most one page of them (`LastPageMissesOnePage`); what comes up twice moved down or came back (`ShownTwiceMovedDown`). | 5 items, 2 on a page: three pages, the last one not full, and 4 items, where the last page is full. |
| `account_feeds` | Registrations, `cli/keys` and imports on the same rows: a password or a key is lost only to a registration or to a program that had not seen the row as it was (`MetadataKept`); an imported item is of the author its entry names, or of the system (`AuthorIsNamed`); no import takes an author's vote back (`ImportedVotesStay`). | 1 handle, a feed of two entries (without author, then with one), 2 importers, 2 runs of `cli/keys`, 2 registrations: what is loaded by one program can be overwritten by each other one, and the error of one entry meets the author of the next. |

The bounds are constants of the configurations.  Four counters that the code leaves
unbounded have one: `MaxSignals` for each signal, `MaxEdits` for edits of the files,
`MaxLogins` for registrations, and `OneFlow`, a constraint.  Symmetry is used where
identifiers are interchangeable: goroutines with the same voters, browsers, accounts,
codes and requests, keys and handlers, requests, items of a listing, processes of one
program; never in a run with a liveness property.

`CHECK_DEADLOCK FALSE` stands where the system stops: the process has exited, or the
recount has been written.  `CommentTree` has a step `Rendered` for when the page is
shown, `ActivityRequests` a step `Idle` for when all requests are answered.

### Fairness

Liveness is stated twice.  `VoteGetsCounted` assumes weak fairness of `SumVotes`
and `StoreScore`: a goroutine inside `saveVote` is scheduled, and the database
answers; it may answer with an error, which is `Fail` and leaves the item stale.
`StopEndsProcess` assumes weak fairness of the steps of the goroutines of `Run`, the
assignments of a reload among them, and of the deadline of the context, a timer; not of
`Answer`, so connections may hang, nor of `SendSignal` or of edits.  The mutants of both
leave fairness as it is.

## 4. Proofs

Theorems hold for every value of the constants under the assumptions named in the
modules: finite sets of accounts and items, a page size of at least one, sentinels
that are no values.  Each action property and invariant follows from an inductive
invariant that TLC found true first.

* **VoteStoreProofs.**  `SettledScoreIsSum` is not inductive: a goroutine that has
  summed must still hold the right sum when it writes.  `ScoreInv` says that for an
  item that is not stale at most one goroutine counts and every sum on its way is
  the sum of the votes now (`Undisturbed`).  `RangeInv` bounds not only scores but
  all sums on their way by the number of voters, which never falls (`ScoreBounded`).
  Every step of `VoteStore` is a step of `VoteBoard`, a cast of an overtaken call, or a
  stutter (`VotesImplementBoard`), without assumptions on who votes for whom.
  `SelectedInv`, under `OneVoiceEach` (no two goroutines speak for one account), says
  that the row a goroutine selected is the row now: then no call is overtaken and
  `VoteStore` implements `VoteBoard` proper (`OneVoiceIsAtomic`).  `Voting` implements
  `VoteStore` (`VotingImplementsStore`), so all of that holds with pages too;
  `ClicksToggle` rests on `ClickInv`, which says what a quiet click knows of the row
  at every statement of the goroutine that carries it.
* **LifecycleProofs.**  `GracefulInv`: once `Shutdown` has returned no connection is
  left or the deadline has passed, so exit status 0 is graceful (`GracefulSuccess`).
  `SignalInv`: a stop signal that is buffered or handled was sent (`StopsAreAsked`).
  `StopsAreKept` is the safety half of `StopEndsProcess`: one that found room in the
  channel is not lost before the main goroutine has left its wait.
  `ConfigurationImplementsLifecycle` maps the assignments of a reload to stutters but
  for the last one, so both hold of the server with its configuration.  `EditsAreRead`
  needs to know that a reload which is owed is in the channel, or is running and has
  not read the files yet (`Owed`), and what each assignment has left in the
  configuration (`Assigned`); `RemoteIRIsKept` follows from the latter.
* **SessionsProofs.**  `RowInv` ties rows to the requests that wrote them;
  `AcceptedInv` says of a request past `RemoveAuthorize` what
  `SessionTokenIsAccepted` says of sessions.  `SessionsImplementStore` carries both over
  to the sessions.  `TokensMatch` follows a code from the moment the account of the
  handler is read to the cookie: undisturbed, that account is the session's
  (`QuietInv`); the code a browser holds is of its session's account (`HeldInv`), and so
  is the session its callback came with (`SeenInv`); the token request carries that code
  (`ReqInv`); and a token in a cookie was bought by a request that is done (`TokenInv`).
* **ItemStoreProofs.**  `ThreadsAgree` is inductive by itself, since a new path is
  that of the parent and its key; `ParentIsReplyTo` and `ContextCorrect` follow
  from it, and so does `ReadBack`, as the parent and the thread in a document are made
  from the path.  `LinksStay` is about filters only and holds in any state.
  `HandlerInv` says that whoever edits has a form (`EditsHaveForms`), that a deleted item
  with a form is one whose form outlived its deletion (`DeletionSeen`), what title an edit
  holds (`TitleKnown`) and that a key has one submitter (`OneSubmitter`).
  `PagesShow`: what a page is to show is defined by replies to replies (`Below`), what
  the WHERE clauses select by paths.  `ReplyHasAncestors` and `LevelRecurs` say that the
  items m levels below k are those with k m places from the end of their path;
  `BelowIsLevels` that the function `Below` recurs on is that one, by the least level at
  which they would differ (`LeastNumber`, from the library's `WFMin`); `BelowByDepth` that
  the levels from 1 to n are the context of k cut off at a length.  The rest follows each
  filter of a page through its route and query (`ClausesArrive`).  `PageIsThread` joins
  this to `CommentTree`: what any page loads, in any order, is one of its `Threads`.
* **CommentTreeProofs.**  `ParentInv` gives the parent of every comment in closed
  form, from the thread and the place of the loop.  That climbing always ends at
  comment 0 follows from the threads having no cycles.  Adding levels leaves the tree
  as it is (`LevelsImplementTree`).  `LevelIsDepth` says nothing of the time before the
  first call returns; `LevelsInv` does: a level that is not yet one more than that of the
  parent will be assigned by a call on the stack that has still to come to it
  (`ComesTo`).  `CallsInv` says that each call but the last is at a comment whose
  children the next call is for, so no two calls are for the children of one comment, and
  there are never more calls than `N + 1` (`RecursionBounded`, by acyclicity and the
  pigeonhole principle).
* **ActivityRequestsProofs.**  `RequestInv`: what a request that got to a step can
  rely on although others overwrite `acc`.  `SerialInv`: with one request at a time
  the account compared and stored is its own, or, for one with an invalid header, the
  one it found in `acc`.
* **ListingProofs.**  A listing is a bijection to places (`PlacesTaken`, by the
  pigeonhole principle), so a page before the last is full (`FullBefore`) and a range
  of places holds no more items than places (`RangeHolds`).  `ReadInv`: what was not
  shown and did not rise is after the pages read, what was shown and did not sink is
  on them.  In a listing that nobody changes nothing rises or sinks, so its pages are a
  partition of it (`StillListing`).
* **AccountStoreProofs.**  `CopyInv`: whoever holds a copy of a row that nobody wrote
  blindly holds the row as it is, hence `MetadataSurvive`.  `AuthorInv` adds to
  `AuthorIsNamed` what the loop knows of the author it is about to use, with the error
  left over from the entry before.  `VoteInv`: an importer about to vote has an item
  that is nobody else's and has no vote yet.

Only model-checked: liveness under fairness (`VoteGetsCounted`, `StopEndsProcess`),
which needs ENABLED.  Every invariant and every other property of a run is proved.
`ScoreBounded`, `GracefulSuccess`, `StopsAreAsked`, `StopsAreKept`,
`OneVoiceIsAtomic`, `ThreadsAreTrees`, `ContextCorrect`, `PageIsThread`, `ChildrenMatch`, `RecursionBounded`
and `StillListing` are proved and not part of a run.

## 5. Findings

Each is a run with a counterexample; `PROJECT.json` quotes the line it contradicts.

1. `cli/votes -accounts` zeroes scores of items (`app/db/db.go:405`).
2. The graceful stop cuts connections at once (`app/app.go:300`).
3. An outbox takes an activity for another account when requests overlap, or when the
   header of the request is invalid and another account was left in the handler
   (`app/api/accounts.go:1150`, `app/api/api.go:461`).

The models keep the following as the code has it.  No property of a run is about them,
or one is and names the exception.

* `cli/votes -items` replaces a score by the sum of the votes inside its window
  (`app/db/db.go:327`); an item whose older votes it drops is `stale`.
* The API links no next page when exactly one more page is left (`accounts.go:534`),
  the reason for the "at most one page" of `LastPageMissesOnePage`.
* A token request with an expired code panics (`app/oauth/db.go:198`).
* The filter behind `/federated` reads `metadata->>'attributedTo'`, which no row has,
  so that page is always empty (`app/loader.go:345`); `FollowedBy` is declared as
  the items "that were commented on or liked" (`app/loader.go:114`) and finds, of the
  first, only threads with a reply of the account to a reply (`nlevel("path") > 1`, line
  339).  `PagesShowTheirItems` states what these pages do show.
* `/outbox/{hash}/object/replies` selects the item itself; an empty `inReplyTo` becomes
  an empty list in SQL.
* `copyItemsFilters` drops `Depth` and `Federated`, and `loadCollection` a single author
  (the exception in `LinksStayInListing`).
* `HandleCollectionActivityObject` asserts a type that `loadAPItem` never returns, so
  the replies of an object are never set (`app/api/accounts.go`).
* `ShowItem` asks for the votes of one item more than a page has.
* Accounts of other instances look local when they are read back through the API.
* A reload reads `LOG_LEVEL` before the files, so it lags one reload; it never reads
  `ENV` again, and a variable taken out of the files stays.  Without `API_URL` in the
  environment the base URL is empty for a moment, every host is then local and the IRIs
  of other instances are cut (the exception in `RemoteIRIsStayWhole`).
* A deleted item is shown with an account that all requests share.
* The refusal of an edit is a redirect with status 307 to a route that takes the same post
  without check (`app/frontend/new.go:185`, `routes.go:37`): an edit form posted after
  the deletion of its item restores the item (the exception in `DeletedStaysDeleted`).
* An inbox that saves an account for an unknown actor forgets that the object was invalid
  and may answer success (`app/api/accounts.go:1256`, the exception in `SuccessIsStored`).

## 6. Not modelled

* **Bootstrap**: runs SQL files once, before there is a system.  **Fetcher and queue**:
  messages are declared, nothing consumes them.  **Service documents, types, errors,
  logging, templates**: read or format, and keep no state.  **Hot scores**: floating
  point that only orders a listing; `Listing` lets it take any order.
* Of modules that are there: sessions switched off, login providers other than local,
  CSRF tokens and flash messages; the table `client`, which only `cli/bootstrap` writes;
  `LoadInfo` and the HTTP client, an error of which is the failure of the step that
  needs it; dates, MIME types, tags and mentions.  Assignments to `handler.account` and
  `handler.acc` are atomic, the other data race, a configuration string replaced while it
  is read, is not.
* Hazards without a property: another instance delivers an activity twice
  (`app/api/accounts.go:1228`), which the code does not try to recognise; the loop that
  waits for the database returns after one attempt (`app/cmd/bootstrap.go:37`).

What could be added: the promise that two posts of one edit form, or two deliveries of
one activity, have the effect of one, should the code come to make it.
