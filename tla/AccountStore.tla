---------------------------- MODULE AccountStore ----------------------------
(***************************************************************************)
(* The accounts of littr.go and the programs that write their metadata:    *)
(* registration (app/frontend/register.go), which hashes a password, the   *)
(* command cli/keys (app/cmd/keys.go), which adds a key, and the feed      *)
(* importer cli/poach (app/cmd/poacher.go), which makes the authors of     *)
(* what it imports.  All end in an UPDATE or an upsert of whole rows       *)
(* (app/db/account.go): what a program did not read, it overwrites.        *)
(*                                                                         *)
(* The column metadata is the password, named by the registration that     *)
(* made it, and the key, named by the run that made it.  The accounts      *)
(* "system" and "anonymous" are there from the start (bootstrap.go), and   *)
(* nothing deletes a row.  Accounts of other servers are left out: they    *)
(* carry an ID, for which cli/keys skips them.                             *)
(***************************************************************************)
EXTENDS Integers, Sequences

CONSTANTS Handles,    \* the handles of local accounts
          System,     \* the account "system"
          Feed,       \* the authors the entries of the feed name, or Unnamed
          Unnamed,    \* an entry without author
          Importers,  \* processes of cli/poach
          KeyRuns,    \* processes of cli/keys
          MaxLogins,  \* bound on the registrations
          None        \* no password, no key, no row

Metadata == [login : 0..MaxLogins, key : KeyRuns \union {None}]

ASSUME AccountAssumption ==
  /\ Feed \in Seq(Handles \union {Unnamed})
  /\ Unnamed \notin Handles /\ System \notin Handles
  /\ None \notin KeyRuns \union Importers /\ KeyRuns \cap Importers = {}
  /\ None \notin Metadata
  /\ MaxLogins \in Nat

Entries == 1..Len(Feed)

VARIABLES
  row,      \* table accounts: the metadata of each, or None
  logins,   \* the number of registrations
  copy,     \* the rows a run of cli/keys loaded
  todo,     \* those it has still to look at
  items,    \* table items: the entry and the author of each imported item
  votes,    \* the items that have the vote of their author
  at,       \* the entry each importer is at
  pc,       \* and where in its loop
  author,   \* its local acct
  err,      \* its local err: saving the last item failed
  failed,   \* history: the entries whose item could not be saved
  blind     \* history: the accounts a program wrote without knowing their row

keyVars == <<copy, todo>>
importVars == <<items, votes, at, pc, author, err, failed>>
vars == <<row, logins, keyVars, importVars, blind>>

Registered == [login |-> logins + 1, key |-> None]
Imported == [login |-> 0, key |-> None]

Init ==
  /\ row = [a \in Handles |-> None]
  /\ logins = 0
  /\ copy = [g \in KeyRuns |-> [a \in Handles |-> None]]
  /\ todo = [g \in KeyRuns |-> {}]
  /\ items = {} /\ votes = {}
  /\ at = [p \in Importers |-> 0]
  /\ pc = [p \in Importers |-> "idle"]
  /\ author = [p \in Importers |-> System]
  /\ err = [p \in Importers |-> FALSE]
  /\ failed = {}
  /\ blind = {}

\* The programs that loaded the row of a, or found it missing, and will write it.
Holding(a) == {g \in KeyRuns : a \in todo[g]} \union
              {p \in Importers : pc[p] = "missing" /\ author[p] = a}

\* blind, when process x, or none of those, writes the row of a.
Write(x, a) == blind' = IF Holding(a) \subseteq {x} THEN blind ELSE blind \union {a}

\* saveAccount: the row of the key, which is derived from the handle, is
\* inserted, or its metadata replaced.
SaveAccount(x, a, m) ==
  /\ row' = [row EXCEPT ![a] = m]
  /\ Write(x, a)
-----------------------------------------------------------------------------
\* Handler HandleRegister.
Register(a) ==
  /\ logins < MaxLogins
  /\ logins' = logins + 1
  /\ SaveAccount(None, a, Registered)
  /\ UNCHANGED <<keyVars, importVars>>

\* GenSSHKey loads all accounts that have no key, or the one of a handle.
LoadAccounts(g) ==
  /\ todo[g] = {}
  /\ \E selected \in {{a \in Handles : row[a] # None /\ row[a].key = None}}
                       \union {{a} : a \in {b \in Handles : row[b] # None}} :
       /\ todo' = [todo EXCEPT ![g] = selected]
       /\ copy' = [copy EXCEPT ![g] =
                     [a \in Handles |-> IF a \in selected THEN row[a] ELSE None]]
  /\ UNCHANGED <<row, logins, importVars, blind>>

Done(g, a) ==
  /\ todo' = [todo EXCEPT ![g] = @ \ {a}]
  /\ copy' = [copy EXCEPT ![g][a] = None]

\* accountNeedsKeyWithLog, on the account as it was loaded.
NeedsKey(g, a) == a \in todo[g] /\ copy[g][a].key = None

SkipAccount(g, a) ==
  /\ a \in todo[g] /\ ~NeedsKey(g, a)
  /\ Done(g, a)
  /\ UNCHANGED <<row, logins, importVars, blind>>

\* As UpdateAccount, for metadata that hold the key alone.
UpdateKeyOnly(g, a) ==
  /\ NeedsKey(g, a)
  /\ row' = [row EXCEPT ![a] = [login |-> 0, key |-> g]]
  /\ Done(g, a) /\ Write(g, a)
  /\ UNCHANGED <<logins, importVars>>

\* UpdateAccount: all the metadata are written as they were loaded, with the
\* key.
UpdateAccount(g, a) ==
  /\ NeedsKey(g, a)
  /\ row' = [row EXCEPT ![a] = [copy[g][a] EXCEPT !.key = g]]
  /\ Done(g, a) /\ Write(g, a)
  /\ UNCHANGED <<logins, importVars>>

\* The key cannot be made or the UPDATE fails: the loop goes on.
UpdateAccountFails(g, a) ==
  /\ NeedsKey(g, a)
  /\ Done(g, a)
  /\ UNCHANGED <<row, logins, importVars, blind>>
-----------------------------------------------------------------------------
Goto(p, label) == pc' = [pc EXCEPT ![p] = label]
Choose(p, a) == author' = [author EXCEPT ![p] = a]

Chosen(p, a) == Choose(p, IF err[p] THEN System ELSE a)

\* The loop of PoachFeed comes to the next entry.  (When the link of the feed
\* cannot be parsed, the first entry that names an author ends the process.)
NextEntry(p) ==
  /\ pc[p] = "idle" /\ at[p] < Len(Feed)
  /\ at' = [at EXCEPT ![p] = @ + 1]
  /\ \/ /\ Feed[at[p] + 1] = Unnamed
        /\ Choose(p, System) /\ Goto(p, "item")
     \/ /\ Feed[at[p] + 1] # Unnamed
        /\ Choose(p, Feed[at[p] + 1]) /\ Goto(p, "author")
  /\ UNCHANGED <<row, logins, keyVars, items, votes, err, failed, blind>>

\* The author has an account.  The err looked at then is that of the last item:
\* the one of LoadAccount is a variable of the if.
LoadAuthor(p) ==
  /\ pc[p] = "author" /\ row[author[p]] # None
  /\ Chosen(p, author[p]) /\ Goto(p, "item")
  /\ UNCHANGED <<row, logins, keyVars, items, votes, at, err, failed, blind>>

\* It has none, or LoadAccount fails, which looks the same.
LoadAuthorFails(p) ==
  /\ pc[p] = "author"
  /\ Goto(p, "missing")
  /\ blind' = IF row[author[p]] = None THEN blind ELSE blind \union {author[p]}
  /\ UNCHANGED <<row, logins, keyVars, items, votes, at, author, err, failed>>

SaveAuthor(p) ==
  /\ pc[p] = "missing"
  /\ SaveAccount(p, author[p], Imported)
  /\ Chosen(p, author[p]) /\ Goto(p, "item")
  /\ UNCHANGED <<logins, keyVars, items, votes, at, err, failed>>

\* As SaveAuthorFails, when the account got its hash before it was saved.
SaveAuthorUnchecked(p) ==
  /\ pc[p] = "missing"
  /\ Chosen(p, author[p]) /\ Goto(p, "item")
  /\ UNCHANGED <<row, logins, keyVars, items, votes, at, err, failed, blind>>

\* The INSERT fails, for an email that another account has or otherwise.  The
\* account goes on without a hash.
SaveAuthorFails(p) ==
  /\ pc[p] = "missing"
  /\ Chosen(p, author[p]) /\ Goto(p, IF err[p] THEN "item" ELSE "unsaved")
  /\ UNCHANGED <<row, logins, keyVars, items, votes, at, err, failed, blind>>

\* As SaveItem, when an item that is there is no error.
SaveItemAgain(p) ==
  /\ pc[p] = "item"
  /\ items' = items \union {<<at[p], author[p]>>}
  /\ err' = [err EXCEPT ![p] = FALSE]
  /\ Goto(p, "vote")
  /\ UNCHANGED <<row, logins, keyVars, votes, at, author, failed, blind>>

\* The key of an item is derived from its title, its link and its author: it is
\* inserted once.
SaveItem(p) ==
  /\ pc[p] = "item" /\ <<at[p], author[p]>> \notin items
  /\ items' = items \union {<<at[p], author[p]>>}
  /\ err' = [err EXCEPT ![p] = FALSE]
  /\ Goto(p, "vote")
  /\ UNCHANGED <<row, logins, keyVars, votes, at, author, failed, blind>>

\* As SaveItemFails, and going on as if the item were there.
SaveItemUnchecked(p) ==
  /\ pc[p] \in {"item", "unsaved"}
  /\ err' = [err EXCEPT ![p] = TRUE]
  /\ failed' = failed \union {at[p]}
  /\ Goto(p, "vote")
  /\ UNCHANGED <<row, logins, keyVars, items, votes, at, author, blind>>

\* The INSERT is refused, as it is for an author without hash, or fails, or the
\* item cannot be read back after it.  The entry gets no vote.
SaveItemFails(p) ==
  /\ pc[p] \in {"item", "unsaved"}
  /\ \/ UNCHANGED items
     \/ pc[p] = "item" /\ items' = items \union {<<at[p], author[p]>>}
  /\ err' = [err EXCEPT ![p] = TRUE]
  /\ failed' = failed \union {at[p]}
  /\ Goto(p, "idle")
  /\ UNCHANGED <<row, logins, keyVars, votes, at, author, blind>>

\* saveVote, which takes a vote back when there is one; its error is logged.
SaveVote(p) ==
  /\ pc[p] = "vote"
  /\ LET i == <<at[p], author[p]>>
     IN votes' \in {votes, IF i \in votes THEN votes \ {i} ELSE votes \union {i}}
  /\ Goto(p, "idle")
  /\ UNCHANGED <<row, logins, keyVars, items, at, author, err, failed, blind>>

\* The importer has read the feed, or is killed, and will be started again.
Stop(p) ==
  /\ pc[p] # "idle" \/ at[p] = Len(Feed)
  /\ at' = [at EXCEPT ![p] = 0]
  /\ err' = [err EXCEPT ![p] = FALSE]
  /\ Choose(p, System) /\ Goto(p, "idle")
  /\ UNCHANGED <<row, logins, keyVars, items, votes, failed, blind>>

Next ==
  \/ \E a \in Handles : Register(a)
  \/ \E g \in KeyRuns :
       \/ LoadAccounts(g)
       \/ \E a \in Handles :
            SkipAccount(g, a) \/ UpdateAccount(g, a) \/ UpdateAccountFails(g, a)
  \/ \E p \in Importers :
       \/ NextEntry(p) \/ LoadAuthor(p) \/ LoadAuthorFails(p)
       \/ SaveAuthor(p) \/ SaveAuthorFails(p)
       \/ SaveItem(p) \/ SaveItemFails(p) \/ SaveVote(p) \/ Stop(p)

Spec == Init /\ [][Next]_vars
-----------------------------------------------------------------------------
TypeOK ==
  /\ row \in [Handles -> Metadata \union {None}]
  /\ logins \in 0..MaxLogins
  /\ copy \in [KeyRuns -> [Handles -> Metadata \union {None}]]
  /\ todo \in [KeyRuns -> SUBSET Handles]
  /\ items \subseteq Entries \X (Handles \union {System})
  /\ votes \subseteq items
  /\ at \in [Importers -> 0..Len(Feed)]
  /\ pc \in [Importers -> {"idle", "author", "missing", "unsaved", "item", "vote"}]
  /\ author \in [Importers -> Handles \union {System}]
  /\ err \in [Importers -> BOOLEAN]
  /\ failed \subseteq Entries
  /\ blind \subseteq Handles

\* The password and the key of an account change in three ways only: a
\* registration of its handle replaces both, a run of cli/keys adds a key where
\* there was none, or a program wrote a row that it had not seen as it was,
\* because another program wrote since, or because loading it had failed
\* (saveAccount account.go 137-139, UpdateAccount 32-44, GenSSHKey keys.go
\* 67-118, PoachFeed poacher.go 47-65).
MetadataKept ==
  [][\A a \in Handles : row[a] # None /\ row'[a] # row[a] =>
       \/ logins' = logins + 1
       \/ row[a].key = None /\ row'[a] = [row[a] EXCEPT !.key = row'[a].key]
       \/ a \in blind']_vars

\* An imported item is of the account its entry names, which has a row, or of
\* the system when the entry names nobody.  It is of the system also when the
\* item before it could not be saved, as those that were imported earlier cannot
\* (PoachFeed poacher.go 69-85).
AuthorIsNamed ==
  \A i \in items :
    \/ i[2] = Feed[i[1]] /\ row[i[2]] # None
    \/ i[2] = System /\ (Feed[i[1]] = Unnamed \/ i[1] - 1 \in failed)

\* However often a feed is imported, and by processes that overlap, the vote of
\* its author on an item is not taken back (PoachFeed poacher.go 85-104).
ImportedVotesStay == [][votes \subseteq votes']_vars
=============================================================================
