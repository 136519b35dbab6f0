------------------------- MODULE AccountStoreProofs -------------------------
(***************************************************************************)
(* Proofs about AccountStore, for any handles, feed and number of          *)
(* importers, key runs and registrations.                                  *)
(***************************************************************************)
EXTENDS AccountStore, TLAPS

\* Where an importer is, it has an entry and an author to go with it, and what a
\* run of cli/keys has still to look at it has loaded.
PlaceInv ==
  /\ \A p \in Importers :
       /\ pc[p] # "idle" => at[p] \in Entries
       /\ pc[p] \in {"author", "missing", "unsaved"} => author[p] \in Handles
       /\ pc[p] = "vote" => <<at[p], author[p]>> \in items
  /\ \A g \in KeyRuns : \A a \in todo[g] : copy[g][a] \in Metadata

LEMMA EntriesOfFeed ==
  /\ Len(Feed) \in Nat
  /\ \A e \in Entries : Feed[e] \in Handles \union {Unnamed}
BY AccountAssumption DEF Entries

LEMMA StepKeepsTypeOK ==
  ASSUME TypeOK, PlaceInv, [Next]_vars
  PROVE  TypeOK' /\ PlaceInv'
<1> USE AccountAssumption, EntriesOfFeed
    DEF TypeOK, PlaceInv, Goto, Choose, Chosen, Write, keyVars, importVars
<1>1. ASSUME NEW a \in Handles, Register(a)
      PROVE  TypeOK' /\ PlaceInv'
  <2>1. Registered \in Metadata /\ logins' \in 0..MaxLogins
    BY <1>1 DEF Register, Registered, Metadata
  <2> QED
    BY <1>1, <2>1 DEF Register, SaveAccount
<1>2. ASSUME NEW g \in KeyRuns, LoadAccounts(g)
      PROVE  TypeOK' /\ PlaceInv'
  <2>1. PICK selected \in {{a \in Handles : row[a] # None /\ row[a].key = None}}
                            \union {{a} : a \in {b \in Handles : row[b] # None}} :
          /\ todo' = [todo EXCEPT ![g] = selected]
          /\ copy' = [copy EXCEPT ![g] =
                        [a \in Handles |-> IF a \in selected THEN row[a] ELSE None]]
    BY <1>2 DEF LoadAccounts
  <2>2. selected \subseteq Handles /\ \A a \in selected : row[a] # None
    OBVIOUS
  <2>3. TypeOK'
    BY <1>2, <2>1, <2>2 DEF LoadAccounts
  <2>4. ASSUME NEW h \in KeyRuns, NEW a \in todo'[h]
        PROVE  copy'[h][a] \in Metadata
    BY <2>1, <2>2
  <2> QED
    BY <1>2, <2>3, <2>4 DEF LoadAccounts
<1>3. ASSUME NEW g \in KeyRuns, NEW a \in Handles, Done(g, a)
      PROVE  /\ todo' \in [KeyRuns -> SUBSET Handles]
             /\ copy' \in [KeyRuns -> [Handles -> Metadata \union {None}]]
             /\ \A h \in KeyRuns : \A b \in todo'[h] : copy'[h][b] \in Metadata
  BY <1>3 DEF Done
<1>4. ASSUME NEW g \in KeyRuns, NEW a \in Handles,
             SkipAccount(g, a) \/ UpdateAccountFails(g, a)
      PROVE  TypeOK' /\ PlaceInv'
  BY <1>3, <1>4 DEF SkipAccount, UpdateAccountFails
<1>5. ASSUME NEW g \in KeyRuns, NEW a \in Handles, UpdateAccount(g, a)
      PROVE  TypeOK' /\ PlaceInv'
  <2>1. copy[g][a] \in Metadata
    BY <1>5 DEF UpdateAccount, NeedsKey
  <2>2. [copy[g][a] EXCEPT !.key = g] \in Metadata
    BY <2>1 DEF Metadata
  <2> QED
    BY <1>3, <1>5, <2>2 DEF UpdateAccount
<1>6. ASSUME NEW p \in Importers, NextEntry(p)
      PROVE  TypeOK' /\ PlaceInv'
  <2>1. at[p] + 1 \in Entries /\ at[p] + 1 \in 0..Len(Feed)
    BY <1>6 DEF NextEntry, Entries
  <2>2. CASE Feed[at[p] + 1] = Unnamed
    BY <1>6, <2>1, <2>2 DEF NextEntry
  <2>3. CASE Feed[at[p] + 1] \in Handles
    BY <1>6, <2>1, <2>3 DEF NextEntry
  <2> QED
    BY <2>1, <2>2, <2>3
<1>7. ASSUME NEW p \in Importers,
             LoadAuthor(p) \/ LoadAuthorFails(p) \/ SaveAuthorFails(p)
      PROVE  TypeOK' /\ PlaceInv'
  BY <1>7 DEF LoadAuthor, LoadAuthorFails, SaveAuthorFails
<1>8. ASSUME NEW p \in Importers, SaveAuthor(p)
      PROVE  TypeOK' /\ PlaceInv'
  <2>1. Imported \in Metadata
    BY DEF Imported, Metadata
  <2> QED
    BY <1>8, <2>1 DEF SaveAuthor, SaveAccount
<1>9. ASSUME NEW p \in Importers, SaveItem(p) \/ SaveItemFails(p)
      PROVE  TypeOK' /\ PlaceInv'
  <2>1. at[p] \in Entries /\ <<at[p], author[p]>> \in Entries \X (Handles \union {System})
    BY <1>9 DEF SaveItem, SaveItemFails
  <2>2. CASE SaveItem(p)
    BY <2>1, <2>2 DEF SaveItem
  <2>3. CASE SaveItemFails(p)
    BY <2>1, <2>3 DEF SaveItemFails
  <2> QED
    BY <1>9, <2>2, <2>3
<1>10. ASSUME NEW p \in Importers, SaveVote(p)
       PROVE  TypeOK' /\ PlaceInv'
  BY <1>10 DEF SaveVote
<1>11. ASSUME NEW p \in Importers, Stop(p)
       PROVE  TypeOK' /\ PlaceInv'
  BY <1>11 DEF Stop
<1>12. CASE UNCHANGED vars
  BY <1>12 DEF vars
<1> QED
  BY <1>1, <1>2, <1>4, <1>5, <1>6, <1>7, <1>8, <1>9, <1>10, <1>11, <1>12 DEF Next

LEMMA Typed == Spec => [](TypeOK /\ PlaceInv)
<1>1. Init => TypeOK /\ PlaceInv
  BY AccountAssumption, EntriesOfFeed DEF Init, TypeOK, PlaceInv
<1> QED
  BY <1>1, StepKeepsTypeOK, PTL DEF Spec

\* Type correctness of accounts, imports and key runs.
THEOREM TypeCorrect == Spec => []TypeOK
BY Typed, PTL
-----------------------------------------------------------------------------
\* The invariant behind MetadataKept: who holds a copy of a row that nobody wrote
\* blindly holds the row as it is.
CopyInv ==
  /\ \A g \in KeyRuns : \A a \in todo[g] : a \notin blind => copy[g][a] = row[a]
  /\ \A p \in Importers :
       pc[p] = "missing" /\ author[p] \notin blind => row[author[p]] = None

\* A program x that writes a row, and does not hold it any more, leaves what the
\* others hold.
LEMMA WriteKeepsCopies ==
  ASSUME TypeOK, PlaceInv, CopyInv,
         NEW x \in KeyRuns \union Importers \union {None}, NEW a \in Handles,
         NEW m, row' = [row EXCEPT ![a] = m], Write(x, a),
         \A g \in KeyRuns :
           /\ todo'[g] \subseteq todo[g]
           /\ g = x => a \notin todo'[g]
           /\ \A b \in todo'[g] : copy'[g][b] = copy[g][b],
         \A p \in Importers :
           pc'[p] = "missing" => p # x /\ pc[p] = "missing" /\ author'[p] = author[p]
  PROVE  CopyInv'
<1>1. blind \subseteq blind' /\ (a \notin blind' => Holding(a) \subseteq {x})
  BY DEF Write
<1>2. ASSUME NEW g \in KeyRuns, NEW b \in todo'[g], b \notin blind'
      PROVE  copy'[g][b] = row'[b]
  <2>1. b \in todo[g] /\ b \in Handles /\ copy'[g][b] = row[b]
    BY <1>1, <1>2 DEF CopyInv, TypeOK
  <2>2. CASE b = a
    BY <1>1, <1>2, <2>1, <2>2 DEF Holding
  <2>3. CASE b # a
    BY <2>1, <2>3 DEF TypeOK
  <2> QED
    BY <2>2, <2>3
<1>3. ASSUME NEW p \in Importers, pc'[p] = "missing", author'[p] \notin blind'
      PROVE  row'[author'[p]] = None
  <2>1. p # x /\ pc[p] = "missing" /\ author'[p] = author[p]
    BY <1>3
  <2>2. author[p] \in Handles /\ row[author[p]] = None
    BY <1>1, <1>3, <2>1 DEF CopyInv, PlaceInv
  <2>3. author[p] # a
    BY <1>1, <1>3, <2>1 DEF Holding
  <2> QED
    BY <2>1, <2>2, <2>3 DEF TypeOK
<1> QED
  BY <1>2, <1>3 DEF CopyInv

LEMMA StepKeepsCopyInv ==
  ASSUME TypeOK, PlaceInv, CopyInv, [Next]_vars
  PROVE  CopyInv'
<1> USE AccountAssumption
<1>1. ASSUME NEW a \in Handles, Register(a)
      PROVE  CopyInv'
  <2>1. /\ row' = [row EXCEPT ![a] = Registered] /\ Write(None, a)
        /\ todo' = todo /\ copy' = copy /\ pc' = pc /\ author' = author
    BY <1>1 DEF Register, SaveAccount, keyVars, importVars
  <2>2. \A g \in KeyRuns :
          /\ todo'[g] \subseteq todo[g]
          /\ g = None => a \notin todo'[g]
          /\ \A b \in todo'[g] : copy'[g][b] = copy[g][b]
    BY <2>1
  <2>3. \A p \in Importers : pc'[p] = "missing" =>
          p # None /\ pc[p] = "missing" /\ author'[p] = author[p]
    BY <2>1
  <2> HIDE AccountAssumption
  <2> QED
    BY <2>1, <2>2, <2>3, WriteKeepsCopies
<1>2. ASSUME NEW g \in KeyRuns, LoadAccounts(g)
      PROVE  CopyInv'
  <2>1. PICK selected \in SUBSET Handles :
          /\ todo' = [todo EXCEPT ![g] = selected]
          /\ copy' = [copy EXCEPT ![g] =
                        [a \in Handles |-> IF a \in selected THEN row[a] ELSE None]]
    BY <1>2 DEF LoadAccounts
  <2> QED
    BY <1>2, <2>1 DEF LoadAccounts, CopyInv, TypeOK, importVars
<1>3. ASSUME NEW g \in KeyRuns, NEW a \in Handles, Done(g, a)
      PROVE  \A h \in KeyRuns :
               /\ todo'[h] \subseteq todo[h]
               /\ h = g => a \notin todo'[h]
               /\ \A b \in todo'[h] : copy'[h][b] = copy[h][b]
  BY <1>3 DEF Done, TypeOK
<1>4. ASSUME NEW g \in KeyRuns, NEW a \in Handles,
             SkipAccount(g, a) \/ UpdateAccountFails(g, a)
      PROVE  CopyInv'
  BY <1>3, <1>4 DEF SkipAccount, UpdateAccountFails, CopyInv, importVars
<1>5. ASSUME NEW g \in KeyRuns, NEW a \in Handles, UpdateAccount(g, a)
      PROVE  CopyInv'
  <2>1. /\ row' = [row EXCEPT ![a] = [copy[g][a] EXCEPT !.key = g]] /\ Write(g, a)
        /\ pc' = pc /\ author' = author /\ Done(g, a)
    BY <1>5 DEF UpdateAccount, importVars
  <2>2. \A p \in Importers : pc'[p] = "missing" =>
          p # g /\ pc[p] = "missing" /\ author'[p] = author[p]
    BY <2>1
  <2>3. \A h \in KeyRuns :
          /\ todo'[h] \subseteq todo[h]
          /\ h = g => a \notin todo'[h]
          /\ \A b \in todo'[h] : copy'[h][b] = copy[h][b]
    BY <1>3, <2>1
  <2> HIDE AccountAssumption
  <2> QED
    BY <2>1, <2>2, <2>3, WriteKeepsCopies
<1>6. ASSUME NEW p \in Importers, SaveAuthor(p)
      PROVE  CopyInv'
  <2>1. /\ row' = [row EXCEPT ![author[p]] = Imported] /\ Write(p, author[p])
        /\ todo' = todo /\ copy' = copy /\ pc' = [pc EXCEPT ![p] = "item"]
        /\ author[p] \in Handles
        /\ author' = [author EXCEPT ![p] = IF err[p] THEN System ELSE author[p]]
    BY <1>6 DEF SaveAuthor, SaveAccount, Chosen, Choose, Goto, keyVars, PlaceInv
  <2>2. \A q \in Importers : pc'[q] = "missing" =>
          q # p /\ pc[q] = "missing" /\ author'[q] = author[q]
    BY <2>1 DEF TypeOK
  <2>3. \A g \in KeyRuns : g # p
    OBVIOUS
  <2> QED
    BY <2>1, <2>2, <2>3, WriteKeepsCopies
<1>7. ASSUME NEW p \in Importers, LoadAuthorFails(p)
      PROVE  CopyInv'
  BY <1>7 DEF LoadAuthorFails, Goto, keyVars, CopyInv, TypeOK
<1>8. ASSUME NEW p \in Importers,
             \/ NextEntry(p) \/ LoadAuthor(p) \/ SaveAuthorFails(p) \/ SaveItem(p)
             \/ SaveItemFails(p) \/ SaveVote(p) \/ Stop(p)
      PROVE  CopyInv'
  <2>1. /\ UNCHANGED <<row, todo, copy, blind>>
        /\ \A q \in Importers : pc'[q] = "missing" =>
             pc[q] = "missing" /\ author'[q] = author[q]
    <3>1. CASE NextEntry(p)
      BY <3>1 DEF NextEntry, Goto, Choose, keyVars, TypeOK
    <3>2. CASE LoadAuthor(p) \/ SaveAuthorFails(p)
      BY <3>2 DEF LoadAuthor, SaveAuthorFails, Chosen, Goto, Choose, keyVars, TypeOK
    <3>3. CASE SaveItem(p) \/ SaveItemFails(p) \/ SaveVote(p)
      BY <3>3 DEF SaveItem, SaveItemFails, SaveVote, Goto, keyVars, TypeOK
    <3>4. CASE Stop(p)
      BY <3>4 DEF Stop, Goto, Choose, keyVars, TypeOK
    <3> QED
      BY <1>8, <3>1, <3>2, <3>3, <3>4
  <2> QED
    BY <2>1 DEF CopyInv
<1>9. CASE UNCHANGED vars
  BY <1>9 DEF vars, keyVars, importVars, CopyInv
<1> QED
  BY <1>1, <1>2, <1>4, <1>5, <1>6, <1>7, <1>8, <1>9 DEF Next

LEMMA Copied == Spec => [](TypeOK /\ PlaceInv /\ CopyInv)
<1>1. Init => CopyInv
  BY DEF Init, CopyInv
<1> QED
  BY <1>1, StepKeepsCopyInv, Typed, PTL DEF Spec

\* A password and a key change only by a registration, by cli/keys where there was
\* no key, or by a program that had not seen the row as it was.
THEOREM MetadataSurvive == Spec => MetadataKept
<1> USE AccountAssumption
<1>1. ASSUME TypeOK, PlaceInv, CopyInv, [Next]_vars,
             NEW a \in Handles, row[a] # None, row'[a] # row[a]
      PROVE  \/ logins' = logins + 1
             \/ row[a].key = None /\ row'[a] = [row[a] EXCEPT !.key = row'[a].key]
             \/ a \in blind'
  <2>1. CASE \E b \in Handles : Register(b)
    BY <2>1 DEF Register
  <2>2. ASSUME NEW g \in KeyRuns, NEW b \in Handles, UpdateAccount(g, b)
        PROVE  \/ row[a].key = None /\ row'[a] = [row[a] EXCEPT !.key = row'[a].key]
               \/ a \in blind'
    <3>1. /\ b \in todo[g] /\ copy[g][b].key = None
          /\ row' = [row EXCEPT ![b] = [copy[g][b] EXCEPT !.key = g]]
          /\ blind \subseteq blind'
      BY <2>2 DEF UpdateAccount, NeedsKey, Write
    <3>2. a = b
      BY <1>1, <3>1 DEF TypeOK
    <3>3. CASE a \notin blind'
      <4>1. copy[g][a] = row[a] /\ row[a] \in Metadata
        BY <1>1, <3>1, <3>2, <3>3 DEF CopyInv, TypeOK
      <4>2. row'[a] = [row[a] EXCEPT !.key = g] /\ row[a].key = None
        BY <1>1, <3>1, <3>2, <4>1 DEF TypeOK
      <4>3. row'[a].key = g
        BY <4>1, <4>2 DEF Metadata
      <4> QED
        BY <4>2, <4>3
    <3> QED
      BY <3>3
  <2>3. ASSUME NEW p \in Importers, SaveAuthor(p)
        PROVE  a \in blind'
    <3>1. /\ pc[p] = "missing" /\ row' = [row EXCEPT ![author[p]] = Imported]
          /\ blind \subseteq blind'
      BY <2>3 DEF SaveAuthor, SaveAccount, Write
    <3>2. a = author[p]
      BY <1>1, <3>1 DEF TypeOK
    <3> QED
      BY <1>1, <3>1, <3>2 DEF CopyInv
  <2>4. CASE row' = row
    BY <1>1, <2>4
  <2>5. \/ \E b \in Handles : Register(b)
        \/ \E g \in KeyRuns, b \in Handles : UpdateAccount(g, b)
        \/ \E p \in Importers : SaveAuthor(p)
        \/ row' = row
    BY <1>1 DEF Next, LoadAccounts, SkipAccount, UpdateAccountFails, NextEntry,
       LoadAuthor, LoadAuthorFails, SaveAuthorFails, SaveItem, SaveItemFails,
       SaveVote, Stop, vars
  <2> QED
    BY <2>1, <2>2, <2>3, <2>4, <2>5
<1>2. TypeOK /\ PlaceInv /\ CopyInv /\ [Next]_vars =>
        [\A a \in Handles : row[a] # None /\ row'[a] # row[a] =>
           \/ logins' = logins + 1
           \/ row[a].key = None /\ row'[a] = [row[a] EXCEPT !.key = row'[a].key]
           \/ a \in blind']_vars
  BY <1>1
<1> QED
  BY <1>2, Copied, PTL DEF Spec, MetadataKept
-----------------------------------------------------------------------------
\* What an importer can say of its author at each place of its loop, and of the
\* item its err is left over from.
AuthorKnown(p) ==
  /\ pc[p] \in {"author", "missing", "unsaved"} => author[p] = Feed[at[p]]
  /\ pc[p] \in {"author", "missing", "item"} /\ err[p] => at[p] - 1 \in failed
  /\ pc[p] = "unsaved" => ~err[p]
  /\ pc[p] = "item" =>
       \/ author[p] \in Handles /\ author[p] = Feed[at[p]] /\ row[author[p]] # None
       \/ author[p] = System /\ (Feed[at[p]] = Unnamed \/ at[p] - 1 \in failed)
  /\ pc[p] = "idle" /\ err[p] => at[p] \in failed
  /\ pc[p] = "vote" => ~err[p]

\* The invariant behind AuthorIsNamed.
AuthorInv == AuthorIsNamed /\ \A p \in Importers : AuthorKnown(p)

\* No program makes a row go away.
LEMMA RowsStay ==
  ASSUME TypeOK, PlaceInv, [Next]_vars, NEW a \in Handles, row[a] # None
  PROVE  row'[a] # None
<1> USE AccountAssumption
<1>1. row' \in [Handles -> Metadata \union {None}]
  BY StepKeepsTypeOK DEF TypeOK
<1>2. CASE \E b \in Handles : Register(b)
  <2>1. Registered # None
    BY <1>1, <1>2, StepKeepsTypeOK DEF Register, SaveAccount, Registered, Metadata, TypeOK
  <2> QED
    BY <1>2, <2>1 DEF Register, SaveAccount, TypeOK
<1>3. CASE \E g \in KeyRuns, b \in Handles : UpdateAccount(g, b)
  <2>1. PICK g \in KeyRuns, b \in Handles : UpdateAccount(g, b)
    BY <1>3
  <2>2. copy[g][b] \in Metadata
    BY <2>1 DEF UpdateAccount, NeedsKey, PlaceInv
  <2>3. [copy[g][b] EXCEPT !.key = g] \in Metadata
    BY <2>2 DEF Metadata
  <2> QED
    BY <2>1, <2>3 DEF UpdateAccount, TypeOK
<1>4. CASE \E p \in Importers : SaveAuthor(p)
  <2>1. Imported # None
    BY DEF Imported, Metadata
  <2> QED
    BY <1>4, <2>1 DEF SaveAuthor, SaveAccount, TypeOK
<1>5. CASE row' = row
  BY <1>5
<1> QED
  BY <1>2, <1>3, <1>4, <1>5 DEF Next, LoadAccounts, SkipAccount, UpdateAccountFails,
     NextEntry, LoadAuthor, LoadAuthorFails, SaveAuthorFails, SaveItem, SaveItemFails,
     SaveVote, Stop, vars

\* A step of an importer does not move the others.
LEMMA OthersStay ==
  ASSUME TypeOK, NEW p \in Importers,
         \/ NextEntry(p) \/ LoadAuthor(p) \/ LoadAuthorFails(p) \/ SaveAuthor(p)
         \/ SaveAuthorFails(p) \/ SaveItem(p) \/ SaveItemFails(p) \/ SaveVote(p)
         \/ Stop(p)
  PROVE  /\ failed \subseteq failed'
         /\ \A q \in Importers \ {p} :
              pc'[q] = pc[q] /\ at'[q] = at[q] /\ author'[q] = author[q] /\ err'[q] = err[q]
<1> USE DEF TypeOK, Goto, Choose, Chosen
<1>1. CASE NextEntry(p)
  BY <1>1 DEF NextEntry
<1>2. CASE LoadAuthor(p) \/ LoadAuthorFails(p)
  BY <1>2 DEF LoadAuthor, LoadAuthorFails
<1>3. CASE SaveAuthor(p) \/ SaveAuthorFails(p)
  BY <1>3 DEF SaveAuthor, SaveAuthorFails
<1>4. CASE SaveItem(p) \/ SaveItemFails(p) \/ SaveVote(p)
  BY <1>4 DEF SaveItem, SaveItemFails, SaveVote
<1>5. CASE Stop(p)
  BY <1>5 DEF Stop
<1> QED
  BY <1>1, <1>2, <1>3, <1>4, <1>5

LEMMA StepKeepsAuthorInv ==
  ASSUME TypeOK, PlaceInv, AuthorInv, [Next]_vars
  PROVE  AuthorInv'
<1> USE AccountAssumption, EntriesOfFeed
<1>1. \A a \in Handles : row[a] # None => row'[a] # None
  BY RowsStay
<1>2. ASSUME failed \subseteq failed', items' = items
      PROVE  AuthorIsNamed'
  <2>1. ASSUME NEW i \in items
        PROVE  \/ i[2] = Feed[i[1]] /\ row'[i[2]] # None
               \/ i[2] = System /\ (Feed[i[1]] = Unnamed \/ i[1] - 1 \in failed')
    <3>1. i[1] \in Entries /\ i[2] \in Handles \union {System}
      BY DEF TypeOK
    <3>2. \/ i[2] = Feed[i[1]] /\ row[i[2]] # None
          \/ i[2] = System /\ (Feed[i[1]] = Unnamed \/ i[1] - 1 \in failed)
      BY DEF AuthorInv, AuthorIsNamed
    <3> QED
      BY <1>1, <1>2, <3>1, <3>2
  <2> QED
    BY <1>2, <2>1 DEF AuthorIsNamed
<1>3. ASSUME NEW q \in Importers, failed \subseteq failed',
             pc'[q] = pc[q], at'[q] = at[q], author'[q] = author[q], err'[q] = err[q]
      PROVE  AuthorKnown(q)'
  <2>1. AuthorKnown(q)
    BY DEF AuthorInv
  <2> QED
    BY <1>1, <1>3, <2>1 DEF AuthorKnown
<1>4. CASE \/ \E a \in Handles : Register(a)
           \/ \E g \in KeyRuns :
                \/ LoadAccounts(g)
                \/ \E a \in Handles :
                     SkipAccount(g, a) \/ UpdateAccount(g, a) \/ UpdateAccountFails(g, a)
           \/ UNCHANGED vars
  <2>1. UNCHANGED importVars
    BY <1>4 DEF Register, LoadAccounts, SkipAccount, UpdateAccount, UpdateAccountFails, vars
  <2> QED
    BY <1>2, <1>3, <2>1 DEF importVars, AuthorInv
<1>5. ASSUME NEW p \in Importers,
             \/ NextEntry(p) \/ LoadAuthor(p) \/ LoadAuthorFails(p) \/ SaveAuthor(p)
             \/ SaveAuthorFails(p) \/ SaveItem(p) \/ SaveItemFails(p) \/ SaveVote(p)
             \/ Stop(p)
      PROVE  AuthorInv'
  <2> USE DEF TypeOK, PlaceInv, Goto, Choose, Chosen
  <2>1. AuthorKnown(p)
    BY DEF AuthorInv
  <2>2. AuthorKnown(p)' /\ (SaveItem(p) \/ SaveItemFails(p) => AuthorIsNamed')
    <3>1. CASE NextEntry(p)
      <4>1. /\ pc[p] = "idle" /\ at'[p] = at[p] + 1 /\ at[p] \in Nat
            /\ err' = err /\ failed' = failed /\ at'[p] - 1 = at[p]
        BY <3>1 DEF NextEntry
      <4>2. \/ pc'[p] = "item" /\ author'[p] = System /\ Feed[at'[p]] = Unnamed
            \/ pc'[p] = "author" /\ author'[p] = Feed[at'[p]]
        BY <3>1, <4>1 DEF NextEntry
      <4>3. AuthorKnown(p)'
        BY <2>1, <4>1, <4>2 DEF AuthorKnown
      <4> QED
        BY <3>1, <4>3 DEF NextEntry, SaveItem, SaveItemFails
    <3>2. CASE LoadAuthor(p)
      BY <2>1, <3>2 DEF LoadAuthor, AuthorKnown, SaveItem, SaveItemFails
    <3>3. CASE LoadAuthorFails(p)
      BY <2>1, <3>3 DEF LoadAuthorFails, AuthorKnown, SaveItem, SaveItemFails
    <3>4. CASE SaveAuthor(p)
      <4>1. Imported # None
        BY DEF Imported, Metadata
      <4> QED
        BY <2>1, <3>4, <4>1 DEF SaveAuthor, SaveAccount, AuthorKnown, SaveItem, SaveItemFails
    <3>5. CASE SaveAuthorFails(p)
      BY <2>1, <3>5 DEF SaveAuthorFails, AuthorKnown, SaveItem, SaveItemFails
    <3>6. CASE SaveItem(p) \/ SaveItemFails(p)
      <4>1. AuthorKnown(p)'
        BY <2>1, <3>6 DEF SaveItem, SaveItemFails, AuthorKnown
      <4>2. /\ \/ items' = items
               \/ (pc[p] = "item" /\ items' = items \union {<<at[p], author[p]>>})
            /\ failed \subseteq failed' /\ row' = row
        <5>1. CASE SaveItem(p)
          BY <5>1 DEF SaveItem
        <5>2. CASE SaveItemFails(p)
          BY <5>2 DEF SaveItemFails
        <5> QED
          BY <3>6, <5>1, <5>2
      <4>3. CASE pc[p] = "item" /\ items' = items \union {<<at[p], author[p]>>}
        <5>1. \/ author[p] = Feed[at[p]] /\ row'[author[p]] # None
              \/ author[p] = System /\ (Feed[at[p]] = Unnamed \/ at[p] - 1 \in failed')
          BY <2>1, <4>2, <4>3 DEF AuthorKnown
        <5> QED
          BY <4>1, <4>2, <4>3, <5>1 DEF AuthorInv, AuthorIsNamed
      <4> QED
        BY <1>2, <4>1, <4>2, <4>3
    <3>7. CASE SaveVote(p)
      BY <2>1, <3>7 DEF SaveVote, AuthorKnown, SaveItem, SaveItemFails
    <3>8. CASE Stop(p)
      BY <2>1, <3>8 DEF Stop, AuthorKnown, SaveItem, SaveItemFails
    <3> QED
      BY <1>5, <3>1, <3>2, <3>3, <3>4, <3>5, <3>6, <3>7, <3>8
  <2>3. \A q \in Importers \ {p} : AuthorKnown(q)'
    BY <1>3, <1>5, OthersStay
  <2>4. AuthorIsNamed'
    <3>1. CASE SaveItem(p) \/ SaveItemFails(p)
      BY <2>2, <3>1
    <3>2. CASE items' = items
      BY <1>2, <1>5, <3>2, OthersStay
    <3> QED
      BY <1>5, <3>1, <3>2 DEF NextEntry, LoadAuthor, LoadAuthorFails, SaveAuthor,
         SaveAuthorFails, SaveVote, Stop
  <2> QED
    BY <2>2, <2>3, <2>4 DEF AuthorInv
<1> QED
  BY <1>4, <1>5 DEF Next

\* An imported item is of the account its entry names, or of the system.
THEOREM AuthorsNamed == Spec => []AuthorIsNamed
<1>1. Init => AuthorInv
  BY DEF Init, AuthorInv, AuthorIsNamed, AuthorKnown
<1>2. AuthorInv => AuthorIsNamed
  BY DEF AuthorInv
<1> QED
  BY <1>1, <1>2, StepKeepsAuthorInv, Typed, PTL DEF Spec
-----------------------------------------------------------------------------
\* The invariant behind ImportedVotesStay: an importer that is about to vote has an
\* item without vote that is no other's.
VoteInv ==
  \A p \in Importers : pc[p] = "vote" =>
    /\ <<at[p], author[p]>> \in items \ votes
    /\ \A q \in Importers \ {p} :
         pc[q] = "vote" => <<at[q], author[q]>> # <<at[p], author[p]>>

LEMMA StepKeepsVoteInv ==
  ASSUME TypeOK, VoteInv, [Next]_vars
  PROVE  VoteInv'
<1> USE DEF TypeOK, VoteInv
<1>1. ASSUME UNCHANGED <<items, votes>>,
             \A q \in Importers : pc'[q] = "vote" =>
               pc[q] = "vote" /\ at'[q] = at[q] /\ author'[q] = author[q]
      PROVE  VoteInv'
  BY <1>1
<1>2. CASE \/ \E a \in Handles : Register(a)
           \/ \E g \in KeyRuns :
                \/ LoadAccounts(g)
                \/ \E a \in Handles :
                     SkipAccount(g, a) \/ UpdateAccount(g, a) \/ UpdateAccountFails(g, a)
           \/ UNCHANGED vars
  <2>1. UNCHANGED importVars
    BY <1>2 DEF Register, LoadAccounts, SkipAccount, UpdateAccount, UpdateAccountFails, vars
  <2> QED
    BY <1>1, <2>1 DEF importVars
<1>3. ASSUME NEW p \in Importers,
             \/ NextEntry(p) \/ LoadAuthor(p) \/ LoadAuthorFails(p) \/ SaveAuthor(p)
             \/ SaveAuthorFails(p) \/ Stop(p)
      PROVE  VoteInv'
  <2>1. UNCHANGED <<items, votes>> /\ pc'[p] # "vote"
    BY <1>3 DEF NextEntry, LoadAuthor, LoadAuthorFails, SaveAuthor, SaveAuthorFails,
       Stop, Goto
  <2> QED
    BY <1>1, <1>3, <2>1, OthersStay
<1>4. ASSUME NEW p \in Importers, SaveItem(p)
      PROVE  VoteInv'
  <2>1. /\ <<at[p], author[p]>> \notin items /\ votes \subseteq items
        /\ items' = items \union {<<at[p], author[p]>>}
        /\ UNCHANGED <<votes, at, author>>
        /\ pc' = [pc EXCEPT ![p] = "vote"]
    BY <1>4 DEF SaveItem, Goto
  <2> QED
    BY <2>1
<1>5. ASSUME NEW p \in Importers, SaveItemFails(p)
      PROVE  VoteInv'
  <2>1. /\ items \subseteq items'
        /\ UNCHANGED <<votes, at, author>>
        /\ pc' = [pc EXCEPT ![p] = "idle"]
    BY <1>5 DEF SaveItemFails, Goto
  <2> QED
    BY <2>1
<1>6. ASSUME NEW p \in Importers, SaveVote(p)
      PROVE  VoteInv'
  <2>1. /\ pc[p] = "vote"
        /\ votes' \subseteq votes \union {<<at[p], author[p]>>}
        /\ UNCHANGED <<items, at, author>>
        /\ pc' = [pc EXCEPT ![p] = "idle"]
    BY <1>6 DEF SaveVote, Goto
  <2> QED
    BY <2>1
<1> QED
  BY <1>2, <1>3, <1>4, <1>5, <1>6 DEF Next

\* No import takes back the vote of an author.
THEOREM VotesStay == Spec => ImportedVotesStay
<1>1. Init => VoteInv
  BY DEF Init, VoteInv
<1>2. VoteInv /\ [Next]_vars => [votes \subseteq votes']_vars
  <2> SUFFICES ASSUME VoteInv, Next
               PROVE  votes \subseteq votes'
    BY DEF vars
  <2>1. ASSUME NEW p \in Importers, SaveVote(p)
        PROVE  votes \subseteq votes'
    BY <2>1 DEF SaveVote, VoteInv
  <2>2. CASE votes' = votes
    BY <2>2
  <2> QED
    BY <2>1, <2>2 DEF Next, Register, LoadAccounts, SkipAccount, UpdateAccount,
       UpdateAccountFails, NextEntry, LoadAuthor, LoadAuthorFails, SaveAuthor,
       SaveAuthorFails, SaveItem, SaveItemFails, Stop, importVars
<1> QED
  BY <1>1, <1>2, StepKeepsVoteInv, Typed, PTL DEF Spec, ImportedVotesStay
=============================================================================
