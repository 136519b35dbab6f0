-------------------------- MODULE ItemStoreProofs --------------------------
(***************************************************************************)
(* Proofs about ItemStore, for any sets of keys and goroutines, and about  *)
(* what ItemDocuments and ItemFilters make of the items it stores.         *)
(***************************************************************************)
EXTENDS ItemFilters, SequenceTheorems, FiniteSetTheorems, WellFoundedInduction, TLAPS

\* What Append does to a path: every element but the last, and every prefix,
\* is that of the shorter path.
LEMMA AppendPath ==
  ASSUME NEW S, NEW s \in Seq(S), NEW e \in S
  PROVE  /\ Append(s, e) \in Seq(S)
         /\ Len(Append(s, e)) = Len(s) + 1
         /\ Append(s, e)[Len(s) + 1] = e
         /\ \A n \in 1..Len(s) : Append(s, e)[n] = s[n]
         /\ SubSeq(Append(s, e), 1, Len(s)) = s
         /\ \A n \in 1..Len(s) :
              SubSeq(Append(s, e), 1, n - 1) = SubSeq(s, 1, n - 1)
OBVIOUS
-----------------------------------------------------------------------------
LEMMA StepKeepsType ==
  ASSUME TypeOK, [Next]_vars
  PROVE  TypeOK'
<1> USE NoKeyAssumption
<1>1. CASE UNCHANGED vars
  BY <1>1 DEF TypeOK, vars, rows, locals, history
<1>2. CASE Next
  <2>1. ASSUME NEW h \in Handlers, NEW k \in Keys, NEW p \in Keys \union {NoKey},
               SubmitItem(h, k, p)
        PROVE  TypeOK'
    <3>1. path' \in [Keys -> Seq(Keys)]
      <4>1. CASE p \in stored
        <5>1. ChildPath(p) \in Seq(Keys)
          BY <4>1, AppendPath DEF TypeOK, ChildPath
        <5> QED BY <2>1, <4>1, <5>1 DEF TypeOK, SubmitItem
      <4>2. CASE p \notin stored
        BY <2>1, <4>2 DEF TypeOK, SubmitItem
      <4> QED BY <4>1, <4>2
    <3> QED BY <2>1, <3>1 DEF TypeOK, SubmitItem, Enter
  <2>2. ASSUME NEW h \in Handlers, NEW k \in Keys, DuplicateItem(h, k)
        PROVE  TypeOK'
    BY <2>2 DEF TypeOK, DuplicateItem, vars, rows, locals, history
  <2>3. ASSUME NEW k \in Keys, OpenEditForm(k)
        PROVE  TypeOK'
    BY <2>3 DEF TypeOK, OpenEditForm, ValidateItemAuthor, rows, locals, history
  <2>11. ASSUME NEW h \in Handlers, NEW k \in Keys, PostEditForm(h, k)
         PROVE  TypeOK'
    BY <2>11 DEF TypeOK, PostEditForm, Enter, rows, history
  <2>12. ASSUME NEW h \in Handlers, NEW k \in Keys, RequestDelete(h, k)
         PROVE  TypeOK'
    BY <2>12 DEF TypeOK, RequestDelete, ValidateItemAuthor, Enter, rows, history
  <2>4. ASSUME NEW h \in Handlers, VoteOwn(h)
        PROVE  TypeOK'
    BY <2>4 DEF TypeOK, VoteOwn, Return, Enter, history
  <2>5. ASSUME NEW h \in Handlers, LoadTitle(h)
        PROVE  TypeOK'
    BY <2>5 DEF TypeOK, LoadTitle, Enter, rows, history
  <2>6. ASSUME NEW h \in Handlers, LoadTitleFails(h)
        PROVE  TypeOK'
    BY <2>6 DEF TypeOK, LoadTitleFails, Enter, rows
  <2>7. ASSUME NEW h \in Handlers, SaveEdit(h)
        PROVE  TypeOK'
    BY <2>7 DEF TypeOK, SaveEdit, Return, Enter, history
  <2>8. ASSUME NEW h \in Handlers, LoadToDelete(h)
        PROVE  TypeOK'
    BY <2>8 DEF TypeOK, LoadToDelete, Return, Enter, rows, history
  <2>9. ASSUME NEW h \in Handlers, SaveDelete(h)
        PROVE  TypeOK'
    BY <2>9 DEF TypeOK, SaveDelete, Return, Enter
  <2>10. ASSUME NEW h \in Handlers, Fail(h)
         PROVE  TypeOK'
    BY <2>10 DEF TypeOK, Fail, Return, Enter, rows, history
  <2> QED
    BY <1>2, <2>1, <2>2, <2>3, <2>4, <2>5, <2>6, <2>7, <2>8, <2>9, <2>10,
       <2>11, <2>12
    DEF Next
<1> QED BY <1>1, <1>2

\* Type correctness: goroutines, histories and votes only ever name stored
\* items, because no row is ever removed.
THEOREM TypeCorrect == Spec => []TypeOK
<1>1. Init => TypeOK
  BY DEF Init, TypeOK
<1>2. TypeOK /\ [Next]_vars => TypeOK'
  BY StepKeepsType
<1> QED BY <1>1, <1>2, PTL DEF Spec
-----------------------------------------------------------------------------
\* Only a submission writes a path, and only that of a key without a row.
LEMMA PathsStay ==
  ASSUME TypeOK, [Next]_vars
  PROVE  \/ stored' = stored /\ path' = path
         \/ \E h \in Handlers, k \in Keys, p \in Keys \union {NoKey} :
              SubmitItem(h, k, p)
BY DEF Next, vars, rows, locals, history, DuplicateItem, OpenEditForm,
       PostEditForm, RequestDelete, VoteOwn, LoadTitle, LoadTitleFails, SaveEdit,
       LoadToDelete, SaveDelete, Fail

LEMMA StepKeepsThreads ==
  ASSUME TypeOK, ThreadsAgree, [Next]_vars
  PROVE  ThreadsAgree'
<1>1. CASE stored' = stored /\ path' = path
  BY <1>1 DEF ThreadsAgree
<1>2. ASSUME NEW h \in Handlers, NEW k \in Keys, NEW p \in Keys \union {NoKey},
             SubmitItem(h, k, p)
      PROVE  ThreadsAgree'
  <2>1. /\ k \notin stored /\ stored' = stored \union {k}
        /\ stored \subseteq Keys
        /\ \A j \in Keys : path[j] \in Seq(Keys)
        /\ \A j \in stored : path'[j] = path[j]
        /\ path'[k] = IF p \in stored THEN ChildPath(p) ELSE <<>>
    BY <1>2 DEF SubmitItem, TypeOK
  <2>2. ASSUME NEW j \in stored, NEW n \in 1..Len(path[j])
        PROVE  /\ path[j][n] \in stored \ {j}
               /\ path'[path[j][n]] = SubSeq(path[j], 1, n - 1)
    BY <2>1 DEF ThreadsAgree
  <2>3. ASSUME NEW j \in stored, NEW n \in 1..Len(path'[j])
        PROVE  /\ path'[j][n] \in stored' \ {j}
               /\ path'[path'[j][n]] = SubSeq(path'[j], 1, n - 1)
    BY <2>1, <2>2
  <2>4. ASSUME NEW n \in 1..Len(path'[k])
        PROVE  /\ path'[k][n] \in stored' \ {k}
               /\ path'[path'[k][n]] = SubSeq(path'[k], 1, n - 1)
    <3>1. CASE p \notin stored
      BY <2>1, <3>1
    <3>2. CASE p \in stored
      <4>1. path'[k] = Append(path[p], p)
        BY <2>1, <3>2 DEF ChildPath
      <4>2. path[p] \in Seq(Keys) /\ p \in Keys
        BY <2>1, <3>2
      <4>3. Len(path'[k]) = Len(path[p]) + 1
        BY <4>1, <4>2, AppendPath
      <4>4. CASE n = Len(path[p]) + 1
        <5>1. path'[k][n] = p /\ SubSeq(path'[k], 1, n - 1) = path[p]
          BY <4>1, <4>2, <4>4, AppendPath
        <5> QED BY <2>1, <3>2, <5>1
      <4>5. CASE n # Len(path[p]) + 1
        <5>1. n \in 1..Len(path[p])
          BY <4>2, <4>3, <4>5
        <5>2. /\ path'[k][n] = path[p][n]
              /\ SubSeq(path'[k], 1, n - 1) = SubSeq(path[p], 1, n - 1)
          BY <4>1, <4>2, <5>1, AppendPath
        <5> QED BY <2>1, <2>2, <3>2, <5>1, <5>2
      <4> QED BY <4>4, <4>5
    <3> QED BY <3>1, <3>2
  <2> QED BY <2>1, <2>3, <2>4 DEF ThreadsAgree
<1> QED BY <1>1, <1>2, PathsStay

\* The paths of stored items agree with one another, for any number of items:
\* threads are trees of stored items, whatever is edited or deleted.
THEOREM ThreadsAreTrees == Spec => []ThreadsAgree
<1>1. Init => ThreadsAgree
  BY DEF Init, ThreadsAgree
<1>2. TypeOK /\ ThreadsAgree /\ [Next]_vars => ThreadsAgree'
  BY StepKeepsThreads
<1> QED BY <1>1, <1>2, TypeCorrect, PTL DEF Spec
-----------------------------------------------------------------------------
LEMMA StepKeepsParents ==
  ASSUME TypeOK, ParentIsReplyTo, [Next]_vars
  PROVE  ParentIsReplyTo'
<1>1. CASE stored' = stored /\ path' = path
  <2>1. replyTo' = replyTo
    BY <1>1 DEF Next, vars, rows, locals, history, DuplicateItem,
        OpenEditForm, PostEditForm, RequestDelete, VoteOwn, LoadTitle,
        LoadTitleFails, SaveEdit, LoadToDelete, SaveDelete, Fail, SubmitItem
  <2> QED BY <1>1, <2>1 DEF ParentIsReplyTo, ParentKey, OPKey
<1>2. ASSUME NEW h \in Handlers, NEW k \in Keys, NEW p \in Keys \union {NoKey},
             SubmitItem(h, k, p)
      PROVE  ParentIsReplyTo'
  <2>1. /\ k \notin stored /\ stored' = stored \union {k}
        /\ stored \subseteq Keys
        /\ \A j \in Keys : path[j] \in Seq(Keys)
        /\ \A j \in stored : path'[j] = path[j] /\ replyTo'[j] = replyTo[j]
        /\ \A j \in stored : replyTo[j] \in stored \union {NoKey}
        /\ path'[k] = IF p \in stored THEN Append(path[p], p) ELSE <<>>
        /\ replyTo'[k] = IF p \in stored THEN p ELSE NoKey
        /\ k # NoKey /\ NoKey \notin stored
    BY <1>2, NoKeyAssumption DEF SubmitItem, TypeOK, ChildPath
  <2>2. \A j \in stored : ParentKey(j)' = ParentKey(j) /\ OPKey(j)' = OPKey(j)
    BY <2>1 DEF ParentKey, OPKey
  <2>3. ASSUME NEW j \in stored
        PROVE  /\ ParentKey(j)' = replyTo'[j]
               /\ OPKey(j)' = IF replyTo'[j] = NoKey THEN NoKey
                              ELSE IF OPKey(replyTo[j])' = NoKey THEN replyTo'[j]
                              ELSE OPKey(replyTo[j])'
    BY <2>1, <2>2 DEF ParentIsReplyTo
  <2>4. CASE p \notin stored
    <3>1. ParentKey(k)' = NoKey /\ OPKey(k)' = NoKey /\ replyTo'[k] = NoKey
      BY <2>1, <2>4 DEF ParentKey, OPKey
    <3> QED BY <2>1, <2>3, <3>1 DEF ParentIsReplyTo
  <2>5. CASE p \in stored
    <3>1. path[p] \in Seq(Keys) /\ p \in Keys /\ p # NoKey
      BY <2>1, <2>5
    <3>2. ParentKey(k)' = p
      BY <2>1, <2>5, <3>1, AppendPath DEF ParentKey
    <3>3. OPKey(k)' = IF path[p] = <<>> THEN p ELSE path[p][1]
      BY <2>1, <2>5, <3>1, AppendPath DEF OPKey
    <3>4. OPKey(p) = NoKey <=> path[p] = <<>>
      BY <3>1, NoKeyAssumption DEF OPKey
    <3>5. OPKey(k)' = IF OPKey(p)' = NoKey THEN p ELSE OPKey(p)'
      BY <2>2, <2>5, <3>3, <3>4 DEF OPKey
    <3> QED BY <2>1, <2>3, <2>5, <3>1, <3>2, <3>5 DEF ParentIsReplyTo
  <2> QED BY <2>4, <2>5
<1> QED BY <1>1, <1>2, PathsStay

\* What Model derives from the path of an item is what it replied to and the
\* thread of that, for any number of items.
THEOREM ParentsAreReplied == Spec => []ParentIsReplyTo
<1>1. Init => ParentIsReplyTo
  BY DEF Init, ParentIsReplyTo
<1>2. TypeOK /\ ParentIsReplyTo /\ [Next]_vars => ParentIsReplyTo'
  BY StepKeepsParents
<1> QED BY <1>1, <1>2, TypeCorrect, PTL DEF Spec

LEMMA TreesHaveSubtrees ==
  ASSUME TypeOK, ThreadsAgree
  PROVE  ContextIsSubtree
<1> SUFFICES ASSUME NEW k \in stored, NEW j \in stored
             PROVE  (path[j] # <<>> /\ IsPrefix(ChildPath(k), path[j]))
                      <=> \E n \in 1..Len(path[j]) : path[j][n] = k
  BY DEF ContextIsSubtree, Context
<1>1. path[k] \in Seq(Keys) /\ path[j] \in Seq(Keys) /\ k \in Keys
  BY DEF TypeOK
<1>2. ChildPath(k) = Append(path[k], k)
  BY DEF ChildPath
<1>3. ASSUME IsPrefix(ChildPath(k), path[j])
      PROVE  \E n \in 1..Len(path[j]) : path[j][n] = k
  BY <1>1, <1>2, <1>3, AppendPath DEF IsPrefix
<1>4. ASSUME NEW n \in 1..Len(path[j]), path[j][n] = k
      PROVE  path[j] # <<>> /\ IsPrefix(ChildPath(k), path[j])
  <2>1. path[k] = SubSeq(path[j], 1, n - 1)
    BY <1>4 DEF ThreadsAgree
  <2>2. Append(path[k], k) = SubSeq(path[j], 1, n)
    BY <1>1, <1>4, <2>1
  <2> QED BY <1>1, <1>2, <1>4, <2>2, AppendPath DEF IsPrefix
<1> QED BY <1>3, <1>4

\* The page of an item loads its subtree, for any number of items.
THEOREM ContextCorrect == Spec => []ContextIsSubtree
BY TreesHaveSubtrees, TypeCorrect, ThreadsAreTrees, PTL
-----------------------------------------------------------------------------
\* A deleted item of which a form is out was deleted when it was out already.
DeletionSeen ==
  \A k \in Keys : deleted[k] => k \in stored /\ (k \in forms => k \in outlived)

\* An edit is posted with a form.
EditsHaveForms ==
  \A h \in Handlers : pc[h] \in {"edit", "edited"} => target[h] \in forms

\* The title to be saved is that of the item, unless the item was deleted
\* after the form was served, or could not be loaded.
TitleKnown ==
  \A h \in Handlers : pc[h] = "edited" =>
    hasTitle[h] = title[target[h]] \/ target[h] \in outlived \union blind

\* A new item has one submitter, who has not voted yet.
OneSubmitter ==
  \A h \in Handlers : pc[h] = "submitted" =>
    /\ target[h] \notin voted
    /\ \A g \in Handlers \ {h} : pc[g] = "submitted" => target[g] # target[h]

HandlerInv == DeletionSeen /\ EditsHaveForms /\ TitleKnown /\ OneSubmitter

LEMMA StepKeepsDeletionSeen ==
  ASSUME TypeOK, DeletionSeen, [Next]_vars
  PROVE  DeletionSeen'
<1> USE NoKeyAssumption DEF DeletionSeen, TypeOK
<1>1. CASE UNCHANGED vars
  BY <1>1 DEF vars, rows, history
<1>2. ASSUME NEW k \in Keys, OpenEditForm(k)
      PROVE  DeletionSeen'
  BY <1>2 DEF OpenEditForm, ValidateItemAuthor, rows, history
<1>3. ASSUME NEW h \in Handlers, SaveDelete(h)
      PROVE  DeletionSeen'
  BY <1>3 DEF SaveDelete
<1>4. ASSUME NEW h \in Handlers, NEW k \in Keys, NEW p \in Keys \union {NoKey},
             \/ SubmitItem(h, k, p) \/ PostEditForm(h, k) \/ RequestDelete(h, k)
             \/ VoteOwn(h) \/ LoadTitle(h) \/ LoadTitleFails(h) \/ SaveEdit(h)
             \/ LoadToDelete(h) \/ Fail(h)
      PROVE  DeletionSeen'
  <2>1. /\ forms' = forms /\ outlived' = outlived /\ stored \subseteq stored'
        /\ \A j \in Keys : deleted'[j] => deleted[j]
    BY <1>4 DEF SubmitItem, PostEditForm, RequestDelete, VoteOwn, LoadTitle,
                LoadTitleFails, SaveEdit, LoadToDelete, Fail, rows, history
  <2> QED BY <2>1
<1> QED
  BY <1>1, <1>2, <1>3, <1>4 DEF Next, DuplicateItem

LEMMA StepKeepsForms ==
  ASSUME TypeOK, EditsHaveForms, [Next]_vars
  PROVE  EditsHaveForms'
<1> USE NoKeyAssumption DEF EditsHaveForms, TypeOK, Return, Enter
<1>1. CASE UNCHANGED vars
  BY <1>1 DEF vars, locals
<1>2. ASSUME NEW k \in Keys, OpenEditForm(k)
      PROVE  EditsHaveForms'
  BY <1>2 DEF OpenEditForm, locals
<1>3. ASSUME NEW h \in Handlers, UNCHANGED forms,
             pc'[h] \in {"edit", "edited"} => target'[h] \in forms,
             \A g \in Handlers \ {h} : UNCHANGED <<pc[g], target[g]>>
      PROVE  EditsHaveForms'
  BY <1>3
<1>4. ASSUME NEW h \in Handlers, NEW k \in Keys, NEW p \in Keys \union {NoKey},
             SubmitItem(h, k, p) \/ PostEditForm(h, k) \/ RequestDelete(h, k)
      PROVE  EditsHaveForms'
  BY <1>3, <1>4 DEF SubmitItem, PostEditForm, RequestDelete
<1>5. ASSUME NEW h \in Handlers,
             \/ VoteOwn(h) \/ LoadTitle(h) \/ LoadTitleFails(h) \/ SaveEdit(h)
             \/ LoadToDelete(h) \/ SaveDelete(h) \/ Fail(h)
      PROVE  EditsHaveForms'
  BY <1>3, <1>5 DEF VoteOwn, LoadTitle, LoadTitleFails, SaveEdit, LoadToDelete,
     SaveDelete, Fail
<1> QED
  BY <1>1, <1>2, <1>4, <1>5 DEF Next, DuplicateItem

LEMMA StepKeepsTitleKnown ==
  ASSUME TypeOK, EditsHaveForms, TitleKnown, [Next]_vars
  PROVE  TitleKnown'
<1> USE NoKeyAssumption DEF TitleKnown, TypeOK, Return, Enter
<1>1. CASE UNCHANGED vars
  BY <1>1 DEF vars, rows, locals, history
<1>2. ASSUME NEW h \in Handlers, NEW k \in Keys, NEW p \in Keys \union {NoKey},
             SubmitItem(h, k, p)
      PROVE  TitleKnown'
  <2>1. \A g \in Handlers :
          pc'[g] = "edited" => /\ pc[g] = "edited" /\ target[g] \in stored
                               /\ UNCHANGED <<target[g], hasTitle[g]>>
    BY <1>2 DEF SubmitItem
  <2>2. /\ \A j \in stored : title'[j] = title[j]
        /\ UNCHANGED <<outlived, blind>>
    BY <1>2 DEF SubmitItem
  <2> QED BY <2>1, <2>2
<1>3. ASSUME NEW h \in Handlers, NEW k \in Keys,
             OpenEditForm(k) \/ PostEditForm(h, k) \/ RequestDelete(h, k)
      PROVE  TitleKnown'
  BY <1>3 DEF OpenEditForm, PostEditForm, RequestDelete, rows, locals, history
<1>4. ASSUME NEW h \in Handlers, VoteOwn(h) \/ Fail(h) \/ LoadToDelete(h)
      PROVE  TitleKnown'
  BY <1>4 DEF VoteOwn, Fail, LoadToDelete, rows, history
<1>5. ASSUME NEW h \in Handlers, LoadTitle(h) \/ LoadTitleFails(h)
      PROVE  TitleKnown'
  BY <1>5 DEF LoadTitle, LoadTitleFails, rows, history
<1>6. ASSUME NEW h \in Handlers, SaveEdit(h)
      PROVE  TitleKnown'
  <2>1. target[h] \in stored /\ (hasTitle[h] = title[target[h]]
                                 \/ target[h] \in outlived \union blind)
    BY <1>6 DEF SaveEdit
  <2>2. \A j \in Keys \ (outlived \union blind) : title'[j] = title[j]
    BY <1>6, <2>1 DEF SaveEdit
  <2>3. \A g \in Handlers :
          pc'[g] = "edited" => /\ pc[g] = "edited" /\ target[g] \in Keys
                               /\ UNCHANGED <<target[g], hasTitle[g]>>
    BY <1>6 DEF SaveEdit
  <2>4. UNCHANGED <<outlived, blind>>
    BY <1>6 DEF SaveEdit, history
  <2> QED BY <2>2, <2>3, <2>4
<1>7. ASSUME NEW h \in Handlers, SaveDelete(h)
      PROVE  TitleKnown'
  <2>1. \A g \in Handlers :
          pc'[g] = "edited" => /\ pc[g] = "edited" /\ target[g] \in Keys
                               /\ UNCHANGED <<target[g], hasTitle[g]>>
                               /\ target[g] \in forms
    BY <1>7 DEF SaveDelete, EditsHaveForms
  <2>2. /\ outlived \subseteq outlived' /\ blind' = blind
        /\ target[h] \in forms => target[h] \in outlived'
        /\ \A j \in Keys \ {target[h]} : title'[j] = title[j]
    BY <1>7 DEF SaveDelete
  <2> QED BY <2>1, <2>2
<1> QED
  BY <1>1, <1>2, <1>3, <1>4, <1>5, <1>6, <1>7 DEF Next, DuplicateItem

LEMMA StepKeepsOneSubmitter ==
  ASSUME TypeOK, OneSubmitter, [Next]_vars
  PROVE  OneSubmitter'
<1> USE NoKeyAssumption DEF OneSubmitter, TypeOK, Return, Enter
<1>1. CASE UNCHANGED vars
  BY <1>1 DEF vars, rows, locals, history
<1>2. ASSUME NEW h \in Handlers, NEW k \in Keys, NEW p \in Keys \union {NoKey},
             SubmitItem(h, k, p)
      PROVE  OneSubmitter'
  <2>1. /\ k \notin stored /\ voted' = voted /\ voted \subseteq stored
        /\ pc' = [pc EXCEPT ![h] = "submitted"]
        /\ target' = [target EXCEPT ![h] = k]
        /\ \A g \in Handlers : pc[g] = "submitted" => target[g] \in stored
    BY <1>2 DEF SubmitItem
  <2> QED BY <2>1
<1>3. ASSUME NEW h \in Handlers, NEW k \in Keys,
             OpenEditForm(k) \/ PostEditForm(h, k) \/ RequestDelete(h, k)
      PROVE  OneSubmitter'
  BY <1>3 DEF OpenEditForm, PostEditForm, RequestDelete, rows, locals, history
<1>4. ASSUME NEW h \in Handlers, VoteOwn(h)
      PROVE  OneSubmitter'
  BY <1>4 DEF VoteOwn
<1>5. ASSUME NEW h \in Handlers,
             \/ LoadTitle(h) \/ LoadTitleFails(h) \/ SaveEdit(h)
             \/ LoadToDelete(h) \/ SaveDelete(h) \/ Fail(h)
      PROVE  OneSubmitter'
  <2>1. /\ voted' = voted
        /\ \A g \in Handlers :
             pc'[g] = "submitted" => /\ pc[g] = "submitted"
                                     /\ target'[g] = target[g]
    BY <1>5 DEF LoadTitle, LoadTitleFails, SaveEdit, LoadToDelete, SaveDelete,
                Fail, rows
  <2> QED BY <2>1
<1> QED
  BY <1>1, <1>2, <1>3, <1>4, <1>5 DEF Next, DuplicateItem

\* HandlerInv holds of every step, and so does what follows from it.
THEOREM HandlersKnow == Spec => [](TypeOK /\ HandlerInv)
<1>1. Init => HandlerInv
  BY DEF Init, HandlerInv, DeletionSeen, EditsHaveForms, TitleKnown, OneSubmitter
<1>2. TypeOK /\ HandlerInv /\ [Next]_vars => HandlerInv'
  BY StepKeepsDeletionSeen, StepKeepsForms, StepKeepsTitleKnown,
     StepKeepsOneSubmitter DEF HandlerInv
<1> QED BY <1>1, <1>2, TypeCorrect, PTL DEF Spec

\* A deleted item comes back only through an edit form served before the
\* deletion, for any number of items and goroutines.
THEOREM DeletionLasts == Spec => DeletedStaysDeleted
<1>1. TypeOK /\ HandlerInv /\ [Next]_vars =>
        [\A k \in stored : deleted[k] /\ ~deleted'[k] => k \in outlived]_vars
  <2> SUFFICES ASSUME TypeOK, DeletionSeen, EditsHaveForms, Next,
                      NEW k \in stored, deleted[k], ~deleted'[k]
               PROVE  k \in outlived
    BY DEF HandlerInv
  <2>1. PICK h \in Handlers : SaveEdit(h)
    BY DEF TypeOK, Next, SubmitItem, DuplicateItem, OpenEditForm, PostEditForm,
           RequestDelete, VoteOwn, LoadTitle, LoadTitleFails, LoadToDelete,
           SaveDelete, Fail, vars, rows, history
  <2>2. k \in forms
    BY <2>1 DEF SaveEdit, EditsHaveForms, TypeOK
  <2> QED BY <2>2 DEF DeletionSeen, TypeOK
<1> QED BY <1>1, HandlersKnow, PTL DEF Spec, DeletedStaysDeleted

\* An edit keeps the title of the item, but for failed loads and deletions that
\* an edit form outlived, for any number of items and goroutines.
THEOREM TitleSurvives == Spec => TitleKept
<1>1. TypeOK /\ HandlerInv /\ [Next]_vars =>
        [\A k \in stored : title'[k] = title[k] \/ deleted'[k]
                             \/ k \in outlived \union blind]_vars
  <2> SUFFICES ASSUME TypeOK, TitleKnown, Next, NEW k \in stored,
                      title'[k] # title[k], ~deleted'[k]
               PROVE  k \in outlived \union blind
    BY DEF HandlerInv
  <2>1. PICK h \in Handlers : SaveEdit(h)
    BY DEF TypeOK, Next, SubmitItem, DuplicateItem, OpenEditForm, PostEditForm,
           RequestDelete, VoteOwn, LoadTitle, LoadTitleFails, LoadToDelete,
           SaveDelete, Fail, vars, rows, history
  <2>2. target[h] = k /\ hasTitle[h] # title[k] /\ pc[h] = "edited"
    BY <2>1 DEF SaveEdit, TypeOK
  <2> QED BY <2>2 DEF TitleKnown
<1> QED BY <1>1, HandlersKnow, PTL DEF Spec, TitleKept

\* No handler takes the vote of the author back, for any number of items and
\* goroutines.
THEOREM AuthorVoteStays == Spec => AuthorVoteKept
<1>1. TypeOK /\ HandlerInv /\ [Next]_vars => [voted \subseteq voted']_vars
  <2> SUFFICES ASSUME TypeOK, OneSubmitter, Next
               PROVE  voted \subseteq voted'
    BY DEF HandlerInv
  <2>1. ASSUME NEW h \in Handlers, VoteOwn(h)
        PROVE  voted \subseteq voted'
    BY <2>1 DEF VoteOwn, OneSubmitter
  <2> QED
    BY <2>1 DEF Next, SubmitItem, DuplicateItem, OpenEditForm, PostEditForm,
        RequestDelete, LoadTitle, LoadTitleFails, SaveEdit, LoadToDelete,
        SaveDelete, Fail, vars, rows
<1> QED BY <1>1, HandlersKnow, PTL DEF Spec, AuthorVoteKept
-----------------------------------------------------------------------------
\* The last two segments of an IRI name an object.
LEMMA ObjectHash ==
  ASSUME NEW k, NEW by
  PROVE  HashOf(ObjectID(k, by)) = k
<1>1. CASE k = NoKey
  BY <1>1 DEF ObjectID, HashOf
<1>2. CASE k # NoKey
  <2> DEFINE S == {"self", "following", "outbox", "object", by, k}
             s == IF by = NoKey THEN <<"self">> ELSE ActorID(by)
             t == <<"outbox", k, "object">>
  <2>1. t \in Seq(S) /\ Len(t) = 3 /\ t[2] = k /\ t[3] = "object"
    OBVIOUS
  <2>2. s \in Seq(S) /\ Len(s) \in {1, 3}
    <3>1. CASE by = NoKey
      BY <3>1
    <3>2. CASE by # NoKey
      BY <3>2 DEF ActorID
    <3> QED
      BY <3>1, <3>2
  <2>3. ObjectID(k, by) = s \o t
    BY <1>2 DEF ObjectID
  <2> HIDE DEF s, t, S
  <2>4. /\ s \o t \in Seq(S) /\ Len(s \o t) = Len(s) + Len(t)
        /\ \A i \in 1..(Len(s) + Len(t)) :
             (s \o t)[i] = IF i <= Len(s) THEN s[i] ELSE t[i - Len(s)]
    <3>1. s \in Seq(S) /\ t \in Seq(S)
      BY <2>1, <2>2
    <3> QED
      BY ONLY <3>1, ConcatProperties
  <2>5. (s \o t)[Len(s) + 2] = t[2] /\ (s \o t)[Len(s) + 3] = t[3]
    BY <2>1, <2>2, <2>4
  <2>6. /\ s \o t # <<>> /\ Last(s \o t) = "object"
        /\ (s \o t)[Len(s \o t) - 1] = k
    BY <2>1, <2>2, <2>4, <2>5 DEF Last
  <2> QED
    BY <2>3, <2>6 DEF HashOf
<1> QED
  BY <1>1, <1>2

LEMMA ActorHash ==
  ASSUME NEW a, a # "object"
  PROVE  HashOf(ActorID(a)) = a
BY DEF ActorID, HashOf, Last

\* The type of a filter, and the filters of requests.
Filters ==
  LET Actors == {Author, Other}
  IN [key : SUBSET Keys, by : SUBSET Actors, context : SUBSET (stored \union {Top}),
      inReplyTo : SUBSET Keys, content : SUBSET SUBSET Keys, deleted : SUBSET BOOLEAN,
      followedBy : SUBSET Actors, federated : SUBSET BOOLEAN, depth : Nat]

\* Whether two filters have the same clauses.
SameClauses(f, g) ==
  /\ f.key = g.key /\ f.by = g.by /\ f.context = g.context /\ f.inReplyTo = g.inReplyTo
  /\ f.content = g.content /\ f.deleted = g.deleted /\ f.followedBy = g.followedBy
  /\ f.federated = g.federated /\ f.depth = g.depth

LEMMA SameAnswer ==
  ASSUME NEW f, NEW g, SameClauses(f, g)
  PROVE  Selected(f) = Selected(g)
BY DEF SameClauses, Selected, NotDeeper

LEMMA QueriesAreFilters ==
  ASSUME NEW q \in Queries
  PROVE  q \in Filters /\ q.key = {} /\ q.federated = {} /\ q.depth = 0
<1>0. NoFilter \in Filters /\ NoFilter.key = {} /\ NoFilter.federated = {} /\ NoFilter.depth = 0
  BY DEF NoFilter, Filters
<1> DEFINE Bys == {{}, {Author}, {Author, Other}}
           Contexts == {{}, {Top}} \union {{k} : k \in stored}
           Dels == {{}, {FALSE}}
           Fols == {{}, {Author}}
<1>1. Queries = {Query(by, context, del, fol) :
                   by \in Bys, context \in Contexts, del \in Dels, fol \in Fols}
  BY DEF Queries
<1>2. /\ Bys \subseteq SUBSET {Author, Other} /\ Fols \subseteq SUBSET {Author, Other}
      /\ Contexts \subseteq SUBSET (stored \union {Top})
  OBVIOUS
<1>3. Dels \subseteq SUBSET BOOLEAN
  OBVIOUS
<1> HIDE DEF Bys, Contexts, Dels, Fols
<1>4. PICK by \in Bys, context \in Contexts, del \in Dels, fol \in Fols :
        q = Query(by, context, del, fol)
  BY <1>1
<1> HIDE DEF NoFilter
<1>5. q = [NoFilter EXCEPT !.by = by, !.context = context, !.deleted = del,
                           !.followedBy = fol]
  BY <1>4 DEF Query
<1> QED
  BY <1>0, <1>2, <1>3, <1>5 DEF Filters

LEMMA LinkedClauses ==
  ASSUME NEW r \in Requests,
         LET f == LoadFiltersCtxt(r)
         IN Cardinality(f.by) # 1 \/ (r.collection = "outbox" /\ r.handle = f.by)
  PROVE  SameClauses(LoadFiltersCtxt(Linked(r)), LoadFiltersCtxt(r))
<1> DEFINE f == LoadFiltersCtxt(r)
           l == Linked(r)
           g == LoadFiltersCtxt(l)
           One == Cardinality(f.by) = 1
           own == IF One THEN [f EXCEPT !.by = {}] ELSE f
<1>1. /\ r.collection \in {"outbox", "inbox"} /\ r.handle \in SUBSET {Author, Other}
      /\ r.hash = {} /\ r.query \in Queries
      /\ r \in [collection : {"outbox", "inbox"}, handle : SUBSET {Author, Other},
                hash : {{}}, query : Filters]
  BY QueriesAreFilters DEF Requests
<1>2. /\ r.query \in Filters /\ r.query.key = {}
      /\ r.query.federated = {} /\ r.query.depth = 0
  BY <1>1, QueriesAreFilters
<1>3. /\ f \in Filters /\ f.key = {} /\ f.federated = {} /\ f.depth = 0
      /\ r.collection = "outbox" => r.handle \subseteq f.by
      /\ r.collection = "inbox" => r.handle \subseteq f.followedBy
  <2>1. CASE r.collection = "outbox"
    <3>1. f = [r.query EXCEPT !.by = r.handle \union @, !.key = r.hash \union @]
      BY <2>1 DEF LoadFiltersCtxt
    <3> HIDE DEF f
    <3> QED
      BY <1>1, <1>2, <2>1, <3>1 DEF Filters
  <2>2. CASE r.collection = "inbox"
    <3>1. f = [r.query EXCEPT !.followedBy = r.handle \union @, !.key = r.hash \union @]
      BY <2>2 DEF LoadFiltersCtxt
    <3> HIDE DEF f
    <3> QED
      BY <1>1, <1>2, <2>2, <3>1 DEF Filters
  <2> QED
    BY <1>1, <2>1, <2>2
<1>4. One => r.collection = "outbox" /\ r.handle = f.by
  OBVIOUS
<1>5. l = [r EXCEPT !.query = [own EXCEPT !.depth = 0, !.federated = {}]]
  BY DEF Linked, CopyItemsFilters
<1> HIDE DEF f, One, l
<1>6. /\ own \in Filters /\ own.key = {} /\ own.federated = {} /\ own.depth = 0
      /\ own.by = IF One THEN {} ELSE f.by
      /\ own.context = f.context /\ own.inReplyTo = f.inReplyTo
      /\ own.content = f.content /\ own.deleted = f.deleted
      /\ own.followedBy = f.followedBy
  <2>1. CASE One
    <3>1. own = [f EXCEPT !.by = {}]
      BY <2>1
    <3> HIDE DEF own
    <3> QED
      BY <1>3, <2>1, <3>1 DEF Filters
  <2>2. CASE ~One
    BY <1>3, <2>2
  <2> QED
    BY <2>1, <2>2
<1> HIDE DEF own
<1>7. /\ l.collection = r.collection /\ l.handle = r.handle /\ l.hash = {}
      /\ l.query = [own EXCEPT !.depth = 0, !.federated = {}]
  BY <1>1, <1>5
<1>8. /\ l.query \in Filters /\ l.query.key = {} /\ l.query.federated = {}
      /\ l.query.depth = 0 /\ l.query.by = own.by /\ l.query.context = f.context
      /\ l.query.inReplyTo = f.inReplyTo /\ l.query.content = f.content
      /\ l.query.deleted = f.deleted /\ l.query.followedBy = f.followedBy
  BY <1>6, <1>7 DEF Filters
<1>9. CASE r.collection = "outbox"
  <2>1. g = [l.query EXCEPT !.by = l.handle \union @, !.key = l.hash \union @]
    BY <1>7, <1>9 DEF LoadFiltersCtxt
  <2> HIDE DEF g
  <2>2. /\ g.by = l.handle \union l.query.by /\ g.key = {}
        /\ g.context = f.context /\ g.inReplyTo = f.inReplyTo
        /\ g.content = f.content /\ g.deleted = f.deleted
        /\ g.followedBy = f.followedBy /\ g.federated = {} /\ g.depth = 0
    BY <1>7, <1>8, <2>1 DEF Filters
  <2>3. g.by = f.by
    BY <1>3, <1>4, <1>6, <1>7, <1>8, <1>9, <2>2
  <2>4. SameClauses(g, f)
    BY <1>3, <2>2, <2>3 DEF SameClauses
  <2> QED
    BY <2>4 DEF f, g, l
<1>10. CASE r.collection = "inbox"
  <2>1. g = [l.query EXCEPT !.followedBy = l.handle \union @, !.key = l.hash \union @]
    BY <1>7, <1>10 DEF LoadFiltersCtxt
  <2> HIDE DEF g
  <2>2. /\ g.by = own.by /\ g.key = {}
        /\ g.context = f.context /\ g.inReplyTo = f.inReplyTo
        /\ g.content = f.content /\ g.deleted = f.deleted
        /\ g.followedBy = l.handle \union f.followedBy
        /\ g.federated = {} /\ g.depth = 0
    BY <1>7, <1>8, <2>1 DEF Filters
  <2>3. g.by = f.by /\ g.followedBy = f.followedBy
    BY <1>3, <1>4, <1>6, <1>7, <1>10, <2>2
  <2>4. SameClauses(g, f)
    BY <1>3, <2>2, <2>3 DEF SameClauses
  <2> QED
    BY <2>4 DEF f, g, l
<1> QED
  BY <1>1, <1>9, <1>10

\* A link to another page leads to a page of the same items, whatever is stored.
THEOREM LinksStay == Spec => []LinksStayInListing
<1>1. LinksStayInListing
  BY LinkedClauses, SameAnswer DEF LinksStayInListing, Answer
<1> QED
  BY <1>1, PTL
-----------------------------------------------------------------------------
\* The fields of the document o of item k that are read back.
IsDocument(o, k, mime, data) ==
  /\ o.id = ObjectID(k, Author)
  /\ o.inReplyTo = ObjectID(ParentKey(k), NoKey)
  /\ o.context = ObjectID(IF OPKey(k) = ParentKey(k) THEN NoKey ELSE OPKey(k), NoKey)
  /\ deleted[k] => o.type = "Tombstone"
  /\ ~deleted[k] =>
       /\ o.type = IF mime # Link THEN "Note" ELSE "Page"
       /\ o.name = title[k]
       /\ o.by = IF Author = NoKey THEN <<>> ELSE ActorID(Author)
       /\ o.source = IF mime = Markdown THEN data ELSE Empty
       /\ mime = Markdown => o.mediaType = "text/html" /\ o.content = Render(data)
       /\ mime \notin {Link, Markdown} => o.mediaType = mime /\ o.content = data
       /\ mime = Link => o.url = data

LEMMA DocumentOfItem ==
  ASSUME NEW k, NEW mime \in MimeTypes, NEW data
  PROVE  IsDocument(LoadAPItem(Model(k, mime, data)), k, mime, data)
<1> DEFINE i == Model(k, mime, data)
           text == mime # Link
           d == [type |-> IF text THEN "Note" ELSE "Page",
                 id |-> ObjectID(i.hash, i.by),
                 url |-> IF text THEN <<"page", i.hash>> ELSE i.data,
                 mediaType |-> IF i.mime = Markdown THEN "text/html"
                               ELSE IF text THEN i.mime ELSE "",
                 content |-> CASE i.mime = Markdown -> Render(i.data)
                               [] i.mime # Markdown /\ text -> i.data
                               [] OTHER -> Empty,
                 source |-> IF i.mime = Markdown THEN i.data ELSE Empty,
                 name |-> i.title,
                 by |-> IF i.by = NoKey THEN <<>> ELSE ActorID(i.by),
                 inReplyTo |-> ObjectID(i.parent, NoKey),
                 context |-> ObjectID(i.op, NoKey)]
<1>1. /\ i.hash = k /\ i.title = title[k] /\ i.mime = mime /\ i.data = data
      /\ i.by = Author /\ i.deleted = deleted[k] /\ i.parent = ParentKey(k)
      /\ i.op = IF OPKey(k) = ParentKey(k) THEN NoKey ELSE OPKey(k)
  BY DEF Model
<1> HIDE DEF i
<1> DEFINE o == LoadAPItem(i)
<1>2. o = IF i.deleted THEN Tombstone(d) ELSE d
  BY <1>1 DEF LoadAPItem, i
<1>3. /\ d.id = ObjectID(k, Author) /\ d.inReplyTo = ObjectID(i.parent, NoKey)
      /\ d.context = ObjectID(i.op, NoKey)
  BY <1>1
<1>4. /\ Tombstone(d).id = d.id /\ Tombstone(d).inReplyTo = d.inReplyTo
      /\ Tombstone(d).context = d.context /\ Tombstone(d).type = "Tombstone"
  BY DEF Tombstone
<1>5. /\ d.type = IF text THEN "Note" ELSE "Page"
      /\ d.name = title[k]
      /\ d.by = IF Author = NoKey THEN <<>> ELSE ActorID(Author)
  BY <1>1
<1>6. /\ d.source = IF mime = Markdown THEN data ELSE Empty
      /\ d.mediaType = IF mime = Markdown THEN "text/html" ELSE IF text THEN mime ELSE ""
      /\ ~text => d.url = data
  BY <1>1
<1>7. d.content = CASE mime = Markdown -> Render(data)
                    [] mime # Markdown /\ text -> data
                    [] OTHER -> Empty
  BY <1>1
<1>8. Markdown # Link
  BY DEF Markdown, Link
<1> HIDE DEF d, o
<1>9. CASE deleted[k]
  <2>1. IsDocument(o, k, mime, data)
    BY <1>1, <1>2, <1>3, <1>4, <1>9 DEF IsDocument
  <2> QED
    BY <2>1 DEF o, i
<1>10. CASE ~deleted[k]
  <2>1. o = d
    BY <1>1, <1>2, <1>10
  <2>2. mime = Markdown => d.mediaType = "text/html" /\ d.content = Render(data)
    BY <1>6, <1>7
  <2>3. mime \notin {Link, Markdown} => d.mediaType = mime /\ d.content = data
    BY <1>6, <1>7
  <2>4. IsDocument(o, k, mime, data)
    BY <1>1, <1>3, <1>5, <1>6, <1>8, <1>10, <2>1, <2>2, <2>3 DEF IsDocument
  <2> QED
    BY <2>4 DEF o, i
<1> QED
  BY <1>9, <1>10

\* An item is read back from its object.
LEMMA ObjectReadBack ==
  ASSUME TypeOK, ParentIsReplyTo, NEW k \in stored, NEW mime \in MimeTypes,
         NEW data \in {Empty, <<"data">>}
  PROVE  IsReadBack(FromObject(LoadAPItem(Model(k, mime, data))), k, mime, data)
<1> DEFINE o == LoadAPItem(Model(k, mime, data))
           r == FromObject(o)
           op == IF OPKey(k) = ParentKey(k) THEN NoKey ELSE OPKey(k)
<1>1. IsDocument(o, k, mime, data)
  BY DocumentOfItem
<1> HIDE DEF o
<1>2. /\ o.id = ObjectID(k, Author) /\ o.inReplyTo = ObjectID(ParentKey(k), NoKey)
      /\ o.context = ObjectID(op, NoKey)
  BY <1>1 DEF IsDocument
<1>3. HashOf(o.id) = k /\ HashOf(o.inReplyTo) = ParentKey(k) /\ HashOf(o.context) = op
  BY <1>2, ObjectHash
<1>4. ~deleted[k] => HashOf(o.by) = Author
  <2>1. HashOf(ActorID(Author)) = Author
    BY ActorHash, AuthorAssumption
  <2>2. HashOf(<<>>) = NoKey
    BY DEF HashOf
  <2> QED
    BY <1>1, <2>1, <2>2 DEF IsDocument
<1>5. ASSUME NEW i, i.parent = ParentKey(k), i.op = op
      PROVE  i.parent = replyTo[k] /\ ThreadOf(i) = OPKey(k)
  BY <1>5, NoKeyAssumption DEF ParentIsReplyTo, ThreadOf, OPKey, ParentKey
<1> HIDE DEF op
<1>6. deleted[k] \in BOOLEAN
  BY DEF TypeOK
<1>7. CASE deleted[k]
  <2>1. r = FromTombstone(o)
    BY <1>1, <1>7 DEF FromObject, IsDocument
  <2> HIDE DEF r
  <2>2. /\ r.hash = HashOf(o.id) /\ r.deleted /\ r.by = Anonymous
        /\ ~r.title /\ r.data = Empty /\ r.parent = HashOf(o.inReplyTo)
        /\ r.op = HashOf(o.context)
    BY <2>1 DEF FromTombstone
  <2>3. r.parent = replyTo[k] /\ ThreadOf(r) = OPKey(k)
    BY <1>3, <1>5, <2>2
  <2>4. IsReadBack(r, k, mime, data)
    BY <1>3, <1>6, <1>7, <2>2, <2>3 DEF IsReadBack
  <2> QED
    BY <2>4 DEF r, o
<1>8. CASE ~deleted[k]
  <2>1. r = FromArticle(o)
    BY <1>1, <1>8 DEF FromObject, IsDocument
  <2>2. /\ r.hash = HashOf(o.id) /\ r.deleted = FALSE /\ r.by = HashOf(o.by)
        /\ r.title = o.name /\ r.parent = HashOf(o.inReplyTo)
        /\ r.op = HashOf(o.context)
    BY <2>1 DEF FromArticle
  <2>3. /\ r.mime = CASE o.source # Empty -> Markdown
                      [] o.source = Empty /\ o.type = "Page" -> Link
                      [] OTHER -> o.mediaType
        /\ r.data = CASE o.source # Empty -> o.source
                      [] o.source = Empty /\ o.type = "Page" -> o.url
                      [] OTHER -> o.content
    BY <2>1 DEF FromArticle
  <2> HIDE DEF r
  <2>4. r.parent = replyTo[k] /\ ThreadOf(r) = OPKey(k)
    BY <1>3, <1>5, <2>2
  <2>5. r.data = data /\ (r.mime = mime \/ (mime = Markdown /\ data = Empty))
    <3>1. CASE mime = Markdown /\ data = Empty
      <4>1. o.source = Empty /\ o.type # "Page" /\ o.content = Empty
        BY <1>1, <1>8, <3>1 DEF IsDocument, Markdown, Link, Render
      <4> QED
        BY <2>3, <3>1, <4>1
    <3>2. CASE mime = Markdown /\ data # Empty
      <4>1. o.source = data
        BY <1>1, <1>8, <3>2 DEF IsDocument
      <4> QED
        BY <2>3, <3>2, <4>1
    <3>3. CASE mime = Link
      <4>1. o.source = Empty /\ o.type = "Page" /\ o.url = data
        BY <1>1, <1>8, <3>3 DEF IsDocument, Link, Markdown
      <4> QED
        BY <2>3, <3>3, <4>1
    <3>4. CASE mime \notin {Link, Markdown}
      <4>1. /\ o.source = Empty /\ o.type = "Note" /\ o.content = data
            /\ o.mediaType = mime
        BY <1>1, <1>8, <3>4 DEF IsDocument
      <4> QED
        BY <2>3, <4>1
    <3> QED
      BY <3>1, <3>2, <3>3, <3>4
  <2>6. IsReadBack(r, k, mime, data)
    BY <1>1, <1>3, <1>4, <1>6, <1>8, <2>2, <2>4, <2>5 DEF IsReadBack, IsDocument
  <2> QED
    BY <2>6 DEF r, o
<1> QED
  BY <1>6, <1>7, <1>8

\* So it is from the activity that made it.
LEMMA ActivityReadBack ==
  ASSUME TypeOK, ParentIsReplyTo, NEW k \in stored, NEW mime \in MimeTypes,
         NEW data \in {Empty, <<"data">>}
  PROVE  IsReadBack(FromActivity(LoadAPActivity(Model(k, mime, data))), k, mime, data)
<1> DEFINE i == Model(k, mime, data)
           o == LoadAPItem(i)
           a == LoadAPActivity(i)
           r == FromObject(o)
           s == FromActivity(a)
<1>1. IsReadBack(r, k, mime, data) /\ deleted[k] \in BOOLEAN
  BY ObjectReadBack DEF TypeOK
<1>2. /\ deleted[k] => o.type = "Tombstone"
      /\ ~deleted[k] => o.type # "Tombstone"
  BY DocumentOfItem DEF IsDocument
<1>3. i.by = Author
  BY DEF Model
<1>4. r \in [hash : {r.hash}, title : {r.title}, mime : {r.mime}, data : {r.data},
             by : {r.by}, deleted : {r.deleted}, parent : {r.parent}, op : {r.op}]
  BY DEF FromObject, FromTombstone, FromArticle
<1> HIDE DEF o, r, i
<1>5. /\ a.object = o
      /\ a.type = IF o.type = "Tombstone" THEN "Delete" ELSE "Create"
      /\ a.actor = ActorID(IF o.type = "Tombstone" THEN Anonymous ELSE Author)
  BY <1>3 DEF LoadAPActivity, o
<1> HIDE DEF a
<1>6. CASE deleted[k]
  <2>1. s = [r EXCEPT !.deleted = TRUE]
    BY <1>2, <1>5, <1>6 DEF FromActivity, r
  <2> HIDE DEF s
  <2>2. /\ s.hash = r.hash /\ s.title = r.title /\ s.data = r.data /\ s.by = r.by
        /\ s.deleted = TRUE /\ s.parent = r.parent /\ s.op = r.op
    BY <1>4, <2>1
  <2>3. IsReadBack(s, k, mime, data)
    BY <1>1, <1>6, <2>2 DEF IsReadBack, ThreadOf
  <2> QED
    BY <2>3 DEF s, a, i
<1>7. CASE ~deleted[k]
  <2>1. s = [r EXCEPT !.by = HashOf(a.actor)] /\ HashOf(a.actor) = Author
    BY <1>2, <1>5, <1>7, ActorHash, AuthorAssumption DEF FromActivity, r
  <2> HIDE DEF s
  <2>2. /\ s.hash = r.hash /\ s.title = r.title /\ s.data = r.data /\ s.by = Author
        /\ s.mime = r.mime /\ s.deleted = r.deleted /\ s.parent = r.parent /\ s.op = r.op
    BY <1>4, <2>1
  <2>3. IsReadBack(s, k, mime, data)
    BY <1>1, <1>7, <2>2 DEF IsReadBack, ThreadOf
  <2> QED
    BY <2>3 DEF s, a, i
<1> QED
  BY <1>1, <1>6, <1>7

\* Votes keep their item and sign.
LEMMA VoteReadBack ==
  ASSUME NEW k, NEW weight \in Weights
  PROVE  LET v == FromLike(LoadAPLike(k, weight))
         IN v.item = k /\ v.weight = weight
<1>1. HashOf(ObjectID(k, Author)) = k
  BY ObjectHash
<1> QED
  BY <1>1 DEF FromLike, LoadAPLike, Weights

\* Accounts keep what a page shows.
LEMMA PersonReadBack ==
  ASSUME NEW a \in Rows
  PROVE  LET r == FromPerson(LoadAPPerson(a))
         IN /\ r.hash = a.hash /\ r.handle = a.handle /\ r.icon = a.icon
            /\ r.key = IF a.key = Empty THEN Empty ELSE Base64(a.key)
<1> DEFINE p == LoadAPPerson(a)
<1>1. /\ p.id = ActorID(a.hash) /\ p.preferredUsername = a.handle /\ p.icon = a.icon
      /\ p.publicKeyPem = IF a.key = Empty THEN Empty ELSE Base64(a.key)
  BY DEF LoadAPPerson
<1>2. a.hash = Author /\ a.handle = "handle" /\ a.key \in {Empty, <<"der">>}
  BY DEF Rows
<1>3. HashOf(p.id) = a.hash
  BY <1>1, <1>2, ActorHash, AuthorAssumption
<1> HIDE DEF p
<1>4. (IF p.publicKeyPem = Empty THEN Empty ELSE Base64(Tail(p.publicKeyPem)))
        = IF a.key = Empty THEN Empty ELSE Base64(a.key)
  <2>1. CASE a.key = Empty
    BY <1>1, <2>1
  <2>2. CASE a.key = <<"der">>
    BY <1>1, <2>2 DEF Base64, Empty
  <2> QED
    BY <1>2, <2>1, <2>2
<1>5. LET r == FromPerson(p)
      IN /\ r.hash = a.hash /\ r.handle = a.handle /\ r.icon = a.icon
         /\ r.key = IF p.publicKeyPem = Empty THEN Empty
                    ELSE Base64(Tail(p.publicKeyPem))
  BY <1>1, <1>2, <1>3 DEF FromPerson
<1> QED
  BY <1>4, <1>5 DEF p

\* The site reads every item, vote and account back as it was.
THEOREM ReadBack == Spec => []ReadBackAgrees
<1>1. TypeOK /\ ParentIsReplyTo => ReadBackAgrees
  <2> SUFFICES ASSUME TypeOK, ParentIsReplyTo
               PROVE  ReadBackAgrees
    OBVIOUS
  <2> QED
    BY ObjectReadBack, ActivityReadBack, VoteReadBack, PersonReadBack DEF ReadBackAgrees
<1> QED
  BY <1>1, TypeCorrect, ParentsAreReplied, PTL
-----------------------------------------------------------------------------
\* The order of numbers is well founded: a nonempty set of them has a least one.
LEMMA LessIsWellFounded ==
  \E R : IsWellFoundedOn(R, Nat) /\ \A m, n \in Nat : n < m => <<n, m>> \in R
<1>1. \A m, n \in Nat : n < m => <<n, m>> \in OpToRel(<, Nat)
  BY DEF OpToRel
<1> QED
  BY <1>1, NatLessThanWellFounded, Zenon

LEMMA LeastNumber ==
  ASSUME NEW T \in SUBSET Nat, T # {}
  PROVE  \E m \in T : \A n \in T : m <= n
<1>1. PICK R : /\ IsWellFoundedOn(R, Nat)
               /\ \A m, n \in Nat : n < m => <<n, m>> \in R
  BY LessIsWellFounded
<1>2. \E m \in T : \A n \in T : ~ (<<n, m>> \in R)
  BY <1>1, WFMin
<1>3. PICK m \in T : \A n \in T : ~ (<<n, m>> \in R)
  BY <1>2
<1>4. ASSUME NEW n \in T
      PROVE  m <= n
  <2>1. ~ (n < m)
    BY <1>1, <1>3
  <2> QED
    BY <2>1
<1> QED
  BY <1>4

\* The items that have k as their m-th ancestor, and k itself for m = 0.
Ancestor(j, m, k) ==
  m <= Len(path[j]) /\ path[j][Len(path[j]) + 1 - m] = k
Level(k, m) == IF m = 0 THEN {k} ELSE {j \in stored : Ancestor(j, m, k)}

\* The ancestors of a reply are its parent and the ancestors of that.
LEMMA ReplyHasAncestors ==
  ASSUME TypeOK, ThreadsAgree, ParentIsReplyTo, NEW j \in stored
  PROVE  /\ replyTo[j] = NoKey <=> path[j] = <<>>
         /\ path[j] # <<>> =>
              /\ replyTo[j] \in stored
              /\ replyTo[j] = path[j][Len(path[j])]
              /\ path[replyTo[j]] = SubSeq(path[j], 1, Len(path[j]) - 1)
<1>1. path[j] \in Seq(Keys) /\ ParentKey(j) = replyTo[j]
  BY DEF TypeOK, ParentIsReplyTo
<1>2. CASE path[j] = <<>>
  BY <1>1, <1>2 DEF ParentKey
<1>3. CASE path[j] # <<>>
  <2>1. Len(path[j]) \in 1..Len(path[j])
    BY <1>1, <1>3
  <2>2. replyTo[j] = path[j][Len(path[j])]
    BY <1>1, <1>3 DEF ParentKey
  <2> QED
    BY <1>3, <2>1, <2>2, NoKeyAssumption DEF ThreadsAgree, TypeOK
<1> QED
  BY <1>2, <1>3

LEMMA LevelRecurs ==
  ASSUME TypeOK, ThreadsAgree, ParentIsReplyTo, NEW k \in stored,
         NEW m \in Nat \ {0}
  PROVE  Level(k, m) = {j \in stored : replyTo[j] \in Level(k, m - 1)}
<1> SUFFICES ASSUME NEW j \in stored
             PROVE  Ancestor(j, m, k) <=> replyTo[j] \in Level(k, m - 1)
  BY DEF Level
<1>1. path[j] \in Seq(Keys) /\ NoKey \notin stored /\ stored \subseteq Keys
  BY NoKeyAssumption DEF TypeOK
<1>2. CASE path[j] = <<>>
  <2>1. replyTo[j] = NoKey
    BY <1>2, ReplyHasAncestors
  <2>2. replyTo[j] \notin Level(k, m - 1)
    BY <1>1, <2>1 DEF Level
  <2>3. ~Ancestor(j, m, k)
    BY <1>1, <1>2 DEF Ancestor
  <2> QED
    BY <2>2, <2>3
<1>3. CASE path[j] # <<>>
  <2> DEFINE p == replyTo[j]
             l == Len(path[j])
  <2>1. p \in stored /\ p = path[j][l] /\ path[p] = SubSeq(path[j], 1, l - 1)
    BY <1>3, ReplyHasAncestors
  <2>2. l \in Nat \ {0}
    BY <1>1, <1>3
  <2>3. Len(path[p]) = l - 1 /\ \A n \in 1..l - 1 : path[p][n] = path[j][n]
    BY <1>1, <2>1, <2>2
  <2>4. CASE m = 1
    BY <2>1, <2>2, <2>4 DEF Ancestor, Level
  <2>5. CASE m # 1
    <3>1. Level(k, m - 1) = {i \in stored : Ancestor(i, m - 1, k)}
      BY <2>5 DEF Level
    <3>2. Ancestor(p, m - 1, k) <=> Ancestor(j, m, k)
      <4>1. m - 1 <= l - 1 <=> m <= l
        BY <2>2
      <4>2. m <= l => l + 1 - m \in 1..l - 1
        BY <2>2, <2>5
      <4>3. (l - 1) + 1 - (m - 1) = l + 1 - m
        BY <2>2
      <4> HIDE DEF p, l
      <4>4. Ancestor(p, m - 1, k) <=> m - 1 <= l - 1 /\ path[p][l + 1 - m] = k
        BY <2>3, <4>3 DEF Ancestor
      <4>5. Ancestor(j, m, k) <=> m <= l /\ path[j][l + 1 - m] = k
        BY DEF Ancestor, l
      <4> QED
        BY <2>3, <4>1, <4>2, <4>4, <4>5
    <3> QED
      BY <2>1, <3>1, <3>2
  <2> QED
    BY <2>4, <2>5
<1> QED
  BY <1>2, <1>3

\* What Below collects, level by level, is what has k among its n closest
\* ancestors.
LEMMA BelowIsLevels ==
  ASSUME TypeOK, ThreadsAgree, ParentIsReplyTo, NEW k \in stored, NEW n \in Nat
  PROVE  Below(k, n) = UNION {Level(k, m) : m \in 1..n}
<1> DEFINE Rec(f, m) == IF m = 0 THEN {k} ELSE {j \in stored : replyTo[j] \in f[m - 1]}
           f0 == [m \in 0..n |-> Level(k, m)]
           level == CHOOSE f : f = [m \in 0..n |-> Rec(f, m)]
<1>1. f0 = [m \in 0..n |-> Rec(f0, m)]
  <2> SUFFICES ASSUME NEW m \in 0..n
               PROVE  Level(k, m) = Rec(f0, m)
    OBVIOUS
  <2>1. CASE m = 0
    BY <2>1 DEF Level
  <2>2. CASE m # 0
    <3>1. m \in Nat \ {0} /\ m - 1 \in 0..n
      BY <2>2
    <3>2. f0[m - 1] = Level(k, m - 1)
      BY <3>1
    <3> QED
      BY <2>2, <3>1, <3>2, LevelRecurs
  <2> QED
    BY <2>1, <2>2
<1>2. level = [m \in 0..n |-> Rec(level, m)]
  <2>1. \E f : f = [m \in 0..n |-> Rec(f, m)]
    <3> HIDE DEF f0
    <3> QED
      BY <1>1
  <2> QED
    BY <2>1
<1>3. Below(k, n) = UNION {level[m] : m \in 1..n}
  BY DEF Below
<1> HIDE DEF level
<1>4. \A m \in 0..n : level[m] = Level(k, m)
  <2> DEFINE T == {m \in 0..n : level[m] # Level(k, m)}
  <2> SUFFICES ASSUME T # {}
               PROVE  FALSE
    OBVIOUS
  <2>1. PICK m \in T : \A i \in T : m <= i
    <3>1. T \in SUBSET Nat
      OBVIOUS
    <3> HIDE DEF T
    <3> QED
      BY <3>1, LeastNumber
  <2>2. m \in 0..n /\ level[m] = Rec(level, m)
    BY <1>2
  <2>3. m # 0
    BY <2>2 DEF Level
  <2>4. m - 1 \in 0..n /\ m \in Nat \ {0} /\ m - 1 \notin T
    BY <2>1, <2>2, <2>3
  <2>5. level[m - 1] = Level(k, m - 1)
    BY <2>4
  <2>6. level[m] = {j \in stored : replyTo[j] \in Level(k, m - 1)}
    BY <2>2, <2>3, <2>5
  <2>7. level[m] = Level(k, m)
    BY <2>4, <2>6, LevelRecurs
  <2> QED
    BY <2>7
<1> QED
  BY <1>3, <1>4

\* The items below k down to n levels: its descendants whose path is at most n
\* longer than its own.
LEMMA BelowByDepth ==
  ASSUME TypeOK, ThreadsAgree, ParentIsReplyTo, NEW k \in stored, NEW n \in Nat
  PROVE  Below(k, n) = {j \in Context(k) : Len(path[j]) <= Len(path[k]) + n}
<1> SUFFICES ASSUME NEW j \in stored
             PROVE  (\E m \in 1..n : Ancestor(j, m, k))
                      <=> j \in Context(k) /\ Len(path[j]) <= Len(path[k]) + n
  <2>1. Context(k) \subseteq stored
    BY DEF Context
  <2>2. Below(k, n) = UNION {Level(k, m) : m \in 1..n}
    BY BelowIsLevels
  <2>3. \A m \in 1..n : Level(k, m) = {j \in stored : Ancestor(j, m, k)}
    BY DEF Level
  <2> QED
    BY <2>1, <2>2, <2>3
<1> DEFINE l == Len(path[j])
<1>1. path[j] \in Seq(Keys) /\ l \in Nat
  BY DEF TypeOK
<1>2. j \in Context(k) <=> \E i \in 1..l : path[j][i] = k
  BY TreesHaveSubtrees DEF ContextIsSubtree
<1>3. ASSUME NEW i \in 1..l, path[j][i] = k
      PROVE  Len(path[k]) = i - 1
  BY <1>1, <1>3 DEF ThreadsAgree
<1>4. ASSUME NEW m \in 1..n, Ancestor(j, m, k)
      PROVE  \E i \in 1..l : path[j][i] = k /\ l <= i - 1 + n
  <2>1. l + 1 - m \in 1..l /\ l <= l + 1 - m - 1 + n
    BY <1>1, <1>4 DEF Ancestor
  <2> QED
    BY <1>4, <2>1 DEF Ancestor
<1>5. ASSUME NEW i \in 1..l, path[j][i] = k, l <= i - 1 + n
      PROVE  \E m \in 1..n : Ancestor(j, m, k)
  <2>1. l + 1 - i \in 1..n /\ l + 1 - i <= l /\ l + 1 - (l + 1 - i) = i
    BY <1>1, <1>5
  <2> HIDE DEF l
  <2>2. Ancestor(j, l + 1 - i, k)
    BY <1>5, <2>1 DEF Ancestor, l
  <2> QED
    BY <2>1, <2>2
<1> QED
  BY <1>2, <1>3, <1>4, <1>5

LEMMA RepliesAreBelow ==
  ASSUME TypeOK, ThreadsAgree, ParentIsReplyTo, NEW k \in stored
  PROVE  Below(k, 1) = {j \in stored : replyTo[j] = k}
<1>1. Below(k, 1) = UNION {Level(k, m) : m \in 1..1}
  BY BelowIsLevels
<1>2. Level(k, 1) = {j \in stored : replyTo[j] \in Level(k, 0)}
  <2>1. 1 \in Nat \ {0} /\ 1 - 1 = 0
    OBVIOUS
  <2> QED
    BY <2>1, LevelRecurs
<1>3. Level(k, 0) = {k}
  BY DEF Level
<1>4. \A m \in 1..1 : m = 1
  OBVIOUS
<1> QED
  BY <1>1, <1>2, <1>3, <1>4

\* Through route and query, the filter of a page keeps its clauses.
LEMMA ClausesArrive ==
  ASSUME NEW f \in Filters
  PROVE  /\ SameClauses(LoadFiltersCtxt(LoadItems(f)), f)
         /\ SameClauses(LoadFiltersCtxt(LoadItem(f)), f)
<1> DEFINE r == LoadItems(f)
           s == LoadItem(f)
<1>1. /\ r.collection \in {"outbox", "inbox"} /\ r.handle = f.followedBy
      /\ r.hash = {} /\ r.query = f
      /\ r.collection = "outbox" => f.followedBy = {}
  BY DEF LoadItems
<1>2. SameClauses(LoadFiltersCtxt(r), f)
  <2> DEFINE g == LoadFiltersCtxt(r)
  <2> HIDE DEF r
  <2>1. CASE r.collection = "outbox"
    <3>1. g = [f EXCEPT !.by = {} \union @, !.key = {} \union @]
      BY <1>1, <2>1 DEF LoadFiltersCtxt
    <3> HIDE DEF g
    <3>2. SameClauses(g, f)
      BY <3>1 DEF SameClauses, Filters
    <3> QED
      BY <3>2 DEF g
  <2>2. CASE r.collection = "inbox"
    <3>1. g = [f EXCEPT !.followedBy = f.followedBy \union @, !.key = {} \union @]
      BY <1>1, <2>2 DEF LoadFiltersCtxt
    <3> HIDE DEF g
    <3>2. SameClauses(g, f)
      BY <3>1 DEF SameClauses, Filters
    <3> QED
      BY <3>2 DEF g
  <2> QED
    BY <1>1, <2>1, <2>2
<1>3. /\ s.collection = "outbox" /\ s.handle = {} /\ s.hash = f.key
      /\ s.query = [f EXCEPT !.key = {}]
  BY DEF LoadItem
<1>4. SameClauses(LoadFiltersCtxt(s), f)
  <2> DEFINE g == LoadFiltersCtxt(s)
             q == s.query
  <2>1. g = [q EXCEPT !.by = {} \union @, !.key = f.key \union @]
    BY <1>3 DEF LoadFiltersCtxt
  <2> HIDE DEF g, s
  <2>2. /\ q \in Filters /\ q.key = {} /\ q.by = f.by /\ q.context = f.context
        /\ q.inReplyTo = f.inReplyTo /\ q.content = f.content
        /\ q.deleted = f.deleted /\ q.followedBy = f.followedBy
        /\ q.federated = f.federated /\ q.depth = f.depth
    BY <1>3 DEF Filters
  <2> HIDE DEF q
  <2>3. /\ g.key = f.key /\ g.by = q.by /\ g.context = q.context
        /\ g.inReplyTo = q.inReplyTo /\ g.content = q.content
        /\ g.deleted = q.deleted /\ g.followedBy = q.followedBy
        /\ g.federated = q.federated /\ g.depth = q.depth
    BY <2>1, <2>2 DEF Filters
  <2> QED
    BY <2>2, <2>3 DEF SameClauses, g
<1> QED
  BY <1>2, <1>4

\* What the pages show: the rows for which the clauses of their filters hold.
\* The filters of the pages have one or two clauses.
LEMMA PageFilters ==
  ASSUME TypeOK
  PROVE  /\ Index \in Filters /\ Federated \in Filters
         /\ \A a \in {Author, Other} :
              Followed(a) \in Filters /\ Submissions(a) \in Filters
         /\ \A text \in SUBSET stored :
              Tagged(text) \in Filters /\ FromDomain(text) \in Filters
         /\ \A k \in stored :
              /\ Comments(k) \in Filters
              /\ Replies(k) \in Filters
              /\ \A by \in {{}, {Author}} : OneItem(k, by) \in Filters
<1> QED
  BY FilterAssumption
     DEF Index, Federated, Followed, Submissions, Tagged, FromDomain, Comments,
         Replies, OneItem, NoFilter, Filters, TypeOK

LEMMA ShownIsSelected ==
  ASSUME NEW f \in Filters
  PROVE  Answer(LoadItems(f)) = Selected(f) /\ Answer(LoadItem(f)) = Selected(f)
BY ClausesArrive, SameAnswer DEF Answer

LEMMA ThreadsHaveNoPath ==
  ASSUME TypeOK, ThreadsAgree, ParentIsReplyTo
  PROVE  Threads = {k \in stored : InContext(k, Top)}
BY ReplyHasAncestors DEF Threads, InContext

LEMMA OneBoolean ==
  ASSUME NEW b
  PROVE  Cardinality({b}) = 1 /\ Cardinality({}) = 0
BY FS_Singleton, FS_EmptySet

\* The front page and the pages of what is federated and what is followed.
LEMMA IndexShows ==
  ASSUME TypeOK, ThreadsAgree, ParentIsReplyTo
  PROVE  /\ Selected(Index) = {k \in Threads : ~deleted[k]}
         /\ Selected(Federated) = {}
         /\ \A a : Selected(Followed(a)) =
                     {k \in Threads : ~deleted[k] /\ Follows(k, a)}
<1> DEFINE C(f) == /\ f.key = {} /\ f.by = {} /\ f.context = {Top} /\ f.inReplyTo = {}
                   /\ f.content = {} /\ f.deleted = {FALSE} /\ f.depth = 0
<1>1. /\ C(Index) /\ Index.followedBy = {} /\ Index.federated = {FALSE}
      /\ C(Federated) /\ Federated.followedBy = {} /\ Federated.federated = {TRUE}
      /\ \A a : /\ C(Followed(a)) /\ Followed(a).followedBy = {a}
                /\ Followed(a).federated = {FALSE}
  BY DEF Index, Federated, Followed, NoFilter
<1>2. ASSUME NEW f, C(f), NEW b \in BOOLEAN, f.federated = {b}
      PROVE  Selected(f) =
               {k \in Threads :
                  /\ ~deleted[k] /\ b = FALSE
                  /\ f.followedBy = {} \/ \E a \in f.followedBy : Follows(k, a)}
  <2>1. Cardinality(f.federated) = 1
    BY <1>2, OneBoolean
  <2>2. ASSUME NEW k \in stored
        PROVE  /\ IsFederated(k) \in f.federated <=> b = FALSE
               /\ deleted[k] \in f.deleted <=> ~deleted[k]
               /\ NotDeeper(k, f)
    BY <1>2 DEF IsFederated, NotDeeper, TypeOK
  <2> QED
    BY <1>2, <2>1, <2>2, ThreadsHaveNoPath DEF Selected
<1> HIDE DEF C
<1>3. Selected(Index) = {k \in Threads : ~deleted[k]}
  BY <1>1, <1>2
<1>4. Selected(Federated) = {}
  BY <1>1, <1>2
<1>5. ASSUME NEW a
      PROVE  Selected(Followed(a)) = {k \in Threads : ~deleted[k] /\ Follows(k, a)}
  <2> DEFINE f == Followed(a)
  <2>1. C(f) /\ f.followedBy = {a} /\ f.federated = {FALSE}
    BY <1>1
  <2> HIDE DEF f
  <2>2. Selected(f) =
          {k \in Threads :
             /\ ~deleted[k] /\ FALSE = FALSE
             /\ f.followedBy = {} \/ \E b \in f.followedBy : Follows(k, b)}
    BY <1>2, <2>1
  <2>3. Selected(f) = {k \in Threads : ~deleted[k] /\ Follows(k, a)}
    BY <2>1, <2>2
  <2> QED
    BY <2>3 DEF f
<1> QED
  BY <1>3, <1>4, <1>5

\* The pages of a text, of an account, of an item and of the replies to it.
LEMMA ListsShow ==
  ASSUME TypeOK, ThreadsAgree, ParentIsReplyTo
  PROVE  /\ Selected(Submissions(Author)) = stored
         /\ Selected(Submissions(Other)) = {}
         /\ \A text \in SUBSET stored :
              /\ Selected(Tagged(text)) = text
              /\ Selected(FromDomain(text)) = text \cap Threads
         /\ \A k \in stored :
              /\ \A by \in {{}, {Author}} : Selected(OneItem(k, by)) = {k}
              /\ Selected(Comments(k)) = Below(k, Depth)
              /\ Selected(Replies(k)) = Below(k, 1)
<1> DEFINE C(f) == f.deleted = {} /\ f.followedBy = {} /\ f.federated = {}
<1>1. ASSUME NEW f, C(f)
      PROVE  Selected(f) =
               {k \in stored :
                  /\ f.key = {} \/ k \in f.key
                  /\ f.by = {} \/ Author \in f.by
                  /\ f.context = {} \/ \E c \in f.context : InContext(k, c)
                  /\ f.inReplyTo = {} \/ \E p \in f.inReplyTo : RepliesTo(k, p)
                  /\ f.content = {} \/ \E s \in f.content : k \in s
                  /\ NotDeeper(k, f)}
  <2>1. Cardinality({}) = 0
    BY FS_EmptySet
  <2>2. Cardinality(f.federated) # 1
    BY <1>1, <2>1
  <2> QED
    BY <1>1, <2>2 DEF Selected
<1>2. Selected(Submissions(Author)) = stored /\ Selected(Submissions(Other)) = {}
  <2>1. ASSUME NEW a
        PROVE  Selected(Submissions(a)) = {k \in stored : Author = a}
    <3> DEFINE f == Submissions(a)
    <3>1. /\ C(f) /\ f.key = {} /\ f.by = {a} /\ f.context = {} /\ f.inReplyTo = {}
          /\ f.content = {} /\ f.depth = 0
      BY DEF Submissions, NoFilter
    <3>2. \A k : NotDeeper(k, f)
      BY <3>1 DEF NotDeeper
    <3>3. f.by # {} /\ (Author \in f.by <=> Author = a)
      BY <3>1
    <3> HIDE DEF f, C
    <3>4. Selected(f) = {k \in stored : Author = a}
      BY <1>1, <3>1, <3>2, <3>3
    <3> QED
      BY <3>4 DEF f
  <2> QED
    BY <2>1, FilterAssumption
<1>3. ASSUME NEW text \in SUBSET stored
      PROVE  Selected(Tagged(text)) = text
  <2> DEFINE f == Tagged(text)
  <2>1. /\ C(f) /\ f.key = {} /\ f.by = {} /\ f.context = {} /\ f.inReplyTo = {}
        /\ f.content = {text} /\ f.depth = 0
    BY DEF Tagged, NoFilter
  <2>2. \A k : NotDeeper(k, f)
    BY <2>1 DEF NotDeeper
  <2>3. f.content # {} /\ \A k : (\E s \in f.content : k \in s) <=> k \in text
    BY <2>1
  <2> HIDE DEF f, C
  <2>4. Selected(f) = {k \in stored : k \in text}
    BY <1>1, <2>1, <2>2, <2>3
  <2> QED
    BY <2>4 DEF f
<1>4. ASSUME NEW text \in SUBSET stored
      PROVE  Selected(FromDomain(text)) = text \cap Threads
  <2> DEFINE f == FromDomain(text)
  <2>1. /\ C(f) /\ f.key = {} /\ f.by = {} /\ f.context = {Top} /\ f.inReplyTo = {}
        /\ f.content = {text} /\ f.depth = 0
    BY DEF FromDomain, NoFilter
  <2>2. \A k : NotDeeper(k, f)
    BY <2>1 DEF NotDeeper
  <2> HIDE DEF f, C
  <2>3. Selected(f) = text \cap Threads
    BY <1>1, <2>1, <2>2, ThreadsHaveNoPath
  <2> QED
    BY <2>3 DEF f
<1>5. ASSUME NEW k \in stored, NEW by \in {{}, {Author}}
      PROVE  Selected(OneItem(k, by)) = {k}
  <2> DEFINE f == OneItem(k, by)
  <2>1. /\ C(f) /\ f.key = {k} /\ f.by = by /\ f.context = {} /\ f.inReplyTo = {}
        /\ f.content = {} /\ f.depth = 0
    BY DEF OneItem, NoFilter
  <2>2. \A j : NotDeeper(j, f)
    BY <2>1 DEF NotDeeper
  <2> HIDE DEF f, C
  <2>3. Selected(f) = {k}
    BY <1>1, <2>1, <2>2
  <2> QED
    BY <2>3 DEF f
<1>6. ASSUME NEW k \in stored
      PROVE  Selected(Comments(k)) = Below(k, Depth)
  <2> DEFINE f == Comments(k)
  <2>0. k # Top /\ Depth \in Nat \ {0}
    BY FilterAssumption DEF TypeOK
  <2>1. /\ C(f) /\ f.key = {} /\ f.by = {} /\ f.context = {k} /\ f.inReplyTo = {}
        /\ f.content = {} /\ f.depth = Depth
    BY DEF Comments, NoFilter
  <2> HIDE DEF f, C
  <2>2. \A j : InContext(j, k) <=> j \in Context(k)
    BY <2>0 DEF InContext
  <2>3. (f.context \union f.inReplyTo) \ {Top} = {k}
    BY <2>0, <2>1
  <2>4. \A j : NotDeeper(j, f) <=> Len(path[j]) <= Len(path[k]) + Depth
    BY <2>0, <2>1, <2>3 DEF NotDeeper
  <2>5. Selected(f) = {j \in stored : /\ j \in Context(k)
                                      /\ Len(path[j]) <= Len(path[k]) + Depth}
    BY <1>1, <2>1, <2>2, <2>4
  <2>6. Context(k) \subseteq stored
    BY DEF Context
  <2>7. Selected(f) = Below(k, Depth)
    BY <2>0, <2>5, <2>6, BelowByDepth
  <2> QED
    BY <2>7 DEF f
<1>7. ASSUME NEW k \in stored
      PROVE  Selected(Replies(k)) = Below(k, 1)
  <2> DEFINE f == Replies(k)
  <2>1. /\ C(f) /\ f.key = {} /\ f.by = {} /\ f.context = {} /\ f.inReplyTo = {k}
        /\ f.content = {} /\ f.depth = 0
    BY DEF Replies, NoFilter
  <2>2. \A j : NotDeeper(j, f)
    BY <2>1 DEF NotDeeper
  <2> HIDE DEF f, C
  <2>3. Selected(f) = {j \in stored : path[j] = ChildPath(k)}
    BY <1>1, <2>1, <2>2 DEF RepliesTo
  <2>4. ASSUME NEW j \in stored
        PROVE  path[j] = ChildPath(k) <=> replyTo[j] = k
    <3>1. path[j] \in Seq(Keys) /\ path[k] \in Seq(Keys) /\ k \in Keys /\ k # NoKey
      BY NoKeyAssumption DEF TypeOK
    <3>2. ASSUME path[j] = Append(path[k], k)
          PROVE  replyTo[j] = k
      <4>1. path[j] # <<>> /\ path[j][Len(path[j])] = k
        BY <3>1, <3>2, AppendPath
      <4> QED
        BY <4>1, ReplyHasAncestors
    <3>3. ASSUME replyTo[j] = k
          PROVE  path[j] = Append(path[k], k)
      <4>1. /\ path[j] # <<>> /\ k = path[j][Len(path[j])]
            /\ path[k] = SubSeq(path[j], 1, Len(path[j]) - 1)
        BY <3>1, <3>3, ReplyHasAncestors
      <4> QED
        BY <3>1, <4>1
    <3> QED
      BY <3>2, <3>3 DEF ChildPath
  <2>5. Selected(f) = Below(k, 1)
    BY <2>3, <2>4, RepliesAreBelow
  <2> QED
    BY <2>5 DEF f
<1> QED
  BY <1>2, <1>3, <1>4, <1>5, <1>6, <1>7

\* What "followed" shows besides what the reader voted on: an item that has a
\* reply to a reply in its thread has one to one of its own replies.
LEMMA RepliesToReplies ==
  ASSUME TypeOK, ThreadsAgree, ParentIsReplyTo, NEW k \in Threads
  PROVE  (\E j \in stored : Len(path[j]) > 1 /\ path[j][1] = k)
           <=> \E j \in Below(k, 1) : Below(j, 1) # {}
<1>1. k \in stored /\ path[k] = <<>>
  BY ReplyHasAncestors DEF Threads
<1>2. ASSUME NEW j \in stored, Len(path[j]) > 1, path[j][1] = k
      PROVE  \E x \in Below(k, 1) : Below(x, 1) # {}
  <2> DEFINE x == path[j][2]
             y == IF Len(path[j]) = 2 THEN j ELSE path[j][3]
  <2>1. path[j] \in Seq(Keys) /\ Len(path[j]) \in Nat
    BY DEF TypeOK
  <2>0. \A n \in 1..Len(path[j]) :
          path[j][n] \in stored /\ path[path[j][n]] = SubSeq(path[j], 1, n - 1)
    BY DEF ThreadsAgree
  <2>2. x \in stored /\ path[x] = SubSeq(path[j], 1, 1)
    <3>1. 2 \in 1..Len(path[j]) /\ 2 - 1 = 1
      BY <1>2, <2>1
    <3>2. path[path[j][2]] = SubSeq(path[j], 1, 2 - 1)
      BY <2>0, <3>1
    <3> QED
      BY <2>0, <3>1, <3>2
  <2>3. y \in stored /\ path[y] = SubSeq(path[j], 1, 2)
    <3>1. CASE Len(path[j]) = 2
      BY <2>1, <3>1
    <3>2. CASE Len(path[j]) # 2
      <4>1. 3 \in 1..Len(path[j]) /\ 3 - 1 = 2
        <5> DEFINE l == Len(path[j])
        <5>1. l \in Nat /\ l > 1 /\ l # 2
          BY <1>2, <2>1, <3>2
        <5> HIDE DEF l
        <5>2. 3 \in 1..l /\ 3 - 1 = 2
          BY <5>1
        <5> QED
          BY <5>2 DEF l
      <4>2. path[path[j][3]] = SubSeq(path[j], 1, 3 - 1)
        BY <2>0, <4>1
      <4> QED
        BY <2>0, <3>2, <4>1, <4>2
    <3> QED
      BY <3>1, <3>2
  <2>4. /\ path[x] # <<>> /\ path[x][Len(path[x])] = k
        /\ path[y] # <<>> /\ path[y][Len(path[y])] = x
    BY <1>2, <2>1, <2>2, <2>3
  <2> HIDE DEF x, y
  <2>5. replyTo[x] = k /\ replyTo[y] = x
    BY <2>2, <2>3, <2>4, ReplyHasAncestors
  <2>6. x \in Below(k, 1) /\ y \in Below(x, 1)
    BY <1>1, <2>2, <2>3, <2>5, RepliesAreBelow
  <2> QED
    BY <2>6
<1>3. ASSUME NEW x \in Below(k, 1), Below(x, 1) # {}
      PROVE  \E j \in stored : Len(path[j]) > 1 /\ path[j][1] = k
  <2>1. x \in stored /\ replyTo[x] = k
    BY <1>1, RepliesAreBelow
  <2>2. PICK j \in stored : replyTo[j] = x
    BY <1>3, <2>1, RepliesAreBelow
  <2>3. path[x] \in Seq(Keys) /\ path[j] \in Seq(Keys) /\ k # NoKey /\ x # NoKey
    BY <1>1, <2>1, <2>2, NoKeyAssumption DEF TypeOK
  <2>4. /\ path[x] # <<>> /\ path[x][Len(path[x])] = k
        /\ path[k] = SubSeq(path[x], 1, Len(path[x]) - 1)
    BY <2>1, <2>3, ReplyHasAncestors
  <2>5. path[j] # <<>> /\ path[x] = SubSeq(path[j], 1, Len(path[j]) - 1)
    BY <2>2, <2>3, ReplyHasAncestors
  <2>6. Len(path[x]) = 1
    <3>1. Len(path[x]) \in Nat \ {0}
      BY <2>3, <2>4
    <3>2. Len(path[k]) = Len(path[x]) - 1
      BY <2>3, <2>4, <3>1
    <3>3. Len(path[k]) = 0
      BY <1>1
    <3> DEFINE l == Len(path[x])
               n == Len(path[k])
    <3>4. l \in Nat \ {0} /\ n = l - 1 /\ n = 0
      BY <3>1, <3>2, <3>3
    <3> HIDE DEF l, n
    <3>5. l = 1
      BY <3>4
    <3> QED
      BY <3>5 DEF l
  <2>7. Len(path[j]) = 2 /\ path[j][1] = path[x][1]
    BY <2>3, <2>5, <2>6
  <2>8. path[x][1] = k
    BY <2>4, <2>6
  <2>9. \A l : l = 2 => l > 1
    OBVIOUS
  <2> QED
    BY <2>2, <2>7, <2>8, <2>9
<1> QED
  BY <1>2, <1>3

\* Every page shows the items it is about, whatever is stored and however deep
\* the threads and the page are.
THEOREM PagesShow == Spec => []PagesShowTheirItems
<1>1. TypeOK /\ ThreadsAgree /\ ParentIsReplyTo => PagesShowTheirItems
  <2> SUFFICES ASSUME TypeOK, ThreadsAgree, ParentIsReplyTo
               PROVE  PagesShowTheirItems
    OBVIOUS
  <2> DEFINE shown(f) == Answer(LoadItems(f))
             open == {k \in Threads : ~deleted[k]}
  <2>1. shown(Index) = open /\ shown(Federated) = {}
    BY PageFilters, ShownIsSelected, IndexShows
  <2>2. ASSUME NEW a \in {Author, Other}
        PROVE  shown(Followed(a)) = {k \in open : Follows(k, a)}
    BY PageFilters, ShownIsSelected, IndexShows
  <2>3. shown(Followed(Other)) = {}
    BY <2>2, FilterAssumption DEF Follows
  <2>4. shown(Followed(Author)) =
          {k \in open : k \in voted \/ \E j \in Below(k, 1) : Below(j, 1) # {}}
    <3>1. \A k \in Threads :
            Follows(k, Author)
              <=> k \in voted \/ \E j \in Below(k, 1) : Below(j, 1) # {}
      BY RepliesToReplies DEF Follows
    <3> QED
      BY <2>2, <3>1
  <2>5. shown(Submissions(Author)) = stored /\ shown(Submissions(Other)) = {}
    BY PageFilters, ShownIsSelected, ListsShow
  <2>6. ASSUME NEW text \in SUBSET stored
        PROVE  /\ shown(Tagged(text)) = text
               /\ shown(FromDomain(text)) = text \cap Threads
               /\ text # {} => SelectedVotes({Author}, text) = voted \cap text
    BY PageFilters, ShownIsSelected, ListsShow DEF SelectedVotes
  <2>7. ASSUME NEW k \in stored
        PROVE  /\ shown(Comments(k)) = Below(k, Depth)
               /\ \A by \in {{}, {Author}} : Answer(LoadItem(OneItem(k, by))) = {k}
               /\ Selected(Replies(k)) = Below(k, 1)
    BY PageFilters, ShownIsSelected, ListsShow
  <2> QED
    BY <2>1, <2>3, <2>4, <2>5, <2>6, <2>7 DEF PagesShowTheirItems
<1> QED
  BY <1>1, TypeCorrect, ThreadsAreTrees, ParentsAreReplied, PTL
-----------------------------------------------------------------------------
\* What ShowItem hands to reparentComments: the item of a page at place 0 and
\* the comments it loaded after it, in any order; and, for each place, where
\* the parent of the comment is found (parFn, lines 148-155), or none.
PageOf(k, n) ==
  {place \in [0..n -> {k} \union Answer(LoadItems(Comments(k)))] : place[0] = k}

FoundAt(place, n, c) == {p \in 0..n : place[p] = replyTo[place[c]]}

RepliesOnPage(place, n, none) ==
  [c \in 0..n |-> IF FoundAt(place, n, c) = {} THEN none
                  ELSE CHOOSE p \in FoundAt(place, n, c) : TRUE]

\* The input that module CommentTree assumes: its Threads and its Acyclic, for
\* the n comments of a page.
IsThread(r, n, none) ==
  /\ r \in [0..n -> 0..n \union {none}]
  /\ r[0] = none
  /\ \A S \in SUBSET (0..n) : S # {} => \E c \in S : r[c] \notin S

PagesAreThreads(none) ==
  \A k \in stored, n \in Nat : \A place \in PageOf(k, n) :
    IsThread(RepliesOnPage(place, n, none), n, none)

\* A reply has a longer path than what it replied to.
LEMMA RepliesAreDeeper ==
  ASSUME TypeOK, ThreadsAgree, ParentIsReplyTo, NEW j \in stored, replyTo[j] \in stored
  PROVE  Len(path[replyTo[j]]) < Len(path[j])
<1> DEFINE p == replyTo[j]
           l == Len(path[j])
           n == Len(path[p])
<1>1. path[j] \in Seq(Keys) /\ p # NoKey
  BY NoKeyAssumption DEF TypeOK
<1>2. path[j] # <<>> /\ path[p] = SubSeq(path[j], 1, l - 1)
  BY <1>1, ReplyHasAncestors
<1>3. l \in Nat \ {0} /\ n = l - 1
  BY <1>1, <1>2
<1> HIDE DEF l, n
<1>4. n < l
  BY <1>3
<1> QED
  BY <1>4 DEF l, n

\* So no items stored replied to one another in a circle: one of those with the
\* shortest path in a set did not reply to any other in it.
LEMMA NoCircle ==
  ASSUME TypeOK, ThreadsAgree, ParentIsReplyTo, NEW T \in SUBSET stored, T # {}
  PROVE  \E j \in T : replyTo[j] \notin T
<1> DEFINE D == {Len(path[j]) : j \in T}
<1>1. \A j \in stored : Len(path[j]) \in Nat
  BY DEF TypeOK
<1>2. D \in SUBSET Nat /\ D # {}
  BY <1>1
<1>3. PICK d \in D : \A e \in D : d <= e
  <2> HIDE DEF D
  <2> QED
    BY <1>2, LeastNumber
<1>4. PICK j \in T : d = Len(path[j])
  BY <1>3
<1>5. ASSUME replyTo[j] \in T
      PROVE  FALSE
  <2>1. Len(path[replyTo[j]]) < Len(path[j])
    BY <1>5, RepliesAreDeeper
  <2>2. Len(path[replyTo[j]]) \in D
    BY <1>5
  <2>3. Len(path[replyTo[j]]) \in Nat /\ Len(path[j]) \in Nat
    BY <1>1, <1>5
  <2>4. Len(path[j]) <= Len(path[replyTo[j]])
    BY <1>3, <1>4, <2>2
  <2> QED
    BY <2>1, <2>3, <2>4
<1> QED
  BY <1>5

\* What an item replied to is not below it.
LEMMA ItemOnTop ==
  ASSUME TypeOK, ThreadsAgree, ParentIsReplyTo, NEW k \in stored
  PROVE  replyTo[k] \notin {k} \union Below(k, Depth)
<1> SUFFICES ASSUME replyTo[k] \in {k} \union Below(k, Depth)
             PROVE  FALSE
  OBVIOUS
<1> DEFINE p == replyTo[k]
<1>1. Depth \in Nat
  BY FilterAssumption
<1>2. Below(k, Depth) \subseteq Context(k)
  BY <1>1, BelowByDepth
<1>3. Context(k) \subseteq stored
  BY DEF Context
<1>4. p \in stored
  BY <1>2, <1>3
<1>5. Len(path[p]) < Len(path[k])
  BY <1>4, RepliesAreDeeper
<1>6. Len(path[p]) \in Nat /\ Len(path[k]) \in Nat
  BY <1>4 DEF TypeOK
<1>7. p # k
  <2>1. \A n \in Nat : ~ (n < n)
    OBVIOUS
  <2> QED
    BY <1>5, <1>6, <2>1
<1>8. PICK i \in 1..Len(path[p]) : path[p][i] = k
  BY <1>2, <1>4, <1>7, TreesHaveSubtrees DEF ContextIsSubtree
<1>9. path[k] = SubSeq(path[p], 1, i - 1)
  BY <1>4, <1>8 DEF ThreadsAgree
<1>10. path[p] \in Seq(Keys)
  BY <1>4 DEF TypeOK
<1>11. Len(path[k]) = i - 1
  BY <1>6, <1>8, <1>9, <1>10
<1> DEFINE l == Len(path[k])
           n == Len(path[p])
<1>12. l \in Nat /\ n \in Nat /\ i \in 1..n /\ n < l /\ l = i - 1
  BY <1>5, <1>6, <1>8, <1>11
<1> HIDE DEF l, n
<1> QED
  BY <1>12

\* Whatever page of the site is rendered, its comments are a thread as module
\* CommentTree takes them: each has at most one parent on the page, the item of
\* the page has none, and going up from a comment ends.  So what is proved there
\* of every thread holds of every page that the stored items can make.
THEOREM PageIsThread ==
  ASSUME NEW none, none \notin Int
  PROVE  Spec => []PagesAreThreads(none)
<1>1. TypeOK /\ ThreadsAgree /\ ParentIsReplyTo => PagesAreThreads(none)
  <2> SUFFICES ASSUME TypeOK, ThreadsAgree, ParentIsReplyTo,
                      NEW k \in stored, NEW n \in Nat, NEW place \in PageOf(k, n)
               PROVE  IsThread(RepliesOnPage(place, n, none), n, none)
    BY DEF PagesAreThreads
  <2> DEFINE r == RepliesOnPage(place, n, none)
  <2>1. /\ place \in [0..n -> {k} \union Below(k, Depth)]
        /\ place[0] = k
    BY PageFilters, ShownIsSelected, ListsShow DEF PageOf
  <2>2. Below(k, Depth) \subseteq stored
    BY FilterAssumption, BelowByDepth DEF Context
  <2>3. ASSUME NEW c \in 0..n
        PROVE  \/ r[c] = none /\ FoundAt(place, n, c) = {}
               \/ r[c] \in 0..n /\ place[r[c]] = replyTo[place[c]]
    BY DEF RepliesOnPage, FoundAt
  <2>4. r \in [0..n -> 0..n \union {none}]
    BY <2>3 DEF RepliesOnPage
  <2>5. r[0] = none
    <3>1. 0 \in 0..n
      OBVIOUS
    <3>2. ASSUME r[0] \in 0..n, place[r[0]] = replyTo[place[0]]
          PROVE  FALSE
      <4>1. replyTo[k] \notin {k} \union Below(k, Depth)
        BY ItemOnTop
      <4> HIDE DEF r
      <4> QED
        BY <2>1, <3>2, <4>1
    <3> HIDE DEF r
    <3> QED
      BY <2>3, <3>1, <3>2
  <2>6. ASSUME NEW S \in SUBSET (0..n), S # {}
        PROVE  \E c \in S : r[c] \notin S
    <3> DEFINE T == {place[c] : c \in S}
    <3>1. T \in SUBSET stored /\ T # {}
      BY <2>1, <2>2, <2>6
    <3>2. PICK c \in S : replyTo[place[c]] \notin T
      <4>1. \E j \in T : replyTo[j] \notin T
        <5> HIDE DEF T
        <5> QED
          BY <3>1, NoCircle
      <4> QED
        BY <4>1
    <3>3. r[c] \notin S
      <4> HIDE DEF r
      <4>1. ASSUME r[c] \in S
            PROVE  FALSE
        <5>1. r[c] \in 0..n /\ c \in 0..n
          BY <2>6, <4>1
        <5>2. r[c] # none
          BY <5>1
        <5>3. place[r[c]] = replyTo[place[c]]
          BY <2>3, <5>1, <5>2
        <5> QED
          BY <3>2, <4>1, <5>3
      <4> QED
        BY <4>1
    <3> QED
      BY <3>3
  <2> HIDE DEF r
  <2>7. IsThread(r, n, none)
    BY <2>4, <2>5, <2>6 DEF IsThread
  <2> QED
    BY <2>7 DEF r
<1> QED
  BY <1>1, TypeCorrect, ThreadsAreTrees, ParentsAreReplied, PTL
=============================================================================
