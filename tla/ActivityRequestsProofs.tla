----------------------- MODULE ActivityRequestsProofs -----------------------
(***************************************************************************)
(* Proofs about ActivityRequests, for any sets of actors and requests.     *)
(***************************************************************************)
EXTENDS ActivityRequests, TLAPS

Validated == {"sign", "save", "saveWithActor", "actor", "content"}
Handled == Validated \union {"validate"}

\* What a request that got this far can rely on.
RequestInv ==
  /\ acc # NoOne => acc \in {sender[s] : s \in Requests}
  /\ \A r \in Requests :
       /\ pc[r] \in Handled => acc # NoOne
       /\ pc[r] \in Validated => body[r] \in Activities
       /\ pc[r] \in {"sign", "save", "content"} => body[r].actor \in accounts
       /\ pc[r] # "done" => answer[r] = "none"
       /\ author[r] \in accounts \union {NoOne}
       /\ r \notin content => author[r] = NoOne
       /\ pc[r] \in Validated /\ ObjectFails(body[r]) => broken[r] \/ r \in saved

\* With one request at a time the account in the handler is that of the request
\* that is under way.
SerialInv ==
  overlap \/ \A r \in Requests :
    /\ pc[r] \notin {"new", "done"} =>
         /\ \A s \in Requests \ {r} : pc[s] \in {"new", "done"}
         /\ sender[r] # NoOne => acc = sender[r]
    /\ box[r] = "outbox" =>
         /\ pc[r] \notin {"saveWithActor", "actor"}
         /\ pc[r] \in {"save", "content"} => body[r].actor = acc
    /\ r \in saved /\ pc[r] # "done" => pc[r] = "content" /\ body[r].actor = acc

LEMMA TypeStep == TypeOK /\ RequestInv /\ [Next \/ Idle]_vars => TypeOK'
<1> SUFFICES ASSUME TypeOK, RequestInv, [Next \/ Idle]_vars PROVE TypeOK'
  OBVIOUS
<1> USE ActorsAssumption DEF TypeOK, Labels, Answers, Goto, Going, stable, history
<1>1. CASE UNCHANGED vars
  BY <1>1 DEF vars, progress
<1>2. CASE Idle
  BY <1>2 DEF Idle, vars, progress
<1>3. ASSUME NEW r \in Requests, LoadAccountFromAuthHeader(r) PROVE TypeOK'
  BY <1>3 DEF LoadAccountFromAuthHeader
<1>4. ASSUME NEW r \in Requests, VerifyAuthHeader(r) PROVE TypeOK'
  BY <1>4 DEF VerifyAuthHeader, Refuse, Answer
<1>5. ASSUME NEW r \in Requests, LoadActivityFails(r) PROVE TypeOK'
  BY <1>5 DEF LoadActivityFails, Refuse, Answer
<1>6. ASSUME NEW r \in Requests, NEW a \in Activities,
             ValidateOutboxActivity(r, a)
      PROVE  TypeOK'
  BY <1>6 DEF ValidateOutboxActivity, Refuse, Answer
<1>7. ASSUME NEW r \in Requests, NEW a \in Activities,
             ValidateInboxActivity(r, a)
      PROVE  TypeOK'
  <2>1. ObjectFails(a) \in BOOLEAN
    BY DEF ObjectFails
  <2> QED BY <1>7, <2>1 DEF ValidateInboxActivity, Refuse, Answer
<1>8. ASSUME NEW r \in Requests, MatchActor(r) PROVE TypeOK'
  BY <1>8 DEF MatchActor, Refuse, Answer
<1>9. ASSUME NEW r \in Requests, SaveActivity(r) PROVE TypeOK'
  BY <1>9 DEF SaveActivity
<1>10. ASSUME NEW r \in Requests, SaveAccount(r) PROVE TypeOK'
  <2>1. acc \in Actors /\ body[r] \in Activities
    BY <1>10 DEF SaveAccount, RequestInv, Handled, Validated
  <2>2. [body[r] EXCEPT !.actor = acc] \in Activities
    BY <2>1 DEF Activities
  <2> QED BY <1>10, <2>1, <2>2 DEF SaveAccount
<1>11. ASSUME NEW r \in Requests, SaveAccountFails(r) PROVE TypeOK'
  BY <1>11 DEF SaveAccountFails, Refuse, Answer
<1>12. ASSUME NEW r \in Requests, AcceptFollow(r) PROVE TypeOK'
  BY <1>12 DEF AcceptFollow, Answer
<1>13. ASSUME NEW r \in Requests, pc[r] = "content", Store(r)
       PROVE  /\ author' \in [Requests -> Actors \union {NoOne}]
              /\ content' \subseteq Requests
  <2>1. body[r] \in Activities
    BY <1>13 DEF RequestInv, Validated
  <2>2. body[r].actor \in Actors
    BY <2>1 DEF Activities
  <2> QED BY <1>13, <2>2 DEF Store
<1>14. ASSUME NEW r \in Requests, SaveContent(r) PROVE TypeOK'
  BY <1>13, <1>14 DEF SaveContent, Answer
<1>15. ASSUME NEW r \in Requests, SaveContentFails(r) PROVE TypeOK'
  BY <1>13, <1>15 DEF SaveContentFails, Answer
<1> QED
  BY <1>1, <1>2, <1>3, <1>4, <1>5, <1>6, <1>7, <1>8, <1>9, <1>10, <1>11, <1>12,
     <1>14, <1>15 DEF Next

LEMMA RequestStep ==
  TypeOK /\ RequestInv /\ [Next \/ Idle]_vars => RequestInv'
<1> SUFFICES ASSUME TypeOK, RequestInv, [Next \/ Idle]_vars PROVE RequestInv'
  OBVIOUS
<1> USE ActorsAssumption
    DEF TypeOK, RequestInv, Handled, Validated, Goto, Going, stable, history
<1>1. CASE UNCHANGED vars
  BY <1>1 DEF vars, progress
<1>2. CASE Idle
  BY <1>2 DEF Idle, vars, progress
<1>3. ASSUME NEW r \in Requests, LoadAccountFromAuthHeader(r)
      PROVE  RequestInv'
  BY <1>3 DEF LoadAccountFromAuthHeader
<1>4. ASSUME NEW r \in Requests, VerifyAuthHeader(r) PROVE RequestInv'
  BY <1>4 DEF VerifyAuthHeader, Verified, Refuse, Answer, Actors
<1>5. ASSUME NEW r \in Requests, LoadActivityFails(r) PROVE RequestInv'
  BY <1>5 DEF LoadActivityFails, Refuse, Answer
<1>6. ASSUME NEW r \in Requests, NEW a \in Activities,
             ValidateOutboxActivity(r, a)
      PROVE  RequestInv'
  BY <1>6 DEF ValidateOutboxActivity, Refuse, Answer
<1>7. ASSUME NEW r \in Requests, NEW a \in Activities,
             ValidateInboxActivity(r, a)
      PROVE  RequestInv'
  BY <1>7 DEF ValidateInboxActivity, Refuse, Answer
<1>8. ASSUME NEW r \in Requests, MatchActor(r) PROVE RequestInv'
  BY <1>8 DEF MatchActor, Refuse, Answer
<1>9. ASSUME NEW r \in Requests, SaveActivity(r) PROVE RequestInv'
  BY <1>9 DEF SaveActivity
<1>10. ASSUME NEW r \in Requests, SaveAccount(r) PROVE RequestInv'
  <2>1. acc \in Actors /\ body[r] \in Activities
    BY <1>10 DEF SaveAccount
  <2>2. /\ [body[r] EXCEPT !.actor = acc] \in Activities
        /\ [body[r] EXCEPT !.actor = acc].actor = acc
    BY <2>1 DEF Activities
  <2> QED BY <1>10, <2>2 DEF SaveAccount
<1>11. ASSUME NEW r \in Requests, SaveAccountFails(r) PROVE RequestInv'
  BY <1>11 DEF SaveAccountFails, Refuse, Answer
<1>12. ASSUME NEW r \in Requests, AcceptFollow(r) PROVE RequestInv'
  BY <1>12 DEF AcceptFollow, Answer
<1>13. ASSUME NEW r \in Requests, SaveContent(r) PROVE RequestInv'
  BY <1>13 DEF SaveContent, Store, Answer
<1>14. ASSUME NEW r \in Requests, SaveContentFails(r) PROVE RequestInv'
  BY <1>14 DEF SaveContentFails, Store, Answer
<1> QED
  BY <1>1, <1>2, <1>3, <1>4, <1>5, <1>6, <1>7, <1>8, <1>9, <1>10, <1>11, <1>12,
     <1>13, <1>14 DEF Next

LEMMA Start == Init => TypeOK /\ RequestInv
  BY ActorsAssumption
  DEF Init, TypeOK, RequestInv, Handled, Validated, Labels, Answers, Actors

\* Type correctness of the requests and the tables they write.
THEOREM TypeCorrect == Spec => []TypeOK
<1>1. Spec => [](TypeOK /\ RequestInv)
  BY Start, TypeStep, RequestStep, PTL DEF Spec
<1> QED BY <1>1, PTL

\* The requests rely on RequestInv in every state.
LEMMA RequestsRely == Spec => []RequestInv
<1>1. Spec => [](TypeOK /\ RequestInv)
  BY Start, TypeStep, RequestStep, PTL DEF Spec
<1> QED BY <1>1, PTL

\* However requests overlap, whoever an item or vote is attributed to has an
\* account.
THEOREM AuthorsExist == Spec => []AuthorHasAccount
<1>1. TypeOK /\ RequestInv => AuthorHasAccount
  BY DEF TypeOK, RequestInv, AuthorHasAccount
<1> QED BY <1>1, TypeCorrect, RequestsRely, PTL

\* However requests overlap, accounts are made only for accounts that signed a
\* request.
THEOREM AccountsSigned == Spec => []AccountsAreSenders
<1>1. Init => AccountsAreSenders
  BY DEF Init, AccountsAreSenders
<1>2. /\ TypeOK /\ RequestInv /\ AccountsAreSenders /\ [Next \/ Idle]_vars
      => AccountsAreSenders'
  <2> SUFFICES ASSUME TypeOK, RequestInv, AccountsAreSenders,
                      [Next \/ Idle]_vars
               PROVE  AccountsAreSenders'
    OBVIOUS
  <2>1. sender' = sender
    BY DEF Next, Idle, vars, stable, progress, Going, LoadAccountFromAuthHeader,
       VerifyAuthHeader, LoadActivityFails, ValidateOutboxActivity,
       ValidateInboxActivity, MatchActor, SaveActivity, SaveAccount,
       SaveAccountFails, AcceptFollow, SaveContent, SaveContentFails, Refuse
  <2>2. CASE accounts' = accounts
    BY <2>1, <2>2 DEF AccountsAreSenders
  <2>3. ASSUME NEW r \in Requests, SaveAccount(r) PROVE AccountsAreSenders'
    BY <2>1, <2>3
    DEF AccountsAreSenders, RequestInv, Handled, SaveAccount, Validated
  <2> QED
    BY <2>2, <2>3
    DEF Next, Idle, vars, LoadAccountFromAuthHeader, VerifyAuthHeader,
       LoadActivityFails, ValidateOutboxActivity, ValidateInboxActivity,
       MatchActor, SaveActivity, SaveAccountFails, AcceptFollow, SaveContent,
       SaveContentFails
<1> QED BY <1>1, <1>2, TypeCorrect, RequestsRely, PTL DEF Spec

\* A request answered as stored did store its item or vote, and one with an
\* invalid object is answered with success only after saving an account.
THEOREM StoredIfAnswered == Spec => []SuccessIsStored
<1>1. Init => SuccessIsStored
  BY DEF Init, SuccessIsStored
<1>2. /\ TypeOK /\ RequestInv /\ SuccessIsStored /\ [Next \/ Idle]_vars
      => SuccessIsStored'
  <2> SUFFICES ASSUME TypeOK, RequestInv, SuccessIsStored, [Next \/ Idle]_vars
               PROVE  SuccessIsStored'
    OBVIOUS
  <2> USE DEF TypeOK, RequestInv, Validated, SuccessIsStored, Goto, Going,
          stable, history
  <2>1. CASE UNCHANGED <<answer, content, body, saved>>
    BY <2>1
  <2>2. ASSUME NEW r \in Requests, Refuse(r), UNCHANGED saved
        PROVE  SuccessIsStored'
    BY <2>2 DEF Refuse, Answer
  <2>3. ASSUME NEW r \in Requests, NEW a \in Activities,
               ValidateInboxActivity(r, a)
        PROVE  SuccessIsStored'
    BY <2>2, <2>3 DEF ValidateInboxActivity
  <2>4. ASSUME NEW r \in Requests, SaveAccount(r) PROVE SuccessIsStored'
    BY <2>4 DEF SaveAccount
  <2>5. ASSUME NEW r \in Requests, AcceptFollow(r) PROVE SuccessIsStored'
    BY <2>5 DEF AcceptFollow, Answer
  <2>6. ASSUME NEW r \in Requests, SaveContent(r) PROVE SuccessIsStored'
    BY <2>6 DEF SaveContent, Store, Answer
  <2>7. ASSUME NEW r \in Requests, SaveContentFails(r) PROVE SuccessIsStored'
    BY <2>7 DEF SaveContentFails, Store, Answer
  <2> QED
    BY <2>1, <2>2, <2>3, <2>4, <2>5, <2>6, <2>7
    DEF Next, Idle, vars, progress, LoadAccountFromAuthHeader,
       VerifyAuthHeader, LoadActivityFails, ValidateOutboxActivity, MatchActor,
       SaveActivity, SaveAccountFails
<1> QED BY <1>1, <1>2, TypeCorrect, RequestsRely, PTL DEF Spec

LEMMA SerialStep ==
  TypeOK /\ RequestInv /\ SerialInv /\ [Next \/ Idle]_vars => SerialInv'
<1> SUFFICES ASSUME TypeOK, RequestInv, SerialInv, [Next \/ Idle]_vars, ~overlap'
             PROVE  SerialInv'
  BY DEF SerialInv
<1> USE DEF TypeOK, SerialInv, Goto, Going, stable, history
<1>1. CASE UNCHANGED vars
  BY <1>1 DEF vars, progress
<1>2. CASE Idle
  BY <1>2 DEF Idle, vars, progress
<1>3. ASSUME NEW r \in Requests, LoadAccountFromAuthHeader(r) PROVE SerialInv'
  <2>1. ~overlap /\ \A s \in Requests : pc[s] \in {"new", "done"}
    BY <1>3 DEF LoadAccountFromAuthHeader
  <2>2. /\ pc' = [pc EXCEPT ![r] = "verify"] /\ pc[r] = "new"
        /\ sender[r] # NoOne => acc' = sender[r]
        /\ UNCHANGED <<box, sender, body, saved>>
    BY <1>3 DEF LoadAccountFromAuthHeader
  <2>3. \A s \in saved : pc[s] = "done" /\ s # r
    BY <2>1, <2>2
  <2> QED BY <2>1, <2>2, <2>3
<1>4. ASSUME NEW r \in Requests, VerifyAuthHeader(r) PROVE SerialInv'
  BY <1>4 DEF VerifyAuthHeader, Refuse, Answer
<1>5. ASSUME NEW r \in Requests, LoadActivityFails(r) PROVE SerialInv'
  BY <1>5 DEF LoadActivityFails, Refuse, Answer
<1>6. ASSUME NEW r \in Requests, NEW a \in Activities,
             ValidateOutboxActivity(r, a)
      PROVE  SerialInv'
  BY <1>6 DEF ValidateOutboxActivity, Refuse, Answer
<1>7. ASSUME NEW r \in Requests, NEW a \in Activities,
             ValidateInboxActivity(r, a)
      PROVE  SerialInv'
  BY <1>7 DEF ValidateInboxActivity, Refuse, Answer
<1>8. ASSUME NEW r \in Requests, MatchActor(r) PROVE SerialInv'
  BY <1>8 DEF MatchActor, Refuse, Answer
<1>9. ASSUME NEW r \in Requests, SaveActivity(r) PROVE SerialInv'
  BY <1>9 DEF SaveActivity
<1>10. ASSUME NEW r \in Requests, SaveAccount(r) PROVE SerialInv'
  <2>1. body'[r].actor = acc
    <3>1. acc \in Actors /\ body[r] \in Activities
      BY <1>10 DEF SaveAccount, RequestInv, Handled, Validated
    <3> QED BY <1>10, <3>1 DEF SaveAccount, Activities
  <2> QED BY <1>10, <2>1 DEF SaveAccount
<1>11. ASSUME NEW r \in Requests, SaveAccountFails(r) PROVE SerialInv'
  BY <1>11 DEF SaveAccountFails, Refuse, Answer
<1>12. ASSUME NEW r \in Requests, AcceptFollow(r) PROVE SerialInv'
  BY <1>12 DEF AcceptFollow, Answer
<1>13. ASSUME NEW r \in Requests, SaveContent(r) PROVE SerialInv'
  BY <1>13 DEF SaveContent, Answer
<1>14. ASSUME NEW r \in Requests, SaveContentFails(r) PROVE SerialInv'
  BY <1>14 DEF SaveContentFails, Answer
<1> QED
  BY <1>1, <1>2, <1>3, <1>4, <1>5, <1>6, <1>7, <1>8, <1>9, <1>10, <1>11, <1>12,
     <1>13, <1>14 DEF Next

\* While no request begins before the one under way has ended, what is stored
\* through an outbox or after saving an account is attributed to the account
\* that the header of the request names, or the last header that named one.
THEOREM SerialAuthors == Spec => SerialAuthor
<1> DEFINE Own(r) == {NoOne, IF sender[r] = NoOne THEN acc ELSE sender[r]}
           Right == \A r \in content' \ content :
                      ~overlap /\ (box[r] = "outbox" \/ r \in saved) =>
                        author'[r] \in Own(r)
<1>1. Init => SerialInv
  BY DEF Init, SerialInv
<1>2. TypeOK /\ RequestInv /\ SerialInv /\ [Next \/ Idle]_vars => SerialInv'
  BY SerialStep
<1>3. TypeOK /\ RequestInv /\ SerialInv /\ [Next \/ Idle]_vars => [Right]_vars
  <2> SUFFICES ASSUME TypeOK, RequestInv, SerialInv, Next \/ Idle
               PROVE  Right
    BY DEF vars, progress
  <2>1. CASE content' = content
    BY <2>1
  <2>2. ASSUME NEW r \in Requests, pc[r] = "content", Store(r)
        PROVE  Right
    <3> SUFFICES ASSUME r \notin content, ~overlap,
                        box[r] = "outbox" \/ r \in saved
                 PROVE  author'[r] \in Own(r)
      BY <2>2 DEF Store
    <3>1. body[r].actor = acc /\ author[r] = NoOne
      BY <2>2 DEF RequestInv, SerialInv
    <3>2. sender[r] # NoOne => acc = sender[r]
      BY <2>2 DEF SerialInv
    <3>3. author'[r] \in {NoOne, body[r].actor}
      BY <2>2, <3>1 DEF Store, TypeOK
    <3> QED BY <3>1, <3>2, <3>3
  <2> QED
    BY <2>1, <2>2
    DEF Next, Idle, vars, progress, Going, LoadAccountFromAuthHeader,
        VerifyAuthHeader, LoadActivityFails, ValidateOutboxActivity,
        ValidateInboxActivity, MatchActor, SaveActivity, SaveAccount,
        SaveAccountFails, AcceptFollow, SaveContent, SaveContentFails, Refuse
<1> QED
  BY <1>1, <1>2, <1>3, TypeCorrect, RequestsRely, PTL DEF Spec, SerialAuthor
=============================================================================
