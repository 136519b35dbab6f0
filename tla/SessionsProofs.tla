--------------------------- MODULE SessionsProofs ---------------------------
(***************************************************************************)
(* Proofs about OAuthStore and Sessions, for any sets of browsers,         *)
(* accounts, codes and token requests: first what holds of the tables by   *)
(* themselves; then that Sessions implements them, so that it holds under  *)
(* the sessions too; then that the accounts which requests leave for each  *)
(* other are those that logged in, and that a session and its token are of *)
(* one account.                                                            *)
(***************************************************************************)
EXTENDS Sessions, TLAPS

\* Every step keeps the types.
LEMMA StepKeepsTypeOK ==
  ASSUME TypeOK, [Next]_vars
  PROVE  TypeOK'
<1> USE NoCodeAssumption DEF TypeOK, Goto, LeftBehind
<1>1. ASSUME NEW c \in Codes, SaveAuthorize(c) \/ Expire(c)
      PROVE  TypeOK'
  BY <1>1 DEF SaveAuthorize, Expire
<1>2. ASSUME NEW c \in Codes, NEW r \in Requests, HandleAccessRequest(r, c)
      PROVE  TypeOK'
  BY <1>2 DEF HandleAccessRequest
<1>3. ASSUME NEW r \in Requests, SaveAccess(r)
      PROVE  TypeOK'
  BY <1>3 DEF SaveAccess
<1>4. ASSUME NEW r \in Requests, SaveAccessFails(r) \/ RemoveAuthorize(r)
      PROVE  TypeOK'
  BY <1>4 DEF SaveAccessFails, RemoveAuthorize
<1>5. ASSUME NEW r \in Requests, RemoveAuthorizeFails(r)
      PROVE  TypeOK'
  BY <1>5 DEF RemoveAuthorizeFails
<1>6. ASSUME NEW r \in Requests, HandleCallback(r)
      PROVE  TypeOK'
  BY <1>6 DEF HandleCallback
<1>7. CASE Crash
  BY <1>7 DEF Crash, Running
<1>8. CASE UNCHANGED vars
  BY <1>8 DEF vars
<1> QED
  BY <1>1, <1>2, <1>3, <1>4, <1>5, <1>6, <1>7, <1>8 DEF Next

\* Type correctness of the OAuth tables and of the token requests.
THEOREM TypeCorrect == Spec => []TypeOK
<1>1. Init => TypeOK
  BY NoCodeAssumption DEF Init, TypeOK
<1> QED
  BY <1>1, StepKeepsTypeOK, PTL DEF Spec

\* The rows of access are those of the requests that saved; a request past
\* SaveAccess carries the code its row names; only SaveAccess, after a request
\* was granted, writes a row.
RowInv ==
  /\ \A r \in Requests : pc[r] \in {"saved", "answered", "done"} => access[r] = code[r]
  /\ \A r \in Requests : pc[r] \in {"new", "granted"} => access[r] = NoCode
  /\ session \subseteq {r \in Requests : pc[r] = "done"}

LEMMA StepKeepsRowInv ==
  ASSUME TypeOK, RowInv, [Next]_vars
  PROVE  RowInv'
<1> USE NoCodeAssumption DEF TypeOK, RowInv, Goto
<1>1. ASSUME NEW c \in Codes, SaveAuthorize(c) \/ Expire(c)
      PROVE  RowInv'
  BY <1>1 DEF SaveAuthorize, Expire
<1>2. ASSUME NEW c \in Codes, NEW r \in Requests, HandleAccessRequest(r, c)
      PROVE  RowInv'
  BY <1>2 DEF HandleAccessRequest
<1>3. ASSUME NEW r \in Requests, SaveAccess(r)
      PROVE  RowInv'
  BY <1>3 DEF SaveAccess
<1>4. ASSUME NEW r \in Requests, SaveAccessFails(r) \/ HandleCallback(r)
      PROVE  RowInv'
  BY <1>4 DEF SaveAccessFails, HandleCallback
<1>5. ASSUME NEW r \in Requests, RemoveAuthorize(r) \/ RemoveAuthorizeFails(r)
      PROVE  RowInv'
  BY <1>5 DEF RemoveAuthorize, RemoveAuthorizeFails
<1>6. CASE Crash
  BY <1>6 DEF Crash, Running
<1>7. CASE UNCHANGED vars
  BY <1>7 DEF vars
<1> QED
  BY <1>1, <1>2, <1>3, <1>4, <1>5, <1>6, <1>7 DEF Next

\* The strengthening of SessionTokenIsAccepted: it holds as soon as the request
\* is past RemoveAuthorize, before its token is in a session.  The code a request
\* carries was issued.
AcceptedInv ==
  \A r \in Requests :
    /\ pc[r] # "new" => authorize[code[r]] # "unissued"
    /\ pc[r] \in {"answered", "done"} =>
         authorize[code[r]] = "removed" \/ code[r] \in left

LEMMA StepKeepsAcceptedInv ==
  ASSUME TypeOK, AcceptedInv, [Next]_vars
  PROVE  AcceptedInv'
<1> USE NoCodeAssumption DEF TypeOK, AcceptedInv, Goto, LeftBehind
<1>0. \A r \in Requests : pc[r] # "new" => code[r] \in Codes
  OBVIOUS
<1>1. ASSUME NEW c \in Codes, SaveAuthorize(c) \/ Expire(c)
      PROVE  AcceptedInv'
  BY <1>1 DEF SaveAuthorize, Expire
<1>2. ASSUME NEW c \in Codes, NEW r \in Requests, HandleAccessRequest(r, c)
      PROVE  AcceptedInv'
  BY <1>2 DEF HandleAccessRequest
<1>3. ASSUME NEW r \in Requests, SaveAccess(r) \/ SaveAccessFails(r)
      PROVE  AcceptedInv'
  BY <1>3 DEF SaveAccess, SaveAccessFails
<1>4. ASSUME NEW r \in Requests, HandleCallback(r)
      PROVE  AcceptedInv'
  BY <1>4 DEF HandleCallback
<1>5. ASSUME NEW r \in Requests, RemoveAuthorize(r)
      PROVE  AcceptedInv'
  BY <1>0, <1>5 DEF RemoveAuthorize
<1>6. ASSUME NEW r \in Requests, RemoveAuthorizeFails(r)
      PROVE  AcceptedInv'
  BY <1>0, <1>6 DEF RemoveAuthorizeFails
<1>7. CASE Crash
  BY <1>7 DEF Crash, Running
<1>8. CASE UNCHANGED vars
  BY <1>8 DEF vars
<1> QED
  BY <1>1, <1>2, <1>3, <1>4, <1>5, <1>6, <1>7, <1>8 DEF Next

\* The token of a session is accepted unless a failure left its code behind.
THEOREM SessionsWork == Spec => []SessionTokenIsAccepted
<1>1. Init => RowInv /\ AcceptedInv
  BY NoCodeAssumption DEF Init, RowInv, AcceptedInv
<1>2. TypeOK /\ RowInv /\ AcceptedInv /\ [Next]_vars => RowInv' /\ AcceptedInv'
  BY StepKeepsRowInv, StepKeepsAcceptedInv
<1>3. TypeOK /\ RowInv /\ AcceptedInv => SessionTokenIsAccepted
  BY NoCodeAssumption
  DEF TypeOK, RowInv, AcceptedInv, SessionTokenIsAccepted, LoadAccess, LoadAuthorize
<1> QED
  BY <1>1, <1>2, <1>3, TypeCorrect, PTL DEF Spec

\* Once its row is deleted and nobody holds it, a code buys no further token.
THEOREM SpentForGood == Spec => SpentCodeBuysNothing
<1>1. ASSUME TypeOK, RowInv, [Next]_vars, NEW c \in Codes, Spent(c)
      PROVE  Spent(c)' /\ Bought(c)' = Bought(c)
  <2> USE NoCodeAssumption DEF TypeOK, Spent, Bought, Goto, LoadAuthorize
  <2>1. ASSUME NEW k \in Codes, SaveAuthorize(k) \/ Expire(k)
        PROVE  Spent(c)' /\ Bought(c)' = Bought(c)
    BY <1>1, <2>1 DEF SaveAuthorize, Expire
  <2>2. ASSUME NEW k \in Codes, NEW r \in Requests, HandleAccessRequest(r, k)
        PROVE  Spent(c)' /\ Bought(c)' = Bought(c)
    BY <1>1, <2>2 DEF HandleAccessRequest
  <2>3. ASSUME NEW r \in Requests, SaveAccess(r) \/ SaveAccessFails(r)
        PROVE  Spent(c)' /\ Bought(c)' = Bought(c)
    BY <1>1, <2>3 DEF SaveAccess, SaveAccessFails, RowInv
  <2>4. ASSUME NEW r \in Requests, RemoveAuthorize(r) \/ RemoveAuthorizeFails(r)
        PROVE  Spent(c)' /\ Bought(c)' = Bought(c)
    BY <1>1, <2>4 DEF RemoveAuthorize, RemoveAuthorizeFails
  <2>5. ASSUME NEW r \in Requests, HandleCallback(r)
        PROVE  Spent(c)' /\ Bought(c)' = Bought(c)
    BY <1>1, <2>5 DEF HandleCallback
  <2>6. CASE Crash
    BY <1>1, <2>6 DEF Crash, Running
  <2>7. CASE UNCHANGED vars
    BY <1>1, <2>7 DEF vars
  <2> QED
    BY <1>1, <2>1, <2>2, <2>3, <2>4, <2>5, <2>6, <2>7 DEF Next
<1>2. TypeOK /\ RowInv /\ [Next]_vars =>
        [\A c \in Codes : Spent(c) => Spent(c)' /\ Bought(c)' = Bought(c)]_vars
  BY <1>1
<1>3. Init => RowInv
  BY NoCodeAssumption DEF Init, RowInv
<1>4. TypeOK /\ RowInv /\ [Next]_vars => RowInv'
  BY StepKeepsRowInv
<1> QED
  BY <1>2, <1>3, <1>4, TypeCorrect, PTL DEF Spec, SpentCodeBuysNothing
-----------------------------------------------------------------------------
\* What a session is made of, and what it gives.
LEMMA Values ==
  /\ NoUser \in SessionValues
  /\ defaultAccount \in AccountValues
  /\ \A a \in Users, t \in Requests \union {NoCode} : Kept(a, t) \in SessionValues
  /\ \A s \in SessionValues : [s EXCEPT !.token = NoCode] \in SessionValues
  /\ \A s \in SessionValues : FromSession(s) \subseteq AccountValues
  /\ \A acc \in AccountValues : acc.who \in Users
  /\ \A acc \in AccountValues, a \in Users : [acc EXCEPT !.who = a] \in AccountValues
<1> USE DEF SessionValues, AccountValues, Users, NoUser, defaultAccount
<1>1. ASSUME NEW s \in SessionValues, NEW acc \in FromSession(s)
      PROVE  acc \in AccountValues
  <2>1. CASE acc = defaultAccount
    BY <2>1
  <2>2. CASE s.user /\ acc = [who |-> s.who, loaded |-> TRUE]
    BY <2>2
  <2> QED
    BY <1>1, <2>1, <2>2 DEF FromSession
<1> QED
  BY <1>1 DEF Kept

\* Every step of the sessions is a step of the OAuth tables or leaves them.
LEMMA StepImplements ==
  ASSUME SessionTypeOK, [SessionNext]_sessionVars
  PROVE  [Next]_vars
<1>1. CASE Restart
  BY <1>1 DEF Restart, Next
<1>2. CASE VisitWithoutCookie
  BY <1>2 DEF VisitWithoutCookie
<1>3. ASSUME NEW b \in Browsers,
             \/ Visit(b) \/ HandleLogout(b) \/ BeginAuthorize(b)
             \/ ValidateLoggedIn(b) \/ Authorized(b) \/ AuthorizeFails(b)
             \/ BeginCallback(b) \/ Exchange(b) \/ CallbackFails(b)
             \/ \E a \in Accounts : HandleLogin(b, a)
      PROVE  UNCHANGED vars
  BY <1>3
  DEF Visit, HandleLogout, BeginAuthorize, ValidateLoggedIn, Authorized,
      AuthorizeFails, BeginCallback, Exchange, CallbackFails, HandleLogin
<1>4. ASSUME NEW b \in Browsers, NEW c \in Codes, Authorize(b, c)
      PROVE  Next
  BY <1>4 DEF Authorize, Next
<1>5. ASSUME NEW r \in Requests, NEW c \in Codes, TokenOfClient(r, c)
      PROVE  Next
  BY <1>5 DEF TokenOfClient, Token, Next
<1>6. ASSUME NEW b \in Browsers, NEW r \in Requests, TokenOfCallback(b, r)
      PROVE  Next
  <2>1. held[b] \in Codes
    BY <1>6 DEF TokenOfCallback, SessionTypeOK
  <2> QED
    BY <1>6, <2>1 DEF TokenOfCallback, Token, Next
<1>7. ASSUME NEW r \in Requests, TokenStep(r)
      PROVE  Next
  BY <1>7 DEF TokenStep, Next
<1>8. ASSUME NEW b \in Browsers, NEW r \in Requests, FinishCallback(b, r)
      PROVE  Next
  BY <1>8 DEF FinishCallback, Next
<1>9. ASSUME NEW c \in Codes, ExpireCode(c)
      PROVE  Next
  BY <1>9 DEF ExpireCode, Next
<1>10. CASE UNCHANGED sessionVars
  BY <1>10 DEF sessionVars
<1> QED
  BY <1>1, <1>2, <1>3, <1>4, <1>5, <1>6, <1>7, <1>8, <1>9, <1>10 DEF SessionNext

LEMMA StepKeepsSessionTypeOK ==
  ASSUME SessionTypeOK, [SessionNext]_sessionVars
  PROVE  SessionTypeOK'
<1>0. TypeOK'
  BY StepImplements, StepKeepsTypeOK DEF SessionTypeOK
<1> USE NoCodeAssumption, Values DEF SessionTypeOK, Disturb, Step, End, flow, history
<1> HIDE DEF TypeOK
<1>1. CASE Restart
  BY <1>0, <1>1 DEF Restart
<1>2. CASE VisitWithoutCookie
  BY <1>0, <1>2 DEF VisitWithoutCookie
<1>3. ASSUME NEW b \in Browsers, LoadSession(b)
      PROVE  /\ account' \in AccountValues
             /\ cookie' \in [Browsers -> SessionValues]
  BY <1>3, Values DEF LoadSession
<1>4. ASSUME NEW b \in Browsers, Visit(b)
      PROVE  SessionTypeOK'
  BY <1>0, <1>3, <1>4 DEF Visit
<1>5. ASSUME NEW b \in Browsers, HandleLogout(b)
      PROVE  SessionTypeOK'
  BY <1>0, <1>5, Values DEF HandleLogout
<1>6. ASSUME NEW b \in Browsers, NEW a \in Accounts, HandleLogin(b, a)
      PROVE  SessionTypeOK'
  <2>1. account' \in AccountValues
    BY <1>6, Values DEF HandleLogin
  <2>2. Kept(a, NoCode) \in SessionValues
    BY Values DEF Users
  <2>3. mixed' \subseteq Codes /\ loggedIn' \subseteq Accounts
    BY <1>6 DEF HandleLogin, LoginKeeps
  <2>4. cookie' \in [Browsers -> SessionValues]
    BY <1>6, <2>2 DEF HandleLogin, LoginKeeps
  <2> QED
    BY <1>0, <1>6, <2>1, <2>3, <2>4 DEF HandleLogin
<1>7. ASSUME NEW b \in Browsers, BeginAuthorize(b)
      PROVE  SessionTypeOK'
  <2>1. /\ seen' \in [Browsers -> SessionValues]
        /\ quiet' \in [Browsers -> BOOLEAN]
        /\ at' = [at EXCEPT ![b] = "loaded"] \/ at' = [at EXCEPT ![b] = "validated"]
    BY <1>3, <1>7 DEF BeginAuthorize
  <2> QED
    BY <1>0, <1>3, <1>7, <2>1 DEF BeginAuthorize
<1>17. ASSUME NEW b \in Browsers, BeginCallback(b)
       PROVE  SessionTypeOK'
  <2>1. seen' \in [Browsers -> SessionValues]
    BY <1>3, <1>17 DEF BeginCallback
  <2> QED
    BY <1>0, <1>3, <1>17, <2>1 DEF BeginCallback
<1>8. ASSUME NEW b \in Browsers,
             ValidateLoggedIn(b) \/ Authorized(b) \/ AuthorizeFails(b)
      PROVE  SessionTypeOK'
  BY <1>0, <1>8 DEF ValidateLoggedIn, Authorized, AuthorizeFails
<1>18. ASSUME NEW b \in Browsers, Exchange(b)
       PROVE  SessionTypeOK'
  BY <1>0, <1>18 DEF Exchange
<1>19. ASSUME NEW b \in Browsers, CallbackFails(b)
       PROVE  SessionTypeOK'
  BY <1>0, <1>19 DEF CallbackFails
<1>9. ASSUME NEW b \in Browsers, NEW c \in Codes, Authorize(b, c)
      PROVE  SessionTypeOK'
  BY <1>0, <1>9 DEF Authorize
<1>10. ASSUME NEW r \in Requests, NEW c \in Codes, Token(r, c)
       PROVE  /\ account' \in AccountValues
              /\ quiet' \in [Browsers -> BOOLEAN]
  BY <1>10 DEF Token
<1>11. ASSUME NEW r \in Requests, NEW c \in Codes, TokenOfClient(r, c)
       PROVE  SessionTypeOK'
  BY <1>0, <1>10, <1>11 DEF TokenOfClient
<1>12. ASSUME NEW b \in Browsers, NEW r \in Requests, TokenOfCallback(b, r)
       PROVE  SessionTypeOK'
  BY <1>0, <1>10, <1>12 DEF TokenOfCallback
<1>13. ASSUME NEW r \in Requests, TokenStep(r)
       PROVE  SessionTypeOK'
  BY <1>0, <1>13 DEF TokenStep
<1>14. ASSUME NEW b \in Browsers, NEW r \in Requests, FinishCallback(b, r)
       PROVE  SessionTypeOK'
  <2>1. account' \in AccountValues
    BY <1>14, Values DEF FinishCallback
  <2> QED
    BY <1>0, <1>14, <2>1 DEF FinishCallback
<1>15. ASSUME NEW c \in Codes, ExpireCode(c)
       PROVE  SessionTypeOK'
  BY <1>0, <1>15 DEF ExpireCode
<1>16. CASE UNCHANGED sessionVars
  BY <1>0, <1>16 DEF sessionVars
<1> QED
  BY <1>1, <1>2, <1>4, <1>5, <1>6, <1>7, <1>8, <1>9, <1>11, <1>12, <1>13,
     <1>14, <1>15, <1>16, <1>17, <1>18, <1>19
  DEF SessionNext

\* Type correctness of the sessions and of the flows through the routes.
THEOREM SessionTypeCorrect == SessionSpec => []SessionTypeOK
<1>1. SessionInit => SessionTypeOK
  BY NoCodeAssumption, Values
  DEF SessionInit, SessionTypeOK, Init, TypeOK, Users
<1> QED
  BY <1>1, StepKeepsSessionTypeOK, PTL DEF SessionSpec

\* The sessions implement the OAuth store: whatever its specification keeps, the
\* requests of the browsers keep.
THEOREM SessionsImplementStore == SessionSpec => Spec
<1>1. SessionInit => Init
  BY DEF SessionInit
<1>2. SessionTypeOK /\ [SessionNext]_sessionVars => [Next]_vars
  BY StepImplements
<1> QED
  BY <1>1, <1>2, SessionTypeCorrect, PTL DEF SessionSpec, Spec

\* The token of a session stays accepted, with any number of browsers.
THEOREM SessionTokensWork == SessionSpec => []SessionTokenIsAccepted
BY SessionsImplementStore, SessionsWork, PTL

\* Codes, sessions and the account of the handler belong to nobody or to an
\* account whose password was accepted.
THEOREM OwnersHaveLoggedIn == SessionSpec => []OwnersLoggedIn
<1> DEFINE Known == loggedIn \union {Anonymous}
           FlowKnown == \A b \in Browsers : seen[b].who \in Known
<1>1. SessionInit => OwnersLoggedIn /\ FlowKnown
  BY DEF SessionInit, OwnersLoggedIn, NoUser, defaultAccount
<1>2. ASSUME SessionTypeOK, OwnersLoggedIn, FlowKnown, [SessionNext]_sessionVars
      PROVE  OwnersLoggedIn' /\ FlowKnown'
  <2> USE <1>2 DEF OwnersLoggedIn, Disturb, Step, End, flow, history
  <2>1. ASSUME NEW s, s.who \in Known, NEW acc \in FromSession(s)
        PROVE  acc.who \in Known
    BY <2>1 DEF FromSession, defaultAccount
  <2>2. CASE Restart
    BY <2>2 DEF Restart, defaultAccount, NoUser
  <2>3. CASE VisitWithoutCookie
    BY <2>3 DEF VisitWithoutCookie, defaultAccount
  <2>4. ASSUME NEW b \in Browsers, LoadSession(b)
        PROVE  /\ account'.who \in Known
               /\ \A x \in Browsers : cookie'[x].who \in Known
    <3>1. CASE account' \in FromSession(cookie[b]) /\ UNCHANGED cookie
      BY <2>1, <3>1
    <3>2. CASE cookie' = [cookie EXCEPT ![b] = NoUser] /\ UNCHANGED account
      <4>1. \A x \in Browsers : cookie'[x] \in {cookie[x], NoUser}
        BY <3>2 DEF SessionTypeOK
      <4>2. NoUser.who \in Known
        BY DEF NoUser
      <4> QED
        BY <3>2, <4>1, <4>2
    <3> QED
      BY <2>4, <3>1, <3>2 DEF LoadSession
  <2>5. ASSUME NEW b \in Browsers, Visit(b)
        PROVE  OwnersLoggedIn' /\ FlowKnown'
    BY <2>4, <2>5 DEF Visit
  <2>6. ASSUME NEW b \in Browsers, HandleLogout(b)
        PROVE  OwnersLoggedIn' /\ FlowKnown'
    BY <2>1, <2>6 DEF HandleLogout, NoUser, SessionTypeOK
  <2>7. ASSUME NEW b \in Browsers, NEW a \in Accounts, HandleLogin(b, a)
        PROVE  OwnersLoggedIn' /\ FlowKnown'
    BY <2>1, <2>7 DEF HandleLogin, LoginKeeps, Kept, SessionTypeOK
  <2>8. ASSUME NEW b \in Browsers, BeginAuthorize(b) \/ BeginCallback(b)
        PROVE  OwnersLoggedIn' /\ FlowKnown'
    <3> DEFINE now == [cookie'[b] EXCEPT !.token = NoCode]
    <3>0. LoadSession(b) /\ seen' = [seen EXCEPT ![b] = now]
      BY <2>8 DEF BeginAuthorize, BeginCallback
    <3>2. cookie'[b] \in SessionValues
      BY <3>0, Values DEF LoadSession, SessionTypeOK
    <3>3. now.who = cookie'[b].who
      BY <3>2 DEF SessionValues
    <3>1. seen'[b].who \in Known /\ \A x \in Browsers \ {b} : seen'[x] = seen[x]
      BY <2>4, <3>0, <3>3 DEF SessionTypeOK
    <3> QED
      BY <2>4, <2>8, <3>1 DEF BeginAuthorize, BeginCallback
  <2>9. ASSUME NEW b \in Browsers,
               \/ ValidateLoggedIn(b) \/ Authorized(b) \/ AuthorizeFails(b)
               \/ Exchange(b) \/ CallbackFails(b)
        PROVE  OwnersLoggedIn' /\ FlowKnown'
    BY <2>9
    DEF ValidateLoggedIn, Authorized, AuthorizeFails, Exchange, CallbackFails,
        defaultAccount, NoUser, SessionTypeOK
  <2>10. ASSUME NEW b \in Browsers, NEW c \in Codes, Authorize(b, c)
         PROVE  OwnersLoggedIn' /\ FlowKnown'
    BY <2>10 DEF Authorize, NoUser, SessionTypeOK
  <2>11. ASSUME NEW r \in Requests, NEW c \in Codes, Token(r, c)
         PROVE  account'.who \in Known
    BY <2>11 DEF Token, SessionTypeOK, AccountValues
  <2>12. ASSUME NEW r \in Requests, NEW c \in Codes, TokenOfClient(r, c)
         PROVE  OwnersLoggedIn' /\ FlowKnown'
    BY <2>11, <2>12 DEF TokenOfClient
  <2>13. ASSUME NEW b \in Browsers, NEW r \in Requests, TokenOfCallback(b, r)
         PROVE  OwnersLoggedIn' /\ FlowKnown'
    <3>1. held[b] \in Codes
      BY <2>13 DEF TokenOfCallback, SessionTypeOK
    <3> QED
      BY <2>11, <2>13, <3>1 DEF TokenOfCallback
  <2>14. ASSUME NEW r \in Requests, TokenStep(r)
         PROVE  OwnersLoggedIn' /\ FlowKnown'
    BY <2>14 DEF TokenStep
  <2>15. ASSUME NEW b \in Browsers, NEW r \in Requests, FinishCallback(b, r)
         PROVE  OwnersLoggedIn' /\ FlowKnown'
    <3>1. account'.who \in Known
      BY <2>1, <2>15 DEF FinishCallback
    <3> QED
      BY <2>15, <3>1 DEF FinishCallback, Kept, NoUser, SessionTypeOK
  <2>16. ASSUME NEW c \in Codes, ExpireCode(c)
         PROVE  OwnersLoggedIn' /\ FlowKnown'
    BY <2>16 DEF ExpireCode
  <2>17. CASE UNCHANGED sessionVars
    BY <2>17 DEF sessionVars
  <2> QED
    BY <2>2, <2>3, <2>5, <2>6, <2>7, <2>8, <2>9, <2>10, <2>12, <2>13, <2>14,
       <2>15, <2>16, <2>17
    DEF SessionNext
<1> QED
  BY <1>1, <1>2, SessionTypeCorrect, PTL DEF SessionSpec
-----------------------------------------------------------------------------
\* What a step never undoes: a request keeps its code, a token its row, a code
\* that was issued its owner and its place in mixed.
LEMMA IssuedStays ==
  ASSUME SessionTypeOK, [SessionNext]_sessionVars
  PROVE  /\ \A r \in Requests : pc[r] # "new" => pc'[r] # "new" /\ code'[r] = code[r]
         /\ \A r \in Requests : pc[r] = "done" => pc'[r] = "done" /\ access'[r] = access[r]
         /\ \A c \in Codes : authorize[c] # "unissued" =>
              authorize'[c] # "unissued" /\ owner'[c] = owner[c]
         /\ mixed \subseteq mixed'
<1> USE DEF SessionTypeOK, TypeOK, Goto
<1>1. ASSUME [Next]_vars
      PROVE  /\ \A r \in Requests : pc[r] # "new" => pc'[r] # "new" /\ code'[r] = code[r]
             /\ \A r \in Requests : pc[r] = "done" => pc'[r] = "done" /\ access'[r] = access[r]
             /\ \A c \in Codes : authorize[c] # "unissued" => authorize'[c] # "unissued"
  <2>1. CASE \E c \in Codes : SaveAuthorize(c) \/ Expire(c)
    BY <2>1 DEF SaveAuthorize, Expire
  <2>2. CASE \E c \in Codes, r \in Requests : HandleAccessRequest(r, c)
    BY <2>2 DEF HandleAccessRequest
  <2>3. CASE \E r \in Requests : SaveAccess(r) \/ SaveAccessFails(r)
    BY <2>3 DEF SaveAccess, SaveAccessFails
  <2>4. CASE \E r \in Requests : RemoveAuthorize(r) \/ RemoveAuthorizeFails(r)
    BY <2>4 DEF RemoveAuthorize, RemoveAuthorizeFails
  <2>5. CASE \E r \in Requests : HandleCallback(r)
    BY <2>5 DEF HandleCallback
  <2>6. CASE Crash
    BY <2>6 DEF Crash, Running
  <2>7. CASE UNCHANGED vars
    BY <2>7 DEF vars
  <2> QED
    BY <1>1, <2>1, <2>2, <2>3, <2>4, <2>5, <2>6, <2>7 DEF Next
<1>2. /\ \A c \in Codes : authorize[c] # "unissued" => owner'[c] = owner[c]
      /\ mixed \subseteq mixed'
  <2> USE DEF flow, history
  <2>1. CASE Restart \/ VisitWithoutCookie
    BY <2>1 DEF Restart, VisitWithoutCookie
  <2>2. ASSUME NEW b \in Browsers, NEW a \in Accounts, HandleLogin(b, a)
        PROVE  owner' = owner /\ mixed \subseteq mixed'
    BY <2>2 DEF HandleLogin, LoginKeeps
  <2>3. ASSUME NEW b \in Browsers, NEW c \in Codes, Authorize(b, c)
        PROVE  /\ \A k \in Codes : authorize[k] # "unissued" => owner'[k] = owner[k]
               /\ mixed \subseteq mixed'
    BY <2>3 DEF Authorize, SaveAuthorize
  <2>4. ASSUME NEW b \in Browsers,
               \/ Visit(b) \/ HandleLogout(b) \/ BeginAuthorize(b)
               \/ ValidateLoggedIn(b) \/ Authorized(b) \/ AuthorizeFails(b)
               \/ BeginCallback(b) \/ Exchange(b) \/ CallbackFails(b)
               \/ \E r \in Requests : TokenOfCallback(b, r) \/ FinishCallback(b, r)
        PROVE  UNCHANGED <<owner, mixed>>
    BY <2>4
    DEF Visit, HandleLogout, BeginAuthorize, ValidateLoggedIn, Authorized,
        AuthorizeFails, BeginCallback, Exchange, CallbackFails, TokenOfCallback,
        FinishCallback
  <2>5. ASSUME NEW r \in Requests,
               TokenStep(r) \/ \E c \in Codes : TokenOfClient(r, c)
        PROVE  UNCHANGED <<owner, mixed>>
    BY <2>5 DEF TokenStep, TokenOfClient
  <2>6. CASE (\E c \in Codes : ExpireCode(c)) \/ UNCHANGED sessionVars
    BY <2>6 DEF ExpireCode, sessionVars
  <2> QED
    BY <2>1, <2>2, <2>3, <2>4, <2>5, <2>6 DEF SessionNext
<1> QED
  BY <1>1, <1>2, StepImplements

\* A session and a code are of one account, or the session is nobody's, or the
\* code is one of those that got mixed up.
SameReader(s, c) == s.who \in {owner[c], Anonymous} \/ c \in mixed

\* The strengthening of TokenMatchesSession: what holds of the code a browser
\* brings back and of the session it came with, before its token is kept.
\*   HeldInv:  the code a browser holds was issued, and is its session's.
\*   SeenInv:  the session a callback came with is of the code's account too.
\*   ReqInv:   the token request of a callback carries that code.
\*   QuietInv: undisturbed, the account is the session's, or is not logged in.
\*   TokenInv: the token of a session was bought, by a request that is done.
HeldInv ==
  \A b \in Browsers : held[b] # NoCode =>
    authorize[held[b]] # "unissued" /\ SameReader(cookie[b], held[b])

SeenInv ==
  \A b \in Browsers :
    at[b] \in {"callback", "exchanging"} => SameReader(seen[b], held[b])

ReqInv ==
  \A b \in Browsers : req[b] # NoCode =>
    pc[req[b]] # "new" /\ code[req[b]] = held[b]

QuietInv ==
  \A b \in Browsers : quiet[b] =>
    \/ cookie[b].who \in {account.who, Anonymous}
    \/ ~IsLogged(account) /\ at[b] # "authorized"

TokenInv ==
  \A b \in Browsers : cookie[b].token # NoCode =>
    pc[cookie[b].token] = "done" /\ SameReader(cookie[b], access[cookie[b].token])

MatchInv == HeldInv /\ SeenInv /\ ReqInv /\ QuietInv /\ TokenInv

\* How a request changes the session of its browser: not at all, to nobody's,
\* or by a login, and then the code it holds is of the same account or mixed.
Harmless(b) ==
  /\ \A x \in Browsers \ {b} : cookie'[x] = cookie[x]
  /\ \/ cookie'[b] = cookie[b]
     \/ cookie'[b].who = Anonymous /\ cookie'[b].token = NoCode
     \/ /\ cookie'[b].token = NoCode
        /\ held[b] # NoCode => cookie'[b].who = owner[held[b]] \/ held[b] \in mixed'

LEMMA HarmlessSteps ==
  ASSUME SessionTypeOK, NEW b \in Browsers
  PROVE  /\ LoadSession(b) => Harmless(b)
         /\ HandleLogout(b) => Harmless(b)
         /\ \A a \in Accounts : HandleLogin(b, a) => Harmless(b)
<1> USE DEF SessionTypeOK, Harmless
<1>1. NoUser.who = Anonymous /\ NoUser.token = NoCode
  BY DEF NoUser
<1>2. ASSUME cookie' = [cookie EXCEPT ![b] = NoUser]
      PROVE  Harmless(b)
  BY <1>1, <1>2
<1>3. ASSUME NEW a \in Accounts, LoginKeeps(b, a)
      PROVE  Harmless(b)
  <2>1. cookie'[b].who = a /\ cookie'[b].token = NoCode
    BY <1>3 DEF LoginKeeps, Kept
  <2>2. held[b] # NoCode => a = owner[held[b]] \/ held[b] \in mixed'
    BY <1>3 DEF LoginKeeps
  <2>3. \A x \in Browsers \ {b} : cookie'[x] = cookie[x]
    BY <1>3 DEF LoginKeeps
  <2> QED
    BY <2>1, <2>2, <2>3
<1>4. ASSUME UNCHANGED cookie
      PROVE  Harmless(b)
  BY <1>4
<1>5. LoadSession(b) => Harmless(b)
  BY <1>2, <1>4 DEF LoadSession
<1>6. HandleLogout(b) => Harmless(b)
  BY <1>2 DEF HandleLogout
<1>7. \A a \in Accounts : HandleLogin(b, a) => Harmless(b)
  BY <1>3, <1>4 DEF HandleLogin
<1> QED
  BY <1>5, <1>6, <1>7

\* What a harmless step leaves of HeldInv, where the code is the same, and of
\* TokenInv.
LEMMA HarmlessKeeps ==
  ASSUME SessionTypeOK, MatchInv, RowInv, AcceptedInv, [SessionNext]_sessionVars,
         NEW b \in Browsers, Harmless(b)
  PROVE  /\ TokenInv'
         /\ \A x \in Browsers : held'[x] = held[x] /\ held[x] # NoCode =>
              authorize'[held[x]] # "unissued" /\ SameReader(cookie[x], held[x])'
<1> USE DEF SessionTypeOK, MatchInv
<1>1. ASSUME NEW x \in Browsers, held'[x] = held[x], held[x] # NoCode
      PROVE  authorize'[held[x]] # "unissued" /\ SameReader(cookie[x], held[x])'
  <2>1. held[x] \in Codes /\ authorize[held[x]] # "unissued"
    BY <1>1 DEF HeldInv
  <2>2. /\ authorize'[held[x]] # "unissued" /\ owner'[held[x]] = owner[held[x]]
        /\ mixed \subseteq mixed'
    BY <2>1, IssuedStays
  <2>3. SameReader(cookie[x], held[x])
    BY <1>1 DEF HeldInv
  <2> QED
    BY <1>1, <2>1, <2>2, <2>3 DEF SameReader, Harmless
<1>2. ASSUME NEW x \in Browsers, cookie'[x].token # NoCode
      PROVE  /\ pc'[cookie'[x].token] = "done"
             /\ SameReader(cookie[x], access[cookie[x].token])'
  <2>1. cookie'[x] = cookie[x]
    BY <1>2 DEF Harmless
  <2> DEFINE t == cookie[x].token
  <2>2. t \in Requests
    BY <1>2, <2>1 DEF SessionValues
  <2>3. pc[t] = "done" /\ SameReader(cookie[x], access[t])
    BY <1>2, <2>1 DEF TokenInv
  <2>4. access[t] = code[t] /\ code[t] \in Codes /\ authorize[code[t]] # "unissued"
    BY <2>2, <2>3 DEF RowInv, AcceptedInv, TypeOK
  <2>5. /\ pc'[t] = "done" /\ access'[t] = access[t]
        /\ owner'[access[t]] = owner[access[t]] /\ mixed \subseteq mixed'
    BY <2>2, <2>3, <2>4, IssuedStays
  <2> QED
    BY <2>1, <2>3, <2>5 DEF SameReader
<1> QED
  BY <1>1, <1>2 DEF TokenInv

\* What the flow of x keeps while another request, or the token request, runs.
LEMMA FlowKeeps ==
  ASSUME SessionTypeOK, MatchInv, [SessionNext]_sessionVars, NEW x \in Browsers,
         at'[x] = at[x], held'[x] = held[x], seen'[x] = seen[x], req'[x] = req[x]
  PROVE  /\ at'[x] \in {"callback", "exchanging"} => SameReader(seen[x], held[x])'
         /\ req'[x] # NoCode =>
              pc'[req'[x]] # "new" /\ code'[req'[x]] = held'[x]
<1> USE DEF SessionTypeOK, MatchInv
<1>1. ASSUME at[x] \in {"callback", "exchanging"}
      PROVE  SameReader(seen[x], held[x])'
  <2>1. held[x] \in Codes /\ authorize[held[x]] # "unissued"
    BY <1>1 DEF HeldInv
  <2>2. owner'[held[x]] = owner[held[x]] /\ mixed \subseteq mixed'
    BY <2>1, IssuedStays
  <2> QED
    BY <1>1, <2>2 DEF SeenInv, SameReader
<1>2. ASSUME req[x] # NoCode
      PROVE  pc'[req[x]] # "new" /\ code'[req[x]] = held[x]
  BY <1>2, IssuedStays DEF ReqInv
<1> QED
  BY <1>1, <1>2

\* A request of b that changes its session harmlessly and leaves the flow of all
\* the others: it keeps MatchInv if what it does to its own flow and to the
\* account does.
LEMMA RequestKeeps ==
  ASSUME SessionTypeOK, MatchInv, RowInv, AcceptedInv, [SessionNext]_sessionVars,
         NEW b \in Browsers, Harmless(b), held' = held,
         \A x \in Browsers \ {b} : /\ at'[x] = at[x] /\ seen'[x] = seen[x]
                                   /\ req'[x] = req[x],
         at'[b] \in {"callback", "exchanging"} =>
           SameReader(seen[b], held[b])',
         req'[b] # NoCode =>
           pc'[req'[b]] # "new" /\ code'[req'[b]] = held'[b],
         QuietInv'
  PROVE  MatchInv'
<1>1. HeldInv' /\ TokenInv'
  BY HarmlessKeeps DEF HeldInv
<1>2. ASSUME NEW x \in Browsers \ {b}
      PROVE  /\ at'[x] \in {"callback", "exchanging"} => SameReader(seen[x], held[x])'
             /\ req'[x] # NoCode =>
                  pc'[req'[x]] # "new" /\ code'[req'[x]] = held'[x]
  BY FlowKeeps
<1>3. SeenInv' /\ ReqInv'
  BY <1>2 DEF SeenInv, ReqInv
<1> QED
  BY <1>1, <1>3 DEF MatchInv

LEMMA StepKeepsMatchInv ==
  ASSUME SessionTypeOK, MatchInv, RowInv, AcceptedInv, [SessionNext]_sessionVars
  PROVE  MatchInv'
<1> USE DEF SessionTypeOK, flow, history
<1>1. ASSUME Disturb
      PROVE  QuietInv'
  BY <1>1 DEF Disturb, QuietInv
<1>2. ASSUME UNCHANGED cookie, NEW b \in Browsers
      PROVE  Harmless(b)
  BY <1>2 DEF Harmless
<1>3. ASSUME UNCHANGED <<account, cookie, quiet>>,
             \A x \in Browsers : at'[x] = "authorized" => at[x] = "authorized" \/ IsLogged(account)
      PROVE  QuietInv'
  BY <1>3 DEF QuietInv, IsLogged, MatchInv
<1>4. ASSUME UNCHANGED flow, QuietInv', NEW b \in Browsers, Harmless(b)
      PROVE  MatchInv'
  <2>1. \A x \in Browsers :
          /\ at'[x] \in {"callback", "exchanging"} => SameReader(seen[x], held[x])'
          /\ req'[x] # NoCode =>
               pc'[req'[x]] # "new" /\ code'[req'[x]] = held'[x]
    BY <1>4, FlowKeeps
  <2> QED
    BY <1>4, <2>1, RequestKeeps
<1>5. ASSUME NEW b \in Browsers,
             Visit(b) \/ HandleLogout(b) \/ \E a \in Accounts : HandleLogin(b, a)
      PROVE  MatchInv'
  <2>1. Harmless(b)
    BY <1>5, HarmlessSteps DEF Visit
  <2>2. Disturb /\ UNCHANGED flow
    BY <1>5 DEF Visit, HandleLogout, HandleLogin
  <2> QED
    BY <1>1, <1>4, <2>1, <2>2
<1>6. ASSUME UNCHANGED flow, UNCHANGED cookie, QuietInv'
      PROVE  MatchInv'
  <2>1. CASE Browsers = {}
    BY <2>1 DEF MatchInv, HeldInv, SeenInv, ReqInv, QuietInv, TokenInv
  <2>2. ASSUME NEW b \in Browsers
        PROVE  MatchInv'
    BY <1>2, <1>4, <1>6
  <2> QED
    BY <2>1, <2>2
<1>7. ASSUME NEW b \in Browsers, BeginAuthorize(b)
      PROVE  MatchInv'
  <2>1. Harmless(b)
    BY <1>7, HarmlessSteps DEF BeginAuthorize
  <2>2. /\ \A x \in Browsers \ {b} : at'[x] = at[x] /\ seen'[x] = seen[x] /\ req'[x] = req[x]
        /\ at'[b] \in {"loaded", "validated"} /\ held' = held /\ req' = req
    BY <1>7 DEF BeginAuthorize, Step
  <2>3. quiet' = [x \in Browsers |-> x = b /\ cookie' = cookie]
    BY <1>7 DEF BeginAuthorize
  <2>4. ASSUME cookie' = cookie
        PROVE  \/ cookie'[b].who \in {account'.who, Anonymous}
               \/ ~IsLogged(account')
    <3>1. CASE account' \in FromSession(cookie[b])
      BY <2>4, <3>1 DEF FromSession, IsLogged, defaultAccount
    <3>2. CASE cookie' = [cookie EXCEPT ![b] = NoUser]
      BY <2>4, <3>2 DEF NoUser
    <3> QED
      BY <1>7, <3>1, <3>2 DEF BeginAuthorize, LoadSession
  <2>5. QuietInv'
    BY <2>2, <2>3, <2>4 DEF QuietInv, IsLogged
  <2>6. req'[b] # NoCode => pc'[req'[b]] # "new" /\ code'[req'[b]] = held'[b]
    BY <2>2, IssuedStays DEF MatchInv, ReqInv
  <2> QED
    BY <2>1, <2>2, <2>5, <2>6, RequestKeeps
<1>8. ASSUME NEW b \in Browsers, ValidateLoggedIn(b) \/ Authorized(b) \/ AuthorizeFails(b)
                                 \/ CallbackFails(b)
      PROVE  MatchInv'
  <2>1. /\ \A x \in Browsers \ {b} : at'[x] = at[x] /\ seen'[x] = seen[x] /\ req'[x] = req[x]
        /\ at'[b] \in {"idle", "validated", "authorized"} /\ req'[b] \in {req[b], NoCode}
        /\ UNCHANGED <<held, account, cookie, quiet>>
    BY <1>8 DEF ValidateLoggedIn, Authorized, AuthorizeFails, CallbackFails, Step, End
  <2>2. at'[b] = "authorized" => IsLogged(account)
    BY <1>8 DEF ValidateLoggedIn, Authorized, AuthorizeFails, CallbackFails, Step, End
  <2>3. QuietInv'
    BY <1>3, <2>1, <2>2
  <2>4. req'[b] # NoCode => pc'[req'[b]] # "new" /\ code'[req'[b]] = held'[b]
    BY <2>1, IssuedStays DEF MatchInv, ReqInv
  <2> QED
    BY <1>2, <2>1, <2>3, <2>4, RequestKeeps
<1>9. ASSUME NEW b \in Browsers, Exchange(b)
      PROVE  MatchInv'
  <2>1. /\ \A x \in Browsers \ {b} : at'[x] = at[x] /\ seen'[x] = seen[x] /\ req'[x] = req[x]
        /\ at[b] = "callback" /\ UNCHANGED <<held, owner, mixed, seen, req, cookie>>
    BY <1>9 DEF Exchange, Step
  <2>2. SameReader(seen[b], held[b])'
    BY <2>1 DEF MatchInv, SeenInv, SameReader
  <2>3. req'[b] # NoCode => pc'[req'[b]] # "new" /\ code'[req'[b]] = held'[b]
    BY <2>1, IssuedStays DEF MatchInv, ReqInv
  <2> QED
    BY <1>1, <1>2, <1>9, <2>1, <2>2, <2>3, RequestKeeps DEF Exchange
<1>10. ASSUME NEW b \in Browsers, BeginCallback(b)
       PROVE  MatchInv'
  <2>1. Harmless(b)
    BY <1>10, HarmlessSteps DEF BeginCallback
  <2>2. /\ \A x \in Browsers \ {b} : at'[x] = at[x] /\ seen'[x] = seen[x] /\ req'[x] = req[x]
        /\ held[b] # NoCode /\ UNCHANGED <<held, owner, mixed, req>>
        /\ seen' = [seen EXCEPT ![b] = [cookie'[b] EXCEPT !.token = NoCode]]
    BY <1>10 DEF BeginCallback, Step
  <2>3. cookie'[b] \in SessionValues
    BY <1>10, Values DEF BeginCallback, LoadSession
  <2>4. seen'[b].who = cookie'[b].who
    BY <2>2, <2>3 DEF SessionValues
  <2>5. HeldInv'
    BY <2>1, <2>2, HarmlessKeeps DEF HeldInv
  <2>6. SameReader(seen[b], held[b])'
    BY <2>2, <2>4, <2>5 DEF HeldInv, SameReader
  <2>7. req'[b] # NoCode => pc'[req'[b]] # "new" /\ code'[req'[b]] = held'[b]
    BY <2>2, IssuedStays DEF MatchInv, ReqInv
  <2> QED
    BY <1>1, <1>10, <2>1, <2>2, <2>6, <2>7, RequestKeeps DEF BeginCallback
<1>11. ASSUME NEW r \in Requests, NEW c \in Codes, Token(r, c)
       PROVE  Disturb /\ pc'[r] # "new" /\ code'[r] = c
  BY <1>11 DEF Token, HandleAccessRequest, Goto, TypeOK
<1>12. ASSUME NEW b \in Browsers, NEW r \in Requests, TokenOfCallback(b, r)
       PROVE  MatchInv'
  <2>1. /\ \A x \in Browsers \ {b} : at'[x] = at[x] /\ seen'[x] = seen[x] /\ req'[x] = req[x]
        /\ at[b] = "exchanging" /\ req'[b] = r
        /\ UNCHANGED <<held, owner, mixed, seen, cookie>>
    BY <1>12 DEF TokenOfCallback
  <2>2. SameReader(seen[b], held[b])'
    BY <2>1 DEF MatchInv, SeenInv, SameReader
  <2>3. held[b] \in Codes
    BY <2>1
  <2>4. Disturb /\ pc'[r] # "new" /\ code'[r] = held[b]
    BY <1>11, <1>12, <2>3 DEF TokenOfCallback
  <2> QED
    BY <1>1, <1>2, <2>1, <2>2, <2>4, RequestKeeps
<1>13. ASSUME NEW b \in Browsers, NEW c \in Codes, Authorize(b, c)
       PROVE  MatchInv'
  <2> USE <1>13 DEF Authorize, SaveAuthorize, End, Step
  <2>1. QuietInv'
    <3>1. UNCHANGED <<account, cookie, quiet>>
      OBVIOUS
    <3>2. \A x \in Browsers : at'[x] = "authorized" => at[x] = "authorized"
      OBVIOUS
    <3> QED
      BY <1>3, <3>1, <3>2
  <2>2. /\ held'[b] = c /\ owner'[c] = account.who /\ authorize'[c] = "stored"
        /\ quiet[b] \/ c \in mixed'
    BY DEF TypeOK
  <2>3. c \notin mixed' => cookie[b].who \in {account.who, Anonymous}
    BY <2>2 DEF MatchInv, QuietInv
  <2>4. Harmless(b) /\ cookie' = cookie
    BY <1>2
  <2>5. ASSUME NEW x \in Browsers \ {b}
        PROVE  /\ held'[x] # NoCode =>
                    authorize'[held'[x]] # "unissued" /\ SameReader(cookie[x], held[x])'
               /\ at'[x] \in {"callback", "exchanging"} => SameReader(seen[x], held[x])'
               /\ req'[x] # NoCode =>
                    pc'[req'[x]] # "new" /\ code'[req'[x]] = held'[x]
    <3>1. at'[x] = at[x] /\ held'[x] = held[x] /\ seen'[x] = seen[x] /\ req'[x] = req[x]
      OBVIOUS
    <3>2. held[x] # NoCode =>
            authorize'[held[x]] # "unissued" /\ SameReader(cookie[x], held[x])'
      BY <2>4, <3>1, HarmlessKeeps
    <3> QED
      BY <3>1, <3>2, FlowKeeps
  <2>6. HeldInv'
    BY <2>2, <2>3, <2>4, <2>5 DEF HeldInv, SameReader
  <2>7. at'[b] = "idle" /\ req'[b] = NoCode
    OBVIOUS
  <2>8. SeenInv' /\ ReqInv'
    BY <2>5, <2>7 DEF SeenInv, ReqInv
  <2>9. TokenInv'
    BY <2>4, HarmlessKeeps
  <2> QED
    BY <2>1, <2>6, <2>8, <2>9 DEF MatchInv
<1>14. ASSUME NEW b \in Browsers, NEW r \in Requests, FinishCallback(b, r)
       PROVE  MatchInv'
  <2> USE <1>14 DEF FinishCallback, HandleCallback, End, Step, Goto
  <2>1. /\ at[b] = "exchanging" /\ req[b] = r /\ pc[r] = "answered" /\ pc'[r] = "done"
        /\ cookie' = [cookie EXCEPT ![b] = Kept(account'.who, r)]
        /\ UNCHANGED <<held, owner, mixed, access, authorize, code>>
    BY DEF TypeOK
  <2>2. account'.who \in {seen[b].who, Anonymous}
    BY DEF FromSession, defaultAccount
  <2>3. /\ cookie'[b].who = account'.who /\ cookie'[b].token = r
        /\ \A x \in Browsers \ {b} : cookie'[x] = cookie[x]
    BY <2>1 DEF Kept
  <2>4. SameReader(cookie[b], held[b])'
    BY <2>1, <2>2, <2>3 DEF MatchInv, SeenInv, SameReader
  <2>5. HeldInv'
    BY <2>1, <2>3, <2>4 DEF MatchInv, HeldInv, SameReader
  <2>6. r # NoCode => access[r] = held[b]
    BY <2>1 DEF MatchInv, ReqInv, RowInv
  <2>7. ASSUME NEW x \in Browsers \ {b}, cookie[x].token # NoCode
        PROVE  /\ pc'[cookie[x].token] = "done"
               /\ SameReader(cookie[x], access[cookie[x].token])'
    <3>1. cookie[x].token \in Requests
      BY <2>7 DEF SessionValues
    <3>2. pc'[cookie[x].token] = "done"
      BY <2>7, <3>1, IssuedStays DEF MatchInv, TokenInv
    <3> QED
      BY <2>1, <2>3, <2>7, <3>2 DEF MatchInv, TokenInv, SameReader
  <2>8. TokenInv'
    BY <2>1, <2>3, <2>4, <2>6, <2>7 DEF TokenInv, SameReader
  <2>9. at'[b] = "idle" /\ req'[b] = NoCode
    OBVIOUS
  <2>10. ASSUME NEW x \in Browsers \ {b}
         PROVE  /\ at'[x] \in {"callback", "exchanging"} => SameReader(seen[x], held[x])'
                /\ req'[x] # NoCode =>
                     pc'[req'[x]] # "new" /\ code'[req'[x]] = held'[x]
    <3>1. at'[x] = at[x] /\ held'[x] = held[x] /\ seen'[x] = seen[x] /\ req'[x] = req[x]
      OBVIOUS
    <3> QED
      BY <3>1, FlowKeeps
  <2>11. SeenInv' /\ ReqInv'
    BY <2>9, <2>10 DEF SeenInv, ReqInv
  <2> QED
    BY <1>1, <2>5, <2>8, <2>11 DEF MatchInv
<1>15. CASE Restart
  <2> USE <1>15 DEF Restart
  <2>1. ASSUME NEW b \in Browsers
        PROVE  MatchInv'
    <3>1. HeldInv' /\ TokenInv'
      BY <1>2, HarmlessKeeps DEF HeldInv
    <3> QED
      BY <3>1 DEF MatchInv, SeenInv, ReqInv, QuietInv
  <2>2. CASE Browsers = {}
    BY <2>2 DEF MatchInv, HeldInv, SeenInv, ReqInv, QuietInv, TokenInv
  <2> QED
    BY <2>1, <2>2
<1>16. CASE VisitWithoutCookie
  BY <1>1, <1>6, <1>16 DEF VisitWithoutCookie
<1>17. ASSUME NEW r \in Requests, NEW c \in Codes, TokenOfClient(r, c)
       PROVE  MatchInv'
  BY <1>1, <1>6, <1>11, <1>17 DEF TokenOfClient
<1>18. ASSUME UNCHANGED <<account, cookie, flow, quiet>>
       PROVE  MatchInv'
  BY <1>3, <1>6, <1>18
<1>19. ASSUME NEW r \in Requests, TokenStep(r)
       PROVE  MatchInv'
  BY <1>18, <1>19 DEF TokenStep
<1>20. ASSUME NEW c \in Codes, ExpireCode(c)
       PROVE  MatchInv'
  BY <1>18, <1>20 DEF ExpireCode
<1>21. CASE UNCHANGED sessionVars
  BY <1>18, <1>21 DEF sessionVars
<1> QED
  BY <1>5, <1>7, <1>8, <1>9, <1>10, <1>12, <1>13, <1>14, <1>15, <1>16, <1>17,
     <1>19, <1>20, <1>21
  DEF SessionNext

\* What the proofs of OAuthStore keep, on the way to their theorems, the
\* sessions keep too.
LEMMA TablesKeep == SessionSpec => [](RowInv /\ AcceptedInv)
<1>1. Init => RowInv /\ AcceptedInv
  BY NoCodeAssumption DEF Init, RowInv, AcceptedInv
<1>2. TypeOK /\ RowInv /\ AcceptedInv /\ [Next]_vars => RowInv' /\ AcceptedInv'
  BY StepKeepsRowInv, StepKeepsAcceptedInv
<1> QED
  BY <1>1, <1>2, TypeCorrect, SessionsImplementStore, PTL DEF Spec

\* A session and its token are of one account, for any number of browsers,
\* accounts, codes and token requests.
THEOREM TokensMatch == SessionSpec => []TokenMatchesSession
<1>1. SessionInit => MatchInv
  BY DEF SessionInit, MatchInv, HeldInv, SeenInv, ReqInv, QuietInv, TokenInv, NoUser
<1>2. /\ SessionTypeOK /\ MatchInv /\ RowInv /\ AcceptedInv
      /\ [SessionNext]_sessionVars
      => MatchInv'
  BY StepKeepsMatchInv
<1>3. MatchInv => TokenMatchesSession
  BY DEF MatchInv, TokenInv, SameReader, TokenMatchesSession
<1> QED
  BY <1>1, <1>2, <1>3, TablesKeep, SessionTypeCorrect, PTL DEF SessionSpec
=============================================================================
