---------------------------- MODULE OAuthStore -----------------------------
(***************************************************************************)
(* OAuth codes and tokens of littr.go: the tables authorize, access and    *)
(* refresh (app/oauth/db.go), the handlers /oauth/authorize and            *)
(* /oauth/token of the frontend (app/frontend/oauth.go), which drive them  *)
(* through the osin server, and the callback that keeps the token in the   *)
(* session of a reader (app/frontend/frontend.go).                         *)
(*                                                                         *)
(* Only codes are granted and only codes buy tokens (NewOAuth), so no      *)
(* token is refreshed, the column previous is empty and no row of access   *)
(* or refresh is ever deleted.  A token request buys one token and is not  *)
(* repeated: the token is named by its request.  osin is modelled from the *)
(* calls it makes: LoadAuthorize, SaveAccess, then RemoveAuthorize, whose  *)
(* error it drops.                                                         *)
(***************************************************************************)
CONSTANTS Codes,     \* authorization codes, each generated once
          Requests,  \* token requests, and the token each may buy
          NoCode     \* a request that carries no code, a token without row

ASSUME NoCodeAssumption == NoCode \notin Codes

VARIABLES
  authorize, \* table authorize: unissued, stored or removed, for each code
  expired,   \* the codes whose ExpireAt is past
  access,    \* table access: the code each token was bought with, or NoCode
  refresh,   \* table refresh: the tokens it has a row for
  pc,        \* where each token request is
  code,      \* the code it carries
  session,   \* the tokens kept in sessions
  left       \* history: the codes whose row a failure left behind

vars == <<authorize, expired, access, refresh, pc, code, session, left>>

Init ==
  /\ authorize = [c \in Codes |-> "unissued"]
  /\ expired = {}
  /\ access = [t \in Requests |-> NoCode]
  /\ refresh = {}
  /\ pc = [r \in Requests |-> "new"]
  /\ code = [r \in Requests |-> NoCode]
  /\ session = {}
  /\ left = {}

\* As LoadAuthorize, not looking at whether the row is still there.
LoadIssued(c) ==
  CASE authorize[c] = "unissued" -> "notFound"
    [] authorize[c] # "unissued" /\ c \in expired -> "panic"
    [] OTHER -> "ok"

\* The branch for a code that has expired logs err.Error(), and err is nil.
LoadAuthorize(c) ==
  CASE authorize[c] # "stored" -> "notFound"
    [] authorize[c] = "stored" /\ c \in expired -> "panic"
    [] OTHER -> "ok"

\* LoadAccess loads the code of the token too and drops the error of that.
LoadAccess(t) ==
  CASE access[t] = NoCode -> "notFound"
    [] access[t] # NoCode /\ LoadAuthorize(access[t]) = "panic" -> "panic"
    [] OTHER -> "ok"

\* The tokens bought with a code.
Bought(c) == {t \in Requests : access[t] = c}

\* Its row is deleted, and no request is about to buy a token with it.
Spent(c) ==
  /\ authorize[c] = "removed"
  /\ \A r \in Requests : pc[r] = "granted" => code[r] # c

\* left, after request r ended without deleting the row of its code.
LeftBehind(r) ==
  left \union {c \in {code[r]} : authorize[c] = "stored"}

Goto(r, label) == pc' = [pc EXCEPT ![r] = label]
-----------------------------------------------------------------------------
\* Handler Authorize, for a reader who is logged in.
SaveAuthorize(c) ==
  /\ authorize[c] = "unissued"
  /\ authorize' = [authorize EXCEPT ![c] = "stored"]
  /\ UNCHANGED <<expired, access, refresh, pc, code, session, left>>

Expire(c) ==
  /\ authorize[c] # "unissued" /\ c \notin expired
  /\ expired' = expired \union {c}
  /\ UNCHANGED <<authorize, access, refresh, pc, code, session, left>>

\* Handler Token begins: osin loads the client and the code, either of which
\* may fail.  A panic ends the request.
HandleAccessRequest(r, c) ==
  /\ pc[r] = "new"
  /\ authorize[c] # "unissued"
  /\ \/ LoadAuthorize(c) = "ok" /\ Goto(r, "granted")
     \/ LoadAuthorize(c) = "panic" /\ Goto(r, "panicked")
     \/ Goto(r, "refused")
  /\ code' = [code EXCEPT ![r] = c]
  /\ UNCHANGED <<authorize, expired, access, refresh, session, left>>

\* SaveAccess writes the rows of refresh and of access in one transaction.  A
\* commit whose answer is lost is an error to the caller.
SaveAccess(r) ==
  /\ pc[r] = "granted"
  /\ access' = [access EXCEPT ![r] = code[r]]
  /\ refresh' = refresh \union {r}
  /\ \/ Goto(r, "saved") /\ UNCHANGED left
     \/ Goto(r, "refused") /\ left' = LeftBehind(r)
  /\ UNCHANGED <<authorize, expired, code, session>>

\* As SaveAccessFails, with the error dropped.
SaveAccessUnchecked(r) ==
  /\ pc[r] = "granted"
  /\ Goto(r, "saved")
  /\ UNCHANGED <<authorize, expired, access, refresh, code, session, left>>

\* Begin, an INSERT or the commit fails: the transaction never commits.
SaveAccessFails(r) ==
  /\ pc[r] = "granted"
  /\ Goto(r, "refused")
  /\ UNCHANGED <<authorize, expired, access, refresh, code, session, left>>

\* As RemoveAuthorize, with a WHERE clause that matches no row.
RemoveNothing(r) ==
  /\ pc[r] = "saved"
  /\ Goto(r, "answered")
  /\ left' = left \ {code[r]}
  /\ UNCHANGED <<authorize, expired, access, refresh, code, session>>

RemoveAuthorize(r) ==
  /\ pc[r] = "saved"
  /\ authorize' = [authorize EXCEPT ![code[r]] = "removed"]
  /\ Goto(r, "answered")
  /\ left' = left \ {code[r]}
  /\ UNCHANGED <<expired, access, refresh, code, session>>

\* The DELETE fails; the token is answered all the same.
RemoveAuthorizeFails(r) ==
  /\ pc[r] = "saved"
  /\ Goto(r, "answered")
  /\ left' = LeftBehind(r)
  /\ UNCHANGED <<authorize, expired, access, refresh, code, session>>

\* HandleCallback keeps the token it was answered in the session.
HandleCallback(r) ==
  /\ pc[r] = "answered"
  /\ session' = session \union {r}
  /\ Goto(r, "done")
  /\ UNCHANGED <<authorize, expired, access, refresh, code, left>>

\* The process dies between two statements of the requests that run.
Running == {r \in Requests : pc[r] \in {"granted", "saved", "answered"}}

Crash ==
  /\ pc' = [r \in Requests |-> IF r \in Running THEN "dead" ELSE pc[r]]
  /\ left' = left \union {c \in Codes : /\ authorize[c] = "stored"
                                        /\ \E r \in Requests :
                                             pc[r] = "saved" /\ code[r] = c}
  /\ UNCHANGED <<authorize, expired, access, refresh, code, session>>

Next ==
  \/ \E c \in Codes :
       \/ SaveAuthorize(c) \/ Expire(c)
       \/ \E r \in Requests : HandleAccessRequest(r, c)
  \/ \E r \in Requests :
       \/ SaveAccess(r) \/ SaveAccessFails(r)
       \/ RemoveAuthorize(r) \/ RemoveAuthorizeFails(r)
       \/ HandleCallback(r)
  \/ Crash

Spec == Init /\ [][Next]_vars
-----------------------------------------------------------------------------
TypeOK ==
  /\ authorize \in [Codes -> {"unissued", "stored", "removed"}]
  /\ expired \subseteq Codes
  /\ access \in [Requests -> Codes \union {NoCode}]
  /\ refresh \subseteq Requests
  /\ pc \in [Requests -> {"new", "granted", "saved", "answered", "done",
                          "refused", "panicked", "dead"}]
  /\ code \in [Requests -> Codes \union {NoCode}]
  /\ session \subseteq Requests
  /\ left \subseteq Codes
  /\ \A r \in Requests : pc[r] = "new" <=> code[r] = NoCode
  /\ \A r \in Requests :
       pc[r] \in {"saved", "answered", "done"} => access[r] # NoCode

\* The token in a session is accepted by Verify, which calls LoadAccess, at any
\* later time, codes expiring and other requests spending the same code
\* meanwhile, unless a failure left the row of its code behind (LoadAccess
\* lines 287-317, SaveAccess lines 218-269).
SessionTokenIsAccepted ==
  \A t \in session : LoadAccess(t) = "ok" \/ access[t] \in left

\* Once the row of a code is deleted, no request that loads it later buys a
\* token: only those that loaded it before can (LoadAuthorize lines 173-180,
\* RemoveAuthorize lines 207-214).
SpentCodeBuysNothing ==
  [][\A c \in Codes : Spent(c) => Spent(c)' /\ Bought(c)' = Bought(c)]_vars
=============================================================================
