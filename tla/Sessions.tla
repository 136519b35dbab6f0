------------------------------ MODULE Sessions ------------------------------
(***************************************************************************)
(* Logging in to littr.go (app/frontend/frontend.go, login.go, oauth.go):  *)
(* the session of a browser, the account of the handler, which is one      *)
(* variable that the requests of all browsers set and read, and the way    *)
(* through /login, /oauth/authorize, /auth/local/callback and              *)
(* /oauth/token.  OAuthStore has the tables and the token requests; each   *)
(* step here is a step of it, or leaves it alone.                          *)
(*                                                                         *)
(* A browser runs one authorization or callback at a time, and any other   *)
(* request meanwhile.  An assignment to the account of the handler, and    *)
(* a read of it, is one step: that its fields are copied one by one is     *)
(* left out.  Sessions are enabled, else the routes answer "not found".    *)
(***************************************************************************)
EXTENDS OAuthStore

CONSTANTS Browsers,   \* the readers' browsers
          Accounts,   \* the accounts a password logs in to
          Anonymous   \* the account of nobody; the seed has a row for it

ASSUME AnonymousAssumption == Anonymous \notin Accounts

VARIABLES
  account,   \* h.account: whose it is, and if it came from the database
  cookie,    \* what the session of each browser keeps
  at,        \* where the authorization or the callback of a browser is
  seen,      \* the user of the session the request of that browser came with
  held,      \* the code a browser was redirected with last
  owner,     \* the account in the UserData of each code
  req,       \* the token request of a browser's callback, or NoCode
  quiet,     \* history: the account is the one this browser's request set
  mixed,     \* history: codes got while others ran, or kept over a login
  loggedIn   \* history: the accounts whose password was accepted

flow == <<at, seen, held, owner, req>>
history == <<mixed, loggedIn>>
sessionVars == <<vars, account, cookie, flow, quiet, history>>

Users == Accounts \union {Anonymous}
AccountValues == [who : Users, loaded : BOOLEAN]
SessionValues == [who : Users, user : BOOLEAN, token : Requests \union {NoCode}]

\* What a session without a value for the user means, and one with it.
NoUser == [who |-> Anonymous, user |-> FALSE, token |-> NoCode]
Kept(a, t) == [who |-> a, user |-> TRUE, token |-> t]

defaultAccount == [who |-> Anonymous, loaded |-> FALSE]
IsLogged(acc) == acc.loaded \/ acc.who # Anonymous

\* The account of a session; without one, or when it cannot be loaded, the
\* default.  The row of the seed is loaded by the handle "anonymous".
FromSession(s) ==
  {defaultAccount} \union
    IF s.user THEN {[who |-> s.who, loaded |-> TRUE]} ELSE {}

SessionInit ==
  /\ Init
  /\ account = defaultAccount
  /\ cookie = [b \in Browsers |-> NoUser]
  /\ at = [b \in Browsers |-> "idle"]
  /\ seen = [b \in Browsers |-> NoUser]
  /\ held = [b \in Browsers |-> NoCode]
  /\ owner = [c \in Codes |-> Anonymous]
  /\ req = [b \in Browsers |-> NoCode]
  /\ quiet = [b \in Browsers |-> FALSE]
  /\ mixed = {}
  /\ loggedIn = {}
-----------------------------------------------------------------------------
\* The middleware of every request of b: a cookie that cannot be read is
\* dropped, and the account of the handler stays as the last request left it.
\* For the requests of the others it is not theirs any more.
LoadSession(b) ==
  \/ /\ account' \in FromSession(cookie[b])
     /\ UNCHANGED cookie
  \/ /\ cookie' = [cookie EXCEPT ![b] = NoUser]
     /\ UNCHANGED account

Disturb == quiet' = [x \in Browsers |-> FALSE]

Step(b, label) == at' = [at EXCEPT ![b] = label]

End(b) ==
  /\ Step(b, "idle")
  /\ seen' = [seen EXCEPT ![b] = NoUser]
  /\ req' = [req EXCEPT ![b] = NoCode]

\* Any other page: it only loads the session.  Without a cookie, as the
\* requests of other servers, it sets the default account.
Visit(b) ==
  /\ LoadSession(b) /\ Disturb
  /\ UNCHANGED <<vars, flow, history>>

VisitWithoutCookie ==
  /\ account' = defaultAccount /\ Disturb
  /\ UNCHANGED <<vars, cookie, flow, history>>

\* As LoginKeeps, when nothing is compared.
LoginUnchecked(b, a) ==
  /\ cookie' = [cookie EXCEPT ![b] = Kept(a, NoCode)]
  /\ mixed' = mixed \union {c \in {held[b]} \cap Codes : owner[c] # a}
  /\ UNCHANGED loggedIn

\* The password is the one of a: the session becomes a's, and drops its
\* token.  The code the browser may still bring back is of another session.
LoginKeeps(b, a) ==
  /\ cookie' = [cookie EXCEPT ![b] = Kept(a, NoCode)]
  /\ mixed' = mixed \union {c \in {held[b]} \cap Codes : owner[c] # a}
  /\ loggedIn' = loggedIn \union {a}

\* Handler HandleLogin: with a wrong handle or password, or when the session
\* cannot be saved, the cookie stays.
HandleLogin(b, a) ==
  /\ account' \in FromSession(cookie[b])
  /\ \/ LoginKeeps(b, a)
     \/ UNCHANGED <<cookie, history>>
  /\ Disturb
  /\ UNCHANGED <<vars, flow>>

HandleLogout(b) ==
  /\ account' \in FromSession(cookie[b]) \union {account}
  /\ cookie' = [cookie EXCEPT ![b] = NoUser]
  /\ Disturb
  /\ UNCHANGED <<vars, flow, history>>
-----------------------------------------------------------------------------
\* A request of /oauth/authorize begins.  A browser that comes from its login
\* repeats the POST and meets no ValidateLoggedIn.
BeginAuthorize(b) ==
  /\ at[b] = "idle"
  /\ LoadSession(b)
  /\ Step(b, "loaded") \/ Step(b, "validated")
  /\ seen' = [seen EXCEPT ![b] = [cookie'[b] EXCEPT !.token = NoCode]]
  /\ quiet' = [x \in Browsers |-> x = b /\ cookie' = cookie]
  /\ UNCHANGED <<vars, held, owner, req, history>>

\* A reader who is not logged in is sent to /login.
ValidateLoggedIn(b) ==
  /\ at[b] = "loaded"
  /\ \/ IsLogged(account) /\ Step(b, "validated") /\ UNCHANGED <<seen, req>>
     \/ ~IsLogged(account) /\ End(b)
  /\ UNCHANGED <<vars, account, cookie, held, owner, quiet, history>>

\* Handler Authorize asks whether the reader is logged in.
Authorized(b) ==
  /\ at[b] = "validated"
  /\ \/ IsLogged(account) /\ Step(b, "authorized") /\ UNCHANGED <<seen, req>>
     \/ ~IsLogged(account) /\ End(b)
  /\ UNCHANGED <<vars, account, cookie, held, owner, quiet, history>>

\* It then reads the account again, for the UserData of the code, and
\* redirects the browser with it.
Authorize(b, c) ==
  /\ at[b] = "authorized"
  /\ SaveAuthorize(c)
  /\ owner' = [owner EXCEPT ![c] = account.who]
  /\ held' = [held EXCEPT ![b] = c]
  /\ mixed' = IF quiet[b] THEN mixed ELSE mixed \union {c}
  /\ End(b)
  /\ UNCHANGED <<account, cookie, quiet, loggedIn>>

\* The client is unknown, or the code cannot be stored.
AuthorizeFails(b) ==
  /\ at[b] = "authorized"
  /\ End(b)
  /\ UNCHANGED <<vars, account, cookie, held, owner, quiet, history>>
-----------------------------------------------------------------------------
\* The redirect brings the browser and its code to /auth/local/callback.
BeginCallback(b) ==
  /\ at[b] = "idle" /\ held[b] # NoCode
  /\ LoadSession(b) /\ Disturb
  /\ Step(b, "callback")
  /\ seen' = [seen EXCEPT ![b] = [cookie'[b] EXCEPT !.token = NoCode]]
  /\ UNCHANGED <<vars, held, owner, req, history>>

\* Handler Token: UserData is decoded over what the account of the handler is,
\* which keeps CreatedAt, a field that is not encoded.
Token(r, c) ==
  /\ HandleAccessRequest(r, c)
  /\ LET who == [account EXCEPT !.who = owner[c]]
     IN  \/ pc'[r] \in {"refused", "panicked"} /\ UNCHANGED account
         \/ /\ LoadAuthorize(c) = "ok"
            /\ pc'[r] = IF IsLogged(who) THEN "granted" ELSE "refused"
            /\ account' = who
  /\ Disturb

\* The callback exchanges its code; the request of the exchange has no cookie,
\* so that the default account is set before it is Token's turn.
Exchange(b) ==
  /\ at[b] = "callback"
  /\ account' = defaultAccount /\ Disturb
  /\ Step(b, "exchanging")
  /\ UNCHANGED <<vars, cookie, seen, held, owner, req, history>>

TokenOfCallback(b, r) ==
  /\ at[b] = "exchanging" /\ req[b] = NoCode
  /\ Token(r, held[b])
  /\ req' = [req EXCEPT ![b] = r]
  /\ UNCHANGED <<cookie, at, seen, held, owner, history>>

\* A client that is not the callback asks for a token.
TokenOfClient(r, c) ==
  /\ Token(r, c)
  /\ UNCHANGED <<cookie, flow, history>>

\* A step of osin, for either.
TokenStep(r) ==
  /\ \/ SaveAccess(r) \/ SaveAccessFails(r)
     \/ RemoveAuthorize(r) \/ RemoveAuthorizeFails(r)
  /\ UNCHANGED <<account, cookie, flow, quiet, history>>

\* As FinishCallback, for the account as the token request left it.
FinishCallbackUnloaded(b, r) ==
  /\ at[b] = "exchanging" /\ req[b] = r
  /\ HandleCallback(r)
  /\ UNCHANGED account
  /\ cookie' = [cookie EXCEPT ![b] = Kept(account.who, r)]
  /\ End(b) /\ Disturb
  /\ UNCHANGED <<held, owner, history>>

\* The account is loaded anew, from the session the callback came with, and is
\* kept with the token.
FinishCallback(b, r) ==
  /\ at[b] = "exchanging" /\ req[b] = r
  /\ HandleCallback(r)
  /\ account' \in FromSession(seen[b])
  /\ cookie' = [cookie EXCEPT ![b] = Kept(account'.who, r)]
  /\ End(b) /\ Disturb
  /\ UNCHANGED <<held, owner, history>>

CallbackFails(b) ==
  /\ at[b] = "exchanging" /\ req[b] # NoCode
  /\ pc[req[b]] \in {"refused", "panicked"}
  /\ End(b)
  /\ UNCHANGED <<vars, account, cookie, held, owner, quiet, history>>

\* The process dies and is started again: cookies and tables stay.
Restart ==
  /\ Crash
  /\ account' = defaultAccount
  /\ at' = [b \in Browsers |-> "idle"]
  /\ seen' = [b \in Browsers |-> NoUser]
  /\ req' = [b \in Browsers |-> NoCode]
  /\ quiet' = [b \in Browsers |-> FALSE]
  /\ UNCHANGED <<cookie, held, owner, history>>

ExpireCode(c) ==
  /\ Expire(c)
  /\ UNCHANGED <<account, cookie, flow, quiet, history>>

SessionNext ==
  \/ Restart \/ VisitWithoutCookie
  \/ \E b \in Browsers :
       \/ Visit(b) \/ HandleLogout(b)
       \/ BeginAuthorize(b) \/ ValidateLoggedIn(b) \/ Authorized(b)
       \/ AuthorizeFails(b)
       \/ BeginCallback(b) \/ Exchange(b) \/ CallbackFails(b)
       \/ \E a \in Accounts : HandleLogin(b, a)
       \/ \E c \in Codes : Authorize(b, c)
       \/ \E r \in Requests : TokenOfCallback(b, r) \/ FinishCallback(b, r)
  \/ \E r \in Requests : TokenStep(r) \/ \E c \in Codes : TokenOfClient(r, c)
  \/ \E c \in Codes : ExpireCode(c)

SessionSpec == SessionInit /\ [][SessionNext]_sessionVars
-----------------------------------------------------------------------------
SessionTypeOK ==
  /\ TypeOK
  /\ account \in AccountValues
  /\ cookie \in [Browsers -> SessionValues]
  /\ at \in [Browsers -> {"idle", "loaded", "validated", "authorized",
                          "callback", "exchanging"}]
  /\ seen \in [Browsers -> SessionValues]
  /\ held \in [Browsers -> Codes \union {NoCode}]
  /\ owner \in [Codes -> Users]
  /\ req \in [Browsers -> Requests \union {NoCode}]
  /\ quiet \in [Browsers -> BOOLEAN]
  /\ mixed \subseteq Codes
  /\ loggedIn \subseteq Accounts
  /\ \A b \in Browsers : at[b] \in {"callback", "exchanging"} => held[b] # NoCode

\* The token in a session is one of the account of that session, or the session
\* is nobody's, unless the code was got while another request set the account
\* of the handler, or the browser logged in to another account before it came
\* back with the code (HandleCallback frontend.go 587-593, Authorize oauth.go
\* 50-54, Token oauth.go 66-73).
TokenMatchesSession ==
  \A b \in Browsers : LET t == cookie[b].token IN
    t # NoCode => \/ cookie[b].who \in {owner[access[t]], Anonymous}
                  \/ access[t] \in mixed

\* Whatever requests of other browsers run in between, codes, sessions and the
\* account of the handler are nobody's or of an account that has logged in with
\* its password (HandleLogin login.go 46-61, LoadSession frontend.go 752).
OwnersLoggedIn ==
  /\ \A c \in Codes : owner[c] \in loggedIn \union {Anonymous}
  /\ \A b \in Browsers : cookie[b].who \in loggedIn \union {Anonymous}
  /\ account.who \in loggedIn \union {Anonymous}
=============================================================================
