--------------------------- MODULE Configuration ---------------------------
(***************************************************************************)
(* The global configuration, app.Instance: loadEnv (app/app.go) makes it   *)
(* from the environment and the .env files when the server starts, and     *)
(* again when SIGHUP is received.  That second time it runs beside the     *)
(* handlers, which read the fields it assigns one after the other.         *)
(*                                                                         *)
(* Three variables stand for all: LOG_LEVEL is read before the files are   *)
(* (ENV too, but only until it is valid), HTTPS and API_URL after them.    *)
(* Every other one is read and assigned at once, as HTTPS is.  The two     *)
(* files .env and .env.<env> are one here.  HostName is assigned at the    *)
(* first load only: OwnHost.                                               *)
(*                                                                         *)
(* What a handler does with a field is shown by the one that stores the    *)
(* activity of another instance: saveActivity (app/db/db.go) cuts the host *)
(* off an IRI that HostIsLocal.                                            *)
(***************************************************************************)
EXTENDS Lifecycle

CONSTANTS MaxEdits  \* bound: how often a variable in the files is edited

ASSUME EditsAssumption == MaxEdits \in Nat

VARIABLES
  file,    \* what the .env files give each variable, or Removed
  env,     \* the environment of the process; "" also for a missing variable
  config,  \* the fields of app.Instance
  at,      \* the next thing loadEnv does, "start" when it is not running
  stored,  \* the IRI each request stored: none, whole or cut
  asked,   \* a SIGHUP was sent since the last edit
  edits    \* how often a variable was edited

configVars == <<file, env, config, at, stored, asked, edits>>
allVars == <<vars, configVars>>

Removed == "removed"
OwnHost == "own"
Values(v) == CASE v = "LOG_LEVEL" -> {"debug"}
               [] v = "HTTPS" -> {"true"}
               [] v = "API_URL" -> {"", "api"}
Variables == {"LOG_LEVEL", "HTTPS", "API_URL"}
Files == {f \in [Variables -> {"", "debug", "true", "api", Removed}] :
            \A v \in Variables : f[v] \in Values(v) \union {Removed}}

\* godotenv.Overload: the variables of a file replace those of the process.
Overloaded(e, f) ==
  [v \in Variables |-> IF f[v] = Removed THEN e[v] ELSE f[v]]

\* The host of BaseURL, and of the API below it unless API_URL is set.
Level(e) == IF e["LOG_LEVEL"] = "debug" THEN "debug" ELSE "info"
Secure(e) == e["HTTPS"] = "true"
BaseURL(c) == <<IF c.Secure THEN "https" ELSE "http", OwnHost>>
NoURL == <<"", "">>
URLs == {"http", "https"} \X {OwnHost, "api"}
APIURL(e) == IF e["API_URL"] = "" THEN NoURL ELSE <<"https", e["API_URL"]>>
DefaultAPIURL(c) == IF c.APIURL = NoURL THEN c.BaseURL ELSE c.APIURL

\* New runs loadEnv before anything else runs; nothing but the files has set
\* a variable, and LOG_LEVEL is read before they are.
ConfigInit ==
  /\ Init
  /\ file \in Files
  /\ env = Overloaded([v \in Variables |-> ""], file)
  /\ LET base == BaseURL([Secure |-> Secure(env)])
     IN config = [LogLevel |-> "info", Secure |-> Secure(env), BaseURL |-> base,
                  APIURL |-> DefaultAPIURL([BaseURL |-> base, APIURL |-> APIURL(env)])]
  /\ at = "start"
  /\ stored = [r \in Requests |-> "none"]
  /\ asked = FALSE
  /\ edits = 0

Edit ==
  /\ Running /\ edits < MaxEdits
  /\ \E v \in Variables :
       \E x \in (Values(v) \union {Removed}) \ {file[v]} :
         file' = [file EXCEPT ![v] = x]
  /\ edits' = edits + 1
  /\ asked' = FALSE
  /\ UNCHANGED <<vars, env, config, at, stored>>

\* As Signal, with a channel that holds nothing while the goroutine is busy.
SignalUnbuffered(s) ==
  /\ Running /\ sent[s] < MaxSignals[s]
  /\ sent' = [sent EXCEPT ![s] = @ + 1]
  /\ sigChan' = IF sigChan = NoSignal /\ handling = NoSignal THEN s ELSE sigChan
  /\ asked' = (asked \/ s = "SIGHUP")
  /\ UNCHANGED <<server, main, handling, request, expired, exit>>
  /\ UNCHANGED <<file, env, config, at, stored, edits>>

Signal(s) ==
  /\ SendSignal(s)
  /\ asked' = (asked \/ s = "SIGHUP")
  /\ UNCHANGED <<file, env, config, at, stored, edits>>

\* One assignment of loadEnv, which the signal goroutine is running.
Loading(step, next) ==
  /\ Running /\ handling \in Signals \ StopsMain
  /\ at = step
  /\ at' = next
  /\ UNCHANGED <<vars, file, stored, asked, edits>>

\* As ReadLevel, making the fields empty before they are read again.
ReadLevelAfresh ==
  /\ Loading("start", "files")
  /\ config' = [config EXCEPT !.LogLevel = Level(env), !.APIURL = NoURL]
  /\ UNCHANGED env

ReadLevel ==
  /\ Loading("start", "files")
  /\ config' = [config EXCEPT !.LogLevel = Level(env)]
  /\ UNCHANGED env

ReadFiles ==
  /\ Loading("files", "secure")
  /\ env' = Overloaded(env, file)
  /\ UNCHANGED config

AssignSecure ==
  /\ Loading("secure", "base")
  /\ config' = [config EXCEPT !.Secure = Secure(env)]
  /\ UNCHANGED env

AssignBaseURL ==
  /\ Loading("base", "api")
  /\ config' = [config EXCEPT !.BaseURL = BaseURL(config)]
  /\ UNCHANGED env

AssignAPIURL ==
  /\ Loading("api", "default")
  /\ config' = [config EXCEPT !.APIURL = APIURL(env)]
  /\ UNCHANGED env

\* The last assignment; loadEnv returns.
FinishReload ==
  /\ at = "default"
  /\ Reload
  /\ at' = "start"
  /\ config' = [config EXCEPT !.APIURL = DefaultAPIURL(config)]
  /\ UNCHANGED <<file, env, stored, asked, edits>>

\* The hosts a handler may read from APIURL: while a reload replaces it by
\* another string the read is a race, and may give a part of one.
Replacing ==
  \/ at = "api" /\ config.APIURL # APIURL(env)
  \/ at = "default" /\ config.APIURL = NoURL
APIHosts == {config.APIURL[2]} \union IF Replacing THEN {"", "torn"} ELSE {}

\* strings.Contains: the empty host of no URL is contained in every host.
HostIsLocal(h, apiHost) == h = OwnHost \/ apiHost \in {"", h}

\* A request delivers an activity of another instance, which is stored.
StoreActivity(r) ==
  /\ Running
  /\ request[r] = "active" /\ stored[r] = "none"
  /\ \E h \in APIHosts :
       stored' = [stored EXCEPT ![r] =
                    IF HostIsLocal("remote", h) THEN "cut" ELSE "whole"]
  /\ UNCHANGED <<vars, file, env, config, at, asked, edits>>

\* The steps of Lifecycle that have nothing to do with the configuration.
Serve ==
  /\ \/ \E r \in Requests : Open(r) \/ Answer(r)
     \/ ListenFails \/ ServerExits \/ ReceiveSignal \/ SendExit
     \/ CloseListeners \/ Deadline \/ ShutdownReturns \/ MainExits
  /\ UNCHANGED configVars

LoadEnv ==
  \/ ReadLevel \/ ReadFiles \/ AssignSecure \/ AssignBaseURL
  \/ AssignAPIURL \/ FinishReload

ConfigNext ==
  \/ Serve \/ Edit \/ LoadEnv
  \/ \E s \in Signals : Signal(s)
  \/ \E r \in Requests : StoreActivity(r)

ConfigSpec == ConfigInit /\ [][ConfigNext]_allVars

\* The goroutines are scheduled, and the deadline of the context comes.
ConfigFairness ==
  /\ WF_allVars(LoadEnv)
  /\ WF_allVars(ReceiveSignal /\ UNCHANGED configVars)
  /\ WF_allVars(SendExit /\ UNCHANGED configVars)
  /\ WF_allVars(CloseListeners /\ UNCHANGED configVars)
  /\ WF_allVars(Deadline /\ UNCHANGED configVars)
  /\ WF_allVars(ShutdownReturns /\ UNCHANGED configVars)
  /\ WF_allVars(MainExits /\ UNCHANGED configVars)
  /\ WF_allVars(ServerExits /\ UNCHANGED configVars)

FairConfigSpec == ConfigSpec /\ ConfigFairness
-----------------------------------------------------------------------------
\* The type invariant, also of Lifecycle; loadEnv runs only in the handling of
\* a signal, and its last assignment is the only one that waits for another.
ConfigTypeOK ==
  /\ TypeOK
  /\ file \in Files
  /\ \A v \in Variables : env[v] \in Values(v) \union {""}
  /\ config \in [LogLevel : {"info", "debug"}, Secure : BOOLEAN,
                 BaseURL : URLs, APIURL : URLs \union {NoURL}]
  /\ at \in {"start", "files", "secure", "base", "api", "default"}
  /\ at # "start" => handling \in Signals \ StopsMain
  /\ stored \in [Requests -> {"none", "whole", "cut"}]
  /\ asked \in BOOLEAN
  /\ edits \in 0..MaxEdits

\* An edit of the files that is followed by a SIGHUP, at whatever moment of an
\* earlier reload and also when that signal is dropped, has been read into the
\* configuration once no signal is left, except LOG_LEVEL, unless the server is
\* stopping (loadEnv lines 229-277; Run lines 304-315).
EditIsRead ==
  (asked /\ Running /\ main = "waiting" /\ sigChan = NoSignal /\ handling = NoSignal)
    => /\ \A v \in Variables : file[v] # Removed => env[v] = file[v]
       /\ config.Secure = Secure(env)
       /\ config.BaseURL = BaseURL(config)
       /\ config.APIURL = IF env["API_URL"] = "" THEN config.BaseURL ELSE APIURL(env)

\* While a reload assigns one field after the other, the IRI of another
\* instance's activity is taken for a local one and cut only if API_URL is not
\* set, or at the assignment that changes it: the fields are replaced, never
\* cleared (loadEnv lines 274-277; HostIsLocal of app/converter.go; saveActivity
\* of app/db/db.go).
RemoteIRIsStayWhole ==
  [][\A r \in Requests :
       stored'[r] = "cut" /\ stored[r] # "cut"
         => \/ env["API_URL"] = ""
            \/ at = "api" /\ config.APIURL # APIURL(env)]_allVars
=============================================================================
