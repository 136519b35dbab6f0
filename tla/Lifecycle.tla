----------------------------- MODULE Lifecycle -----------------------------
(***************************************************************************)
(* Starting, reloading and stopping the littr.go server: Application.Run   *)
(* (app/app.go).  Three goroutines share two channels: the server          *)
(* goroutine is inside ListenAndServe, the signal goroutine receives from  *)
(* sigChan (capacity 1) and sends to exitChan (no buffer), and the main    *)
(* goroutine waits on exitChan, calls srv.Shutdown and exits.              *)
(*                                                                         *)
(* net/http is modelled from its use here: Shutdown closes the listeners,  *)
(* which makes ListenAndServe return at once, and returns itself when no   *)
(* connection is active or its context has expired.  os/signal drops a     *)
(* signal that finds sigChan full.                                         *)
(***************************************************************************)
EXTENDS Integers

CONSTANTS Requests,   \* connections a client may open
          MaxSignals, \* bound: how often a signal is sent to the process
          NoSignal    \* the signal goroutine, or sigChan, holds none

Stops == {"SIGINT", "SIGTERM", "SIGQUIT"}
Signals == Stops \union {"SIGHUP"}

ASSUME SignalsAssumption ==
  MaxSignals \in [Signals -> Nat] /\ NoSignal \notin Signals

VARIABLES
  server,    \* ListenAndServe: serving, or returned with failed or closed
  main,      \* the main goroutine: waiting, draining (in Shutdown), stopped
  sigChan,   \* the buffered signal, or NoSignal
  handling,  \* the signal the signal goroutine received, or NoSignal
  request,   \* each connection: unopened, active, answered, cut
  expired,   \* the context given to Shutdown has expired
  exit,      \* running, or the status given to os.Exit
  sent       \* how often each signal was sent to the process

vars == <<server, main, sigChan, handling, request, expired, exit, sent>>

Running == exit = "running"
Active == {r \in Requests : request[r] = "active"}

Init ==
  /\ server = "serving"
  /\ main = "waiting"
  /\ sigChan = NoSignal
  /\ handling = NoSignal
  /\ request = [r \in Requests |-> "unopened"]
  /\ expired = FALSE
  /\ exit = "running"
  /\ sent = [s \in Signals |-> 0]

\* os.Exit ends every goroutine; the connections that are open are cut.
Exit(status) ==
  /\ exit' = status
  /\ request' = [r \in Requests |->
                   IF request[r] = "active" THEN "cut" ELSE request[r]]

Open(r) ==
  /\ Running /\ server = "serving"
  /\ request[r] = "unopened"
  /\ request' = [request EXCEPT ![r] = "active"]
  /\ UNCHANGED <<server, main, sigChan, handling, expired, exit, sent>>

Answer(r) ==
  /\ Running
  /\ request[r] = "active"
  /\ request' = [request EXCEPT ![r] = "answered"]
  /\ UNCHANGED <<server, main, sigChan, handling, expired, exit, sent>>

\* ListenAndServe cannot bind, or Accept fails.
ListenFails ==
  /\ Running /\ server = "serving"
  /\ server' = "failed"
  /\ UNCHANGED <<main, sigChan, handling, request, expired, exit, sent>>

\* The server goroutine exits on every error, http.ErrServerClosed included.
ServerExits ==
  /\ Running /\ server # "serving"
  /\ Exit("failure")
  /\ UNCHANGED <<server, main, sigChan, handling, expired, sent>>

SendSignal(s) ==
  /\ Running /\ sent[s] < MaxSignals[s]
  /\ sent' = [sent EXCEPT ![s] = @ + 1]
  /\ sigChan' = IF sigChan = NoSignal THEN s ELSE sigChan
  /\ UNCHANGED <<server, main, handling, request, expired, exit>>

ReceiveSignal ==
  /\ Running
  /\ handling = NoSignal /\ sigChan # NoSignal
  /\ handling' = sigChan
  /\ sigChan' = NoSignal
  /\ UNCHANGED <<server, main, request, expired, exit, sent>>

\* As StopsMain, without a case for SIGQUIT.
PoliteSignals == Signals \ {"SIGHUP", "SIGQUIT"}

\* The signals whose case sends to exitChan.
StopsMain == Stops

Reload ==
  /\ Running
  /\ handling \in Signals \ StopsMain
  /\ handling' = NoSignal
  /\ UNCHANGED <<server, main, sigChan, request, expired, exit, sent>>

\* exitChan has no buffer: the send and the receive of the main goroutine are
\* one step, and after the first the signal goroutine blocks for good.
SendExit ==
  /\ Running
  /\ handling \in StopsMain /\ main = "waiting"
  /\ handling' = NoSignal
  /\ main' = "draining"
  /\ UNCHANGED <<server, sigChan, request, expired, exit, sent>>

\* Shutdown closes the listeners first.
CloseListeners ==
  /\ Running
  /\ main = "draining" /\ server = "serving"
  /\ server' = "closed"
  /\ UNCHANGED <<main, sigChan, handling, request, expired, exit, sent>>

\* As Deadline, with a context made before the signal is awaited.
DeadlineFromStart ==
  /\ Running
  /\ ~expired
  /\ expired' = TRUE
  /\ UNCHANGED <<server, main, sigChan, handling, request, exit, sent>>

Deadline ==
  /\ Running
  /\ main = "draining" /\ ~expired
  /\ expired' = TRUE
  /\ UNCHANGED <<server, main, sigChan, handling, request, exit, sent>>

ShutdownReturns ==
  /\ Running
  /\ main = "draining" /\ server # "serving"
  /\ Active = {} \/ expired
  /\ main' = "stopped"
  /\ UNCHANGED <<server, sigChan, handling, request, expired, exit, sent>>

MainExits ==
  /\ Running /\ main = "stopped"
  /\ Exit("success")
  /\ UNCHANGED <<server, main, sigChan, handling, expired, sent>>

Next ==
  \/ \E r \in Requests : Open(r) \/ Answer(r)
  \/ ListenFails \/ ServerExits
  \/ \E s \in Signals : SendSignal(s)
  \/ ReceiveSignal \/ Reload \/ SendExit
  \/ CloseListeners \/ Deadline \/ ShutdownReturns \/ MainExits

Spec == Init /\ [][Next]_vars
-----------------------------------------------------------------------------
TypeOK ==
  /\ server \in {"serving", "failed", "closed"}
  /\ main \in {"waiting", "draining", "stopped"}
  /\ sigChan \in Signals \union {NoSignal}
  /\ handling \in Signals \union {NoSignal}
  /\ request \in [Requests -> {"unopened", "active", "answered", "cut"}]
  /\ expired \in BOOLEAN
  /\ exit \in {"running", "success", "failure"}
  /\ sent \in [Signals -> Nat]
  /\ \A s \in Signals : sent[s] <= MaxSignals[s]
  /\ expired => main # "waiting"

\* A connection is cut by an exit with status 0 only after the deadline of the
\* graceful stop (Run lines 335-347).
SuccessfulExitIsGraceful ==
  (exit = "success" /\ \E r \in Requests : request[r] = "cut") => expired

\* A stop signal that found room in sigChan ends the process, even while
\* connections hang and other signals follow (Run lines 308-347).
StopEndsProcess == (sigChan \in Stops \/ handling \in Stops) ~> ~Running

\* Whatever signals arrive and whichever is dropped because sigChan is full,
\* the main goroutine leaves its wait, and the process exits with status 0,
\* only if it was sent a stop signal: reloading never stops it (Run lines
\* 311-332).
OnlyStopsStop ==
  (main # "waiting" \/ exit = "success") => \E s \in Stops : sent[s] > 0

\* main.go line 44, -graceful-timeout: "the duration for which the server
\* gracefully wait for existing connections to finish", and app/app.go lines
\* 340-341: "will otherwise wait until the timeout deadline".  A connection
\* that is open when Shutdown closes the listeners is not cut before the
\* deadline.
StopIsGraceful ==
  (server = "closed" /\ \E r \in Requests : request[r] = "cut") => expired
=============================================================================
