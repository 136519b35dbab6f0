-------------------------- MODULE LifecycleProofs --------------------------
(***************************************************************************)
(* Proofs about Lifecycle, for any set of connections and any number of    *)
(* signals: its type invariant, that exit status 0 is reached without      *)
(* cutting a connection before the deadline, and only on a stop signal.    *)
(***************************************************************************)
EXTENDS Configuration, TLAPS

\* Type correctness of every reachable state of Run.
THEOREM TypeCorrect == Spec => []TypeOK
<1> USE SignalsAssumption DEF TypeOK, Stops, Signals, Running, Exit
<1>1. Init => TypeOK
  <2>1. Init => sent \in [Signals -> Nat]
    BY DEF Init
  <2>2. Init => \A s \in Signals : sent[s] <= MaxSignals[s]
    BY DEF Init
  <2> QED
    BY <2>1, <2>2, Zenon DEF Init
<1>2. TypeOK /\ [Next]_vars => TypeOK'
  <2> SUFFICES ASSUME TypeOK, [Next]_vars
               PROVE  TypeOK'
    OBVIOUS
  <2>1. ASSUME NEW r \in Requests, Open(r) \/ Answer(r)
        PROVE  TypeOK'
    BY <2>1 DEF Open, Answer
  <2>2. CASE ListenFails \/ ServerExits \/ MainExits
    BY <2>2 DEF ListenFails, ServerExits, MainExits
  <2>3. ASSUME NEW s \in Signals, SendSignal(s)
        PROVE  TypeOK'
    BY <2>3 DEF SendSignal
  <2>4. CASE ReceiveSignal \/ Reload \/ SendExit
    BY <2>4 DEF ReceiveSignal, Reload, SendExit, StopsMain
  <2>5. CASE CloseListeners \/ Deadline \/ ShutdownReturns
    BY <2>5 DEF CloseListeners, Deadline, ShutdownReturns
  <2>6. CASE UNCHANGED vars
    BY <2>6 DEF vars
  <2> QED
    BY <2>1, <2>2, <2>3, <2>4, <2>5, <2>6 DEF Next
<1> QED
  BY <1>1, <1>2, PTL DEF Spec

\* The strengthening of SuccessfulExitIsGraceful: a running process has cut
\* nobody, and once Shutdown has returned nobody is left to cut, because the
\* listeners are closed, or the deadline has passed.
GracefulInv ==
  /\ Running => \A r \in Requests : request[r] # "cut"
  /\ main = "stopped" => server # "serving"
  /\ main = "stopped" => Active = {} \/ expired
  /\ exit = "success" /\ (\E r \in Requests : request[r] = "cut") => expired

\* An exit with status 0 cuts a connection only after the deadline.
THEOREM GracefulSuccess == Spec => []SuccessfulExitIsGraceful
<1>1. Init => GracefulInv
  BY DEF Init, GracefulInv, Active, Running
<1>2. TypeOK /\ GracefulInv /\ [Next]_vars => GracefulInv'
  <2> SUFFICES ASSUME TypeOK, GracefulInv, [Next]_vars
               PROVE  GracefulInv'
    OBVIOUS
  <2> USE DEF TypeOK, GracefulInv, Active, Running
  <2>1. ASSUME NEW r \in Requests, Open(r)
        PROVE  GracefulInv'
    BY <2>1 DEF Open
  <2>2. ASSUME NEW r \in Requests, Answer(r)
        PROVE  GracefulInv'
    BY <2>2 DEF Answer
  <2>3. CASE ListenFails \/ CloseListeners \/ Deadline
    BY <2>3 DEF ListenFails, CloseListeners, Deadline
  <2>4. CASE ServerExits
    BY <2>4 DEF ServerExits, Exit
  <2>5. ASSUME NEW s \in Signals, SendSignal(s)
        PROVE  GracefulInv'
    BY <2>5 DEF SendSignal
  <2>6. CASE ReceiveSignal \/ Reload \/ SendExit
    BY <2>6 DEF ReceiveSignal, Reload, SendExit
  <2>7. CASE ShutdownReturns
    BY <2>7 DEF ShutdownReturns
  <2>8. CASE MainExits
    BY <2>8 DEF MainExits, Exit
  <2>9. CASE UNCHANGED vars
    BY <2>9 DEF vars
  <2> QED
    BY <2>1, <2>2, <2>3, <2>4, <2>5, <2>6, <2>7, <2>8, <2>9 DEF Next
<1>3. GracefulInv => SuccessfulExitIsGraceful
  BY DEF GracefulInv, SuccessfulExitIsGraceful
<1> QED
  BY <1>1, <1>2, <1>3, TypeCorrect, PTL DEF Spec

\* The strengthening of OnlyStopsStop: a stop signal that is buffered or being
\* handled, and a main goroutine that has left its wait, were caused by one.
StopSent == \E s \in Stops : sent[s] > 0
SignalInv ==
  /\ sigChan \in Stops => StopSent
  /\ handling \in Stops => StopSent
  /\ main # "waiting" => StopSent
  /\ exit = "success" => main # "waiting"

\* The process stops serving and exits with status 0 only on a stop signal.
THEOREM StopsAreAsked == Spec => []OnlyStopsStop
<1>1. Init => SignalInv
  BY SignalsAssumption DEF Init, SignalInv, Stops, Signals
<1>2. TypeOK /\ SignalInv /\ [Next]_vars => SignalInv'
  <2> SUFFICES ASSUME TypeOK, SignalInv, [Next]_vars
               PROVE  SignalInv'
    OBVIOUS
  <2>1. ASSUME UNCHANGED sent
        PROVE  StopSent' <=> StopSent
    BY <2>1 DEF StopSent
  <2>2. ASSUME NEW s \in Signals, SendSignal(s)
        PROVE  SignalInv'
    <3>1. StopSent => StopSent'
      BY <2>2, SignalsAssumption DEF SendSignal, StopSent, TypeOK, Stops, Signals
    <3>2. s \in Stops => StopSent'
      BY <2>2, SignalsAssumption DEF SendSignal, StopSent, TypeOK, Stops, Signals
    <3> QED
      BY <2>2, <3>1, <3>2 DEF SignalInv, SendSignal
  <2>3. CASE ReceiveSignal \/ Reload \/ SendExit
    BY <2>1, <2>3, SignalsAssumption
    DEF SignalInv, ReceiveSignal, Reload, SendExit, StopsMain, Stops, Signals
  <2>4. CASE ShutdownReturns \/ MainExits \/ ServerExits
    BY <2>1, <2>4 DEF SignalInv, ShutdownReturns, MainExits, ServerExits, Exit
  <2>5. CASE ListenFails \/ CloseListeners \/ Deadline
    BY <2>1, <2>5 DEF SignalInv, ListenFails, CloseListeners, Deadline
  <2>6. ASSUME NEW r \in Requests, Open(r) \/ Answer(r)
        PROVE  SignalInv'
    BY <2>1, <2>6 DEF SignalInv, Open, Answer
  <2>7. CASE UNCHANGED vars
    BY <2>1, <2>7 DEF SignalInv, vars
  <2> QED
    BY <2>2, <2>3, <2>4, <2>5, <2>6, <2>7 DEF Next
<1>3. SignalInv => OnlyStopsStop
  BY DEF SignalInv, OnlyStopsStop, StopSent
<1> QED
  BY <1>1, <1>2, <1>3, TypeCorrect, PTL DEF Spec

\* The safety half of StopEndsProcess: while the process runs, a stop signal
\* that found room in sigChan is there, or with the signal goroutine, until the
\* main goroutine has left its wait, to which it never returns.  Other signals,
\* dropped ones and the reloads before it take nothing of that away.
StopPending == sigChan \in Stops \/ handling \in Stops \/ main # "waiting"

StopIsKept == [][StopPending => StopPending' \/ ~Running']_vars

\* No stop signal is lost between the goroutines.
THEOREM StopsAreKept == Spec => StopIsKept
<1>1. TypeOK /\ [Next]_vars => [StopPending => StopPending' \/ ~Running']_vars
  <2> SUFFICES ASSUME TypeOK, [Next]_vars, StopPending
               PROVE  StopPending' \/ ~Running'
    OBVIOUS
  <2> USE SignalsAssumption DEF StopPending, Stops, Signals, Running
  <2>1. ASSUME NEW r \in Requests, Open(r) \/ Answer(r)
        PROVE  StopPending'
    BY <2>1 DEF Open, Answer
  <2>2. CASE ServerExits \/ MainExits
    BY <2>2 DEF ServerExits, MainExits, Exit
  <2>3. ASSUME NEW s \in Signals, SendSignal(s)
        PROVE  StopPending'
    BY <2>3 DEF SendSignal
  <2>4. CASE ReceiveSignal
    BY <2>4 DEF ReceiveSignal
  <2>5. CASE Reload
    BY <2>5 DEF Reload, StopsMain
  <2>6. CASE SendExit
    BY <2>6 DEF SendExit
  <2>7. CASE ListenFails \/ CloseListeners \/ Deadline
    BY <2>7 DEF ListenFails, CloseListeners, Deadline
  <2>8. CASE ShutdownReturns
    BY <2>8 DEF ShutdownReturns
  <2>9. CASE UNCHANGED vars
    BY <2>9 DEF vars
  <2> QED
    BY <2>1, <2>2, <2>3, <2>4, <2>5, <2>6, <2>7, <2>8, <2>9 DEF Next
<1> QED
  BY <1>1, TypeCorrect, PTL DEF Spec, StopIsKept

(***************************************************************************)
(* Configuration: reloading beside the handlers changes nothing of how the *)
(* server stops, and no edit that a SIGHUP follows is missed.              *)
(***************************************************************************)
LEMMA ConfigStep == ConfigNext => [Next]_vars
<1>1. LoadEnv => [Next]_vars
  BY DEF LoadEnv, ReadLevel, ReadFiles, AssignSecure, AssignBaseURL,
         AssignAPIURL, FinishReload, Loading, Next, vars
<1>2. ASSUME NEW s \in Signals, Signal(s) PROVE Next
  BY <1>2 DEF Signal, Next
<1>3. Serve => Next
  BY DEF Serve, Next
<1>4. Edit => UNCHANGED vars
  BY DEF Edit
<1>5. ASSUME NEW r \in Requests, StoreActivity(r) PROVE UNCHANGED vars
  BY <1>5 DEF StoreActivity
<1> QED
  BY <1>1, <1>2, <1>3, <1>4, <1>5 DEF ConfigNext

\* Every behaviour of the server with its configuration is one of Lifecycle:
\* a reload that takes several steps is the one step Reload there.
THEOREM ConfigurationImplementsLifecycle == ConfigSpec => Spec
<1>1. ConfigInit => Init
  BY DEF ConfigInit
<1>2. [ConfigNext]_allVars => [Next]_vars
  BY ConfigStep DEF allVars, vars
<1> QED
  BY <1>1, <1>2, PTL DEF ConfigSpec, Spec

\* Type correctness of the configuration, in the middle of a reload too.
THEOREM ConfigTypeCorrect == ConfigSpec => []ConfigTypeOK
<1>1. ConfigInit /\ TypeOK => ConfigTypeOK
  <2> SUFFICES ASSUME ConfigInit, TypeOK PROVE ConfigTypeOK
    OBVIOUS
  <2>1. file \in Files /\ edits = 0 /\ asked = FALSE /\ at = "start"
    BY DEF ConfigInit
  <2>2. \A v \in Variables : env[v] \in Values(v) \union {""}
    BY DEF ConfigInit, Overloaded, Files, Variables, Values
  <2>3. stored \in [Requests -> {"none", "whole", "cut"}]
    BY DEF ConfigInit
  <2>4. APIURL(env) \in URLs \union {NoURL}
    BY <2>2 DEF APIURL, URLs, NoURL, Variables, Values
  <2>5. \A c : BaseURL(c) \in URLs
    BY DEF BaseURL, URLs
  <2>6. config \in [LogLevel : {"info", "debug"}, Secure : BOOLEAN,
                   BaseURL : URLs, APIURL : URLs \union {NoURL}]
    BY <2>4, <2>5 DEF ConfigInit, Secure, DefaultAPIURL
  <2>7. edits \in 0..MaxEdits
    BY <2>1, EditsAssumption
  <2>8. asked \in BOOLEAN
    BY <2>1, Zenon
  <2> QED
    BY <2>1, <2>2, <2>3, <2>6, <2>7, <2>8, Zenon DEF ConfigTypeOK
<1>2. ConfigTypeOK /\ TypeOK' /\ [ConfigNext]_allVars => ConfigTypeOK'
  <2> SUFFICES ASSUME ConfigTypeOK, TypeOK', [ConfigNext]_allVars PROVE ConfigTypeOK'
    OBVIOUS
  <2> USE EditsAssumption DEF ConfigTypeOK
  <2>1. CASE LoadEnv
    <3> USE DEF Loading, vars
    <3>1. APIURL(env) \in URLs \union {NoURL}
      BY DEF APIURL, URLs, NoURL, Variables, Values
    <3>2. \A c : BaseURL(c) \in URLs
      BY DEF BaseURL, URLs
    <3>3. CASE ReadLevel
      BY <3>3 DEF ReadLevel, Level
    <3>4. CASE ReadFiles
      BY <3>4 DEF ReadFiles, Overloaded, Files
    <3>5. CASE AssignSecure
      BY <3>5 DEF AssignSecure, Secure
    <3>6. CASE AssignBaseURL
      <4>1. BaseURL(config) \in URLs
        BY <3>2
      <4> QED
        BY <3>6, <4>1 DEF AssignBaseURL
    <3>7. CASE AssignAPIURL
      BY <3>1, <3>7 DEF AssignAPIURL
    <3>8. CASE FinishReload
      BY <3>8 DEF FinishReload, DefaultAPIURL
    <3> QED
      BY <2>1, <3>3, <3>4, <3>5, <3>6, <3>7, <3>8 DEF LoadEnv
  <2>2. ASSUME NEW s \in Signals, Signal(s)
        PROVE  ConfigTypeOK'
    BY <2>2 DEF Signal, SendSignal
  <2>3. CASE Edit
    <3>1. PICK v \in Variables :
            \E x \in Values(v) \union {Removed} : file' = [file EXCEPT ![v] = x]
      BY <2>3 DEF Edit
    <3> PICK x \in Values(v) \union {Removed} : file' = [file EXCEPT ![v] = x]
      BY <3>1
    <3>2. x \in {"", "debug", "true", "api", Removed}
      BY <3>1 DEF Values, Variables
    <3>3. file' \in [Variables -> {"", "debug", "true", "api", Removed}]
      BY <3>1, <3>2 DEF Files
    <3>4. \A w \in Variables : file'[w] \in Values(w) \union {Removed}
      BY <3>1, Zenon DEF Files
    <3>5. file' \in Files
      BY <3>3, <3>4 DEF Files
    <3>6. edits' \in 0..MaxEdits
      <4>1. edits < MaxEdits /\ edits' = edits + 1
        BY <2>3, Zenon DEF Edit
      <4>2. edits \in 0..MaxEdits /\ MaxEdits \in Nat
        BY Zenon
      <4> HIDE DEF ConfigTypeOK
      <4> QED
        BY <4>1, <4>2, SMT
    <3>7. asked' \in BOOLEAN
      BY <2>3, Zenon DEF Edit
    <3>8. UNCHANGED <<env, config, at, stored, handling>>
      BY <2>3 DEF Edit, vars
    <3> QED
      BY <3>5, <3>6, <3>7, <3>8, Zenon
  <2>4. ASSUME NEW r \in Requests, StoreActivity(r)
        PROVE  ConfigTypeOK'
    BY <2>4 DEF StoreActivity, vars
  <2>5. CASE Serve
    <3>1. UNCHANGED configVars
      BY <2>5 DEF Serve
    <3>2. at = "start" \/ UNCHANGED handling
      BY <2>5, SignalsAssumption
      DEF Serve, Open, Answer, ListenFails, ServerExits, Exit, ReceiveSignal, SendExit,
          CloseListeners, Deadline, ShutdownReturns, MainExits, StopsMain
    <3> QED
      BY <3>1, <3>2 DEF configVars
  <2>6. CASE UNCHANGED allVars
    BY <2>6 DEF allVars, vars, configVars
  <2> QED
    BY <2>1, <2>2, <2>3, <2>4, <2>5, <2>6 DEF ConfigNext
<1> QED
  BY <1>1, <1>2, TypeCorrect, ConfigurationImplementsLifecycle, PTL DEF ConfigSpec

\* What each step of loadEnv has assigned already.
SettledAPI ==
  config.APIURL = IF env["API_URL"] = "" THEN config.BaseURL ELSE APIURL(env)
Assigned ==
  /\ at # "secure" => config.Secure = Secure(env)
  /\ at \notin {"secure", "base"} => config.BaseURL = BaseURL(config)
  /\ at \in {"start", "files"} => SettledAPI
  /\ at = "default" => config.APIURL = APIURL(env)
  /\ at \in {"start", "files", "secure", "base", "api", "default"}

\* While a SIGHUP is owed an answer a signal is in the channel, a stop signal is
\* being handled, or a reload is that has yet to read the files; or it has read.
FilesRead == \A v \in Variables : file[v] # Removed => env[v] = file[v]
Owed ==
  asked /\ Running /\ main = "waiting" =>
    \/ sigChan # NoSignal
    \/ handling \in Stops
    \/ handling = "SIGHUP" /\ at \in {"start", "files"}
    \/ FilesRead

ReloadInv ==
  /\ Assigned
  /\ Owed
  /\ at # "start" => handling = "SIGHUP"

LEMMA ReloadInvInit == ConfigInit => ReloadInv
<1> SUFFICES ASSUME ConfigInit PROVE ReloadInv
  OBVIOUS
<1>1. at = "start" /\ asked = FALSE
  BY DEF ConfigInit
<1>2. /\ config.Secure = Secure(env)
      /\ config.BaseURL = BaseURL([Secure |-> Secure(env)])
      /\ config.APIURL = DefaultAPIURL([BaseURL |-> config.BaseURL, APIURL |-> APIURL(env)])
  BY DEF ConfigInit
<1>3. config.BaseURL = BaseURL(config)
  BY <1>2 DEF BaseURL
<1>4. SettledAPI
  BY <1>2 DEF SettledAPI, DefaultAPIURL, APIURL, NoURL
<1> QED
  BY <1>1, <1>2, <1>3, <1>4 DEF ReloadInv, Assigned, Owed

LEMMA ReloadInvStep ==
  ASSUME ConfigTypeOK, ReloadInv, [ConfigNext]_allVars
  PROVE  ReloadInv'
<1> USE SignalsAssumption DEF StopsMain, Signals, Stops, Running
<1>1. CASE LoadEnv
  <2> USE DEF ReloadInv, Assigned, Owed, Loading, vars
  <2>1. CASE ReadLevel
    <3>1. /\ config'.Secure = config.Secure
          /\ config'.BaseURL = config.BaseURL
          /\ config'.APIURL = config.APIURL
      BY <2>1 DEF ReadLevel, ConfigTypeOK
    <3> QED
      BY <2>1, <3>1 DEF ReadLevel, SettledAPI, BaseURL, FilesRead
  <2>2. CASE ReadFiles
    <3>1. FilesRead'
      BY <2>2 DEF ReadFiles, FilesRead, Overloaded
    <3> QED
      BY <2>2, <3>1 DEF ReadFiles
  <2>3. CASE AssignSecure
    BY <2>3 DEF AssignSecure, FilesRead, Secure, ConfigTypeOK
  <2>4. CASE AssignBaseURL
    BY <2>4 DEF AssignBaseURL, FilesRead, BaseURL, Secure, ConfigTypeOK
  <2>5. CASE AssignAPIURL
    BY <2>5 DEF AssignAPIURL, FilesRead, BaseURL, Secure, APIURL, ConfigTypeOK
  <2>6. CASE FinishReload
    <3>1. config' = [config EXCEPT !.APIURL = DefaultAPIURL(config)] /\ env' = env
      BY <2>6 DEF FinishReload
    <3>2. /\ config'.APIURL = DefaultAPIURL(config)
          /\ config'.BaseURL = config.BaseURL
          /\ config.APIURL = APIURL(env)
      BY <2>6, <3>1 DEF FinishReload, ConfigTypeOK
    <3>3. SettledAPI'
      <4>1. CASE env["API_URL"] = ""
        BY <3>1, <3>2, <4>1 DEF SettledAPI, DefaultAPIURL, APIURL
      <4>2. CASE env["API_URL"] # ""
        <5>1. APIURL(env) # NoURL
          BY <4>2 DEF APIURL, NoURL
        <5> QED
          BY <3>1, <3>2, <4>2, <5>1 DEF SettledAPI, DefaultAPIURL, APIURL
      <4> QED
        BY <4>1, <4>2
    <3> QED
      BY <2>6, <3>1, <3>3 DEF FinishReload, Reload, FilesRead, BaseURL, Secure, ConfigTypeOK
  <2> QED
    BY <1>1, <2>1, <2>2, <2>3, <2>4, <2>5, <2>6 DEF LoadEnv
<1>2. ASSUME NEW s \in Signals, Signal(s)
      PROVE  ReloadInv'
  BY <1>2 DEF ReloadInv, Assigned, Owed, Signal, SendSignal, ConfigTypeOK, TypeOK, SettledAPI, FilesRead,
              BaseURL, Secure, APIURL
<1>3. CASE Edit
  BY <1>3 DEF ReloadInv, Assigned, Owed, Edit, vars, SettledAPI, BaseURL, Secure, APIURL
<1>4. ASSUME NEW r \in Requests, StoreActivity(r)
      PROVE  ReloadInv'
  BY <1>4 DEF ReloadInv, Assigned, Owed, StoreActivity, vars, SettledAPI, FilesRead,
              BaseURL, Secure, APIURL
<1>5. CASE Serve
  <2>1. UNCHANGED configVars
    BY <1>5 DEF Serve
  <2>2. Assigned'
    BY <2>1 DEF ReloadInv, Assigned, configVars, SettledAPI, BaseURL, Secure, APIURL
  <2>3. FilesRead' <=> FilesRead
    BY <2>1 DEF configVars, FilesRead
  <2>4. CASE ReceiveSignal
    BY <2>1, <2>2, <2>3, <2>4 DEF ReloadInv, Owed, ReceiveSignal, configVars, ConfigTypeOK, TypeOK
  <2>5. CASE SendExit
    BY <2>1, <2>2, <2>5 DEF ReloadInv, Owed, SendExit, configVars
  <2>6. CASE ListenFails \/ ServerExits \/ MainExits
    BY <2>1, <2>2, <2>3, <2>6 DEF ReloadInv, Owed, ListenFails, ServerExits, MainExits,
                                  Exit, configVars
  <2>7. CASE CloseListeners \/ Deadline \/ ShutdownReturns
    BY <2>1, <2>2, <2>3, <2>7 DEF ReloadInv, Owed, CloseListeners, Deadline,
                                  ShutdownReturns, configVars
  <2>8. ASSUME NEW r \in Requests, Open(r) \/ Answer(r)
        PROVE  ReloadInv'
    BY <2>1, <2>2, <2>3, <2>8 DEF ReloadInv, Owed, Open, Answer, configVars
  <2> QED
    BY <1>5, <2>4, <2>5, <2>6, <2>7, <2>8 DEF Serve
<1>6. CASE UNCHANGED allVars
  BY <1>6 DEF ReloadInv, Assigned, Owed, allVars, vars, configVars, SettledAPI, FilesRead,
              BaseURL, Secure, APIURL
<1> QED
  BY <1>1, <1>2, <1>3, <1>4, <1>5, <1>6 DEF ConfigNext

\* No edit is missed, however many signals come, and whenever.
THEOREM EditsAreRead == ConfigSpec => []EditIsRead
<1>1. ReloadInv => EditIsRead
  BY SignalsAssumption
  DEF ReloadInv, Assigned, Owed, EditIsRead, SettledAPI, FilesRead, Stops, Signals
<1> QED
  BY <1>1, ReloadInvInit, ReloadInvStep, ConfigTypeCorrect, PTL DEF ConfigSpec

\* APIURL is empty only between its two assignments.
NeverCleared == config.APIURL = NoURL => at = "default"

LEMMA NeverClearedInv == ConfigSpec => []NeverCleared
<1> USE DEF NeverCleared
<1>1. \A c : BaseURL(c) # NoURL
  BY DEF BaseURL, NoURL, OwnHost
<1>2. ConfigInit => NeverCleared
  <2> SUFFICES ASSUME ConfigInit PROVE config.APIURL # NoURL
    OBVIOUS
  <2>1. config.BaseURL # NoURL
    BY <1>1 DEF ConfigInit
  <2>2. config.APIURL = DefaultAPIURL([BaseURL |-> config.BaseURL, APIURL |-> APIURL(env)])
    BY DEF ConfigInit
  <2> QED
    BY <2>1, <2>2 DEF DefaultAPIURL
<1>3. ConfigTypeOK /\ ReloadInv /\ NeverCleared /\ [ConfigNext]_allVars => NeverCleared'
  <2> SUFFICES ASSUME ConfigTypeOK, ReloadInv, NeverCleared, [ConfigNext]_allVars
               PROVE  NeverCleared'
    OBVIOUS
  <2>1. CASE LoadEnv
    <3>1. CASE ReadLevel \/ ReadFiles \/ AssignSecure \/ AssignBaseURL
      BY <3>1 DEF ReadLevel, ReadFiles, AssignSecure, AssignBaseURL, Loading, ConfigTypeOK
    <3>2. CASE AssignAPIURL
      BY <3>2 DEF AssignAPIURL, Loading
    <3>3. CASE FinishReload
      <4>1. config.BaseURL # NoURL
        BY <3>3, <1>1 DEF FinishReload, ReloadInv, Assigned
      <4>2. config'.APIURL = DefaultAPIURL(config)
        BY <3>3 DEF FinishReload, ConfigTypeOK
      <4> QED
        BY <4>1, <4>2 DEF DefaultAPIURL
    <3> QED
      BY <2>1, <3>1, <3>2, <3>3 DEF LoadEnv
  <2>2. CASE UNCHANGED <<config, at>>
    BY <2>2
  <2>3. UNCHANGED <<config, at>> \/ LoadEnv
    BY DEF ConfigNext, Serve, Edit, Signal, StoreActivity, allVars, configVars
  <2> QED
    BY <2>1, <2>2, <2>3
<1>4. ConfigSpec => []ReloadInv
  BY ReloadInvInit, ReloadInvStep, ConfigTypeCorrect, PTL DEF ConfigSpec
<1> QED
  BY <1>2, <1>3, <1>4, ConfigTypeCorrect, PTL DEF ConfigSpec

\* An instance that has API_URL set never cuts the IRI of another instance,
\* except in the moment a reload changes it.
THEOREM RemoteIRIsKept == ConfigSpec => RemoteIRIsStayWhole
<1>1. ASSUME ConfigTypeOK, ReloadInv, NeverCleared, [ConfigNext]_allVars,
             NEW r \in Requests, stored'[r] = "cut", stored[r] # "cut",
             env["API_URL"] # ""
      PROVE  at = "api" /\ config.APIURL # APIURL(env)
  <2>1. PICK q \in Requests : StoreActivity(q)
    BY <1>1 DEF ConfigNext, LoadEnv, ReadLevel, ReadFiles, AssignSecure, AssignBaseURL,
                AssignAPIURL, FinishReload, Loading, Serve, Edit, Signal, allVars, configVars
  <2>2. PICK h \in APIHosts :
          stored' = [stored EXCEPT ![q] =
                       IF HostIsLocal("remote", h) THEN "cut" ELSE "whole"]
    BY <2>1 DEF StoreActivity
  <2>3. q = r /\ HostIsLocal("remote", h)
    BY <1>1, <2>2 DEF ConfigTypeOK
  <2>4. h \in {"", "remote"}
    BY <2>3 DEF HostIsLocal, OwnHost
  <2>5. APIURL(env) # NoURL
    BY <1>1 DEF APIURL, NoURL
  <2>6. ~(at = "default" /\ config.APIURL = NoURL)
    BY <1>1, <2>5 DEF ReloadInv, Assigned
  <2>7. config.APIURL \in URLs
    BY <1>1, <2>6 DEF NeverCleared, ConfigTypeOK
  <2>8. config.APIURL[2] \in {OwnHost, "api"}
    BY <2>7 DEF URLs
  <2>9. h # config.APIURL[2]
    BY <2>4, <2>8 DEF OwnHost
  <2> QED
    BY <2>6, <2>9 DEF APIHosts, Replacing
<1>2. ConfigTypeOK /\ ReloadInv /\ NeverCleared /\ [ConfigNext]_allVars
        => [\A r \in Requests :
              stored'[r] = "cut" /\ stored[r] # "cut"
                => \/ env["API_URL"] = ""
                   \/ at = "api" /\ config.APIURL # APIURL(env)]_allVars
  BY <1>1
<1>3. ConfigSpec => []ReloadInv
  BY ReloadInvInit, ReloadInvStep, ConfigTypeCorrect, PTL DEF ConfigSpec
<1> QED
  BY <1>2, <1>3, NeverClearedInv, ConfigTypeCorrect, PTL
  DEF ConfigSpec, RemoteIRIsStayWhole
=============================================================================
