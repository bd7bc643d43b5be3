----------------------------- MODULE Lifecycle -----------------------------
(***************************************************************************)
(* main.run: from the command line to the exit code.  The main goroutine   *)
(* starts the exporter and the HTTP server, waits for a signal or the end  *)
(* of the server and shuts both down; beside it run the server's goroutine *)
(* and the handlers of requests, and signals arrive at any moment.         *)
(* Exporter models what the scheduler does between Start and Stop.         *)
(***************************************************************************)
EXTENDS Settings, FiniteSets

CONSTANTS
  Invocations,  \* flags and environments the process may be run with
  Requests,     \* requests for /readyz, each made at most once
  MaxSignals    \* bound: SIGINTs and SIGTERMs the process is sent

ASSUME SignalsAssumption == MaxSignals \in Nat

ASSUME InvocationsAssumption ==
  \A i \in Invocations :
    /\ i.labels.env \in Seq(LabelPairs) /\ i.labels.flag \in Seq(LabelPairs)
    /\ \A n \in Numbers :
         i.numbers[n].flag \in Int /\ i.numbers[n].env \in NumberVariables

NoCode == -1

VARIABLES
  main,      \* where the main goroutine stands
  inv,       \* the invocation
  code,      \* run's exit code
  sched,     \* the scheduler's context: "none", "live" or "cancelled"
  stopped,   \* e.stopped
  server,    \* listenAndServe: "none", "starting", "listening" or "ended"
  closing,   \* http.Server.inShutdown
  errCh,     \* "empty", "closed" (http.ErrServerClosed) or "failed"
  notified,  \* signals go to sigCh instead of killing the process
  sigCh,     \* signals in sigCh, which holds one
  sent,      \* signals sent so far
  handler    \* a request: "none", "open", found "fit" or "unfit" by its handler,
             \* answered "ready" (200) or "unready" (503)

exporterVars == <<sched, stopped>>
serverVars == <<server, closing, errCh>>
signalVars == <<notified, sigCh, sent>>
vars == <<main, inv, code, exporterVars, serverVars, signalVars, handler>>

Ended == {"exited", "killed", "panicked"}
Alive == main \notin Ended

Open == {q \in Requests : handler[q] \in {"open", "fit", "unfit"}}

Ready == ~stopped /\ sched # "cancelled"

Exit(c) == main' = "exited" /\ code' = c

-----------------------------------------------------------------------------
Init ==
  /\ main = "configure"
  /\ inv \in Invocations
  /\ code = NoCode
  /\ sched = "none" /\ stopped = FALSE
  /\ server = "none" /\ closing = FALSE /\ errCh = "empty"
  /\ notified = FALSE /\ sigCh = 0 /\ sent = 0
  /\ handler = [q \in Requests |-> "none"]

(* Returns before anything runs beside the main goroutine. *)
RejectFlags ==
  /\ main = "configure" /\ ~inv.parses
  /\ Exit(2)
  /\ UNCHANGED <<inv, exporterVars, serverVars, signalVars, handler>>

ShowVersion ==
  /\ main = "configure" /\ inv.parses /\ inv.version
  /\ Exit(0)
  /\ UNCHANGED <<inv, exporterVars, serverVars, signalVars, handler>>

RefuseSettings ==
  /\ main = "configure" /\ inv.parses /\ ~inv.version
  /\ Refused(inv)
  /\ Exit(1)
  /\ UNCHANGED <<inv, exporterVars, serverVars, signalVars, handler>>

Configure ==
  /\ main = "configure" /\ inv.parses /\ ~inv.version
  /\ ~Refused(inv)
  /\ main' = "register"
  /\ UNCHANGED <<inv, code, exporterVars, serverVars, signalVars, handler>>

(* MustRegister; a panic ends the process with exit code 2. *)
Register ==
  /\ main = "register"
  /\ IF Registers(Configuration(inv).labels)
     THEN main' = "start" /\ UNCHANGED code
     ELSE main' = "panicked" /\ code' = 2
  /\ UNCHANGED <<inv, exporterVars, serverVars, signalVars, handler>>

StartExporter ==
  /\ main = "start"
  /\ sched' = "live"
  /\ main' = "spawn"
  /\ UNCHANGED <<inv, code, stopped, serverVars, signalVars, handler>>

SpawnServer ==
  /\ main = "spawn"
  /\ server' = "starting"
  /\ main' = "notify"
  /\ UNCHANGED <<inv, code, exporterVars, closing, errCh, signalVars,
                 handler>>

Notify ==
  /\ main = "notify"
  /\ notified' = TRUE
  /\ main' = "select"
  /\ UNCHANGED <<inv, code, exporterVars, serverVars, sigCh, sent, handler>>

(* mutant: the exporter is left to the deferred calls *)
SelectSignalDrainsFirst ==
  /\ main = "select"
  /\ sigCh > 0
  /\ sigCh' = sigCh - 1
  /\ main' = "shutdown"
  /\ UNCHANGED <<inv, code, exporterVars, serverVars, notified, sent,
                 handler>>

SelectSignal ==
  /\ main = "select"
  /\ sigCh > 0
  /\ sigCh' = sigCh - 1
  /\ main' = "cancel"
  /\ UNCHANGED <<inv, code, exporterVars, serverVars, notified, sent,
                 handler>>

(* mutant: run returns past its deferred calls *)
SelectErrorExits ==
  /\ main = "select"
  /\ errCh # "empty"
  /\ errCh' = "empty"
  /\ Exit(1)
  /\ UNCHANGED <<inv, exporterVars, server, closing, signalVars, handler>>

SelectError ==
  /\ main = "select"
  /\ errCh # "empty"
  /\ errCh' = "empty"
  /\ IF errCh = "closed"
     THEN main' = "cancel" /\ UNCHANGED code
     ELSE main' = "unwind" /\ code' = 1
  /\ UNCHANGED <<inv, exporterVars, server, closing, signalVars, handler>>

(* appCancel() *)
CancelContext ==
  /\ main = "cancel"
  /\ sched' = "cancelled"
  /\ main' = "stop"
  /\ UNCHANGED <<inv, code, stopped, serverVars, signalVars, handler>>

(* exporter.Stop() *)
StopExporter ==
  /\ main = "stop"
  /\ stopped' = TRUE
  /\ main' = "shutdown"
  /\ UNCHANGED <<inv, code, sched, serverVars, signalVars, handler>>

(* shutdownServer: no new connection; nil at once if none is in use. *)
Shutdown ==
  /\ main = "shutdown"
  /\ closing' = TRUE
  /\ IF Open = {} THEN main' = "unwind" /\ code' = 0
                  ELSE main' = "drain" /\ UNCHANGED code
  /\ UNCHANGED <<inv, exporterVars, server, errCh, signalVars, handler>>

(* mutant: the error of Shutdown is ignored *)
DrainCutShort ==
  /\ main = "drain"
  /\ main' = "unwind" /\ code' = 0
  /\ UNCHANGED <<inv, exporterVars, serverVars, signalVars, handler>>

(* mutant: the context of the drain has no deadline *)
DrainForever ==
  /\ main = "drain"
  /\ Open = {}
  /\ main' = "unwind" /\ code' = 1
  /\ UNCHANGED <<inv, exporterVars, serverVars, signalVars, handler>>

(* Shutdown polls until every connection is idle... *)
Drained ==
  /\ main = "drain"
  /\ Open = {}
  /\ main' = "unwind" /\ code' = 0
  /\ UNCHANGED <<inv, exporterVars, serverVars, signalVars, handler>>

(* ... or the context of ten seconds is done. *)
DrainTimeout ==
  /\ main = "drain"
  /\ main' = "unwind" /\ code' = 1
  /\ UNCHANGED <<inv, exporterVars, serverVars, signalVars, handler>>

(* Deferred: signalStop, then exporter.Stop and appCancel; run returns.    *)
StopSignals ==
  /\ main = "unwind"
  /\ notified' = FALSE
  /\ main' = "return"
  /\ UNCHANGED <<inv, code, exporterVars, serverVars, sigCh, sent, handler>>

Return ==
  /\ main = "return"
  /\ stopped' = TRUE
  /\ sched' = "cancelled"
  /\ main' = "exited"
  /\ UNCHANGED <<inv, code, serverVars, signalVars, handler>>

-----------------------------------------------------------------------------
(* The server's goroutine (net/http) and the handlers *)

Listens ==
  /\ Alive /\ server = "starting" /\ ~closing
  /\ server' = "listening"
  /\ UNCHANGED <<main, inv, code, exporterVars, closing, errCh,
                 signalVars, handler>>

(* The port is taken, or accepting fails for good. *)
ServerFails ==
  /\ Alive
  /\ \/ server = "starting"
     \/ server = "listening" /\ ~closing
  /\ server' = "ended"
  /\ errCh' = "failed"
  /\ UNCHANGED <<main, inv, code, exporterVars, closing, signalVars,
                 handler>>

(* Serve, or a ListenAndServe that comes too late, after Shutdown.         *)
ServerCloses ==
  /\ Alive /\ server \in {"starting", "listening"} /\ closing
  /\ server' = "ended"
  /\ errCh' = "closed"
  /\ UNCHANGED <<main, inv, code, exporterVars, closing, signalVars,
                 handler>>

Accept(q) ==
  /\ Alive /\ server = "listening" /\ ~closing
  /\ handler[q] = "none"
  /\ handler' = [handler EXCEPT ![q] = "open"]
  /\ UNCHANGED <<main, inv, code, exporterVars, serverVars, signalVars>>

(* ReadyHandler: cacheStatus looks under e.cacheMu ... *)
Ask(q) ==
  /\ Alive /\ handler[q] = "open"
  /\ handler' = [handler EXCEPT ![q] = IF Ready THEN "fit" ELSE "unfit"]
  /\ UNCHANGED <<main, inv, code, exporterVars, serverVars, signalVars>>

(* ... and what it found is written after it has been released. *)
Tell(q) ==
  /\ Alive /\ handler[q] \in {"fit", "unfit"}
  /\ handler' = [handler EXCEPT ![q] = IF @ = "fit" THEN "ready" ELSE "unready"]
  /\ UNCHANGED <<main, inv, code, exporterVars, serverVars, signalVars>>

(* A signal kills the process unless it is notified; one that finds sigCh  *)
(* full is dropped.                                                        *)
Signal ==
  /\ Alive /\ sent < MaxSignals
  /\ sent' = sent + 1
  /\ IF notified THEN sigCh' = 1 /\ UNCHANGED main
                 ELSE main' = "killed" /\ UNCHANGED sigCh
  /\ UNCHANGED <<inv, code, exporterVars, serverVars, notified, handler>>

(* Not a step of the program: the process is gone. *)
Gone == ~Alive /\ UNCHANGED vars

Main ==
  \/ RejectFlags \/ ShowVersion \/ RefuseSettings \/ Configure \/ Register
  \/ StartExporter \/ SpawnServer \/ Notify \/ SelectSignal \/ SelectError
  \/ CancelContext \/ StopExporter \/ Shutdown \/ Drained \/ DrainTimeout
  \/ StopSignals \/ Return

Next ==
  \/ Main \/ Listens \/ ServerFails \/ ServerCloses \/ Signal \/ Gone
  \/ \E q \in Requests : Accept(q) \/ Ask(q) \/ Tell(q)

Spec == Init /\ [][Next]_vars

(* The runtime keeps the main goroutine running, and the timer of the      *)
(* drain fires.  Nothing is assumed of the server, of handlers, which may  *)
(* hang, or of signals.                                                    *)
FairSpec == Spec /\ WF_vars(Main)

-----------------------------------------------------------------------------
(* Properties *)

Places == {"configure", "register", "start", "spawn", "notify", "select",
           "cancel", "stop", "shutdown", "drain", "unwind", "return"}

(* Every variable but inv, which no step changes, keeps its shape; sigCh   *)
(* never holds more than one signal.                                       *)
TypeOK ==
  /\ main \in Places \cup Ended
  /\ code \in {NoCode, 0, 1, 2}
  /\ sched \in {"none", "live", "cancelled"} /\ stopped \in BOOLEAN
  /\ server \in {"none", "starting", "listening", "ended"}
  /\ closing \in BOOLEAN
  /\ errCh \in {"empty", "closed", "failed"}
  /\ notified \in BOOLEAN /\ sigCh \in {0, 1} /\ sent \in 0..MaxSignals
  /\ handler \in [Requests -> {"none", "open", "fit", "unfit", "ready", "unready"}]

(* What the process runs with is what it was given (main.run, ParseLabels, *)
(* ChooseInt, ChooseDuration): over the pairs of the environment followed  *)
(* by those of the flag, the last pair of each label name wins and no      *)
(* other name appears; and no interval, timeout or size is zero or less.   *)
SettingsAsGiven ==
  main = "start" =>
    LET config == Configuration(inv)
        pairs == inv.labels.env \o inv.labels.flag
        Proper == {i \in DOMAIN pairs : pairs[i].assigns /\ pairs[i].key # ""}
    IN  /\ DOMAIN config.labels = {pairs[i].key : i \in Proper}
        /\ \A i \in Proper :
             \/ config.labels[pairs[i].key] = pairs[i].value
             \/ \E j \in Proper : j > i /\ pairs[j].key = pairs[i].key
        /\ \A n \in Numbers : config.numbers[n] > 0

(* On whatever path run returns, the scheduler it started is cancelled and *)
(* the exporter stopped (the deferred calls of run).                       *)
NoSchedulerOutlivesRun ==
  main = "exited" /\ sched # "none" => sched = "cancelled" /\ stopped

(* Requests that are told to send more, now or when their handler writes.  *)
ToldReady == {q \in Requests : handler[q] \in {"fit", "ready"}}

(* Once the server is being shut down no more requests are found ready: run *)
(* stops the exporter before it closes the server, and README's /readyz    *)
(* "returns 503 after `Stop` or cancellation of the scheduler context".    *)
(* Only a handler that looked before may still write its 200, as the lock  *)
(* it looked under is released by then.                                    *)
DrainingFindsNoneReady == [][closing => ToldReady' \subseteq ToldReady]_vars

(* Exit code 0 of a process that was serving means that a signal asked for *)
(* it and that no request was cut off.                                     *)
CleanExit ==
  main = "exited" /\ code = 0 /\ sched # "none" => sent > 0 /\ Open = {}

(* Every signal ends the process, whenever it arrives and whatever the     *)
(* handlers do, and so does the failure of the server.                     *)
RunEnds == (sent > 0 \/ errCh = "failed") ~> ~Alive

(* A configuration that ValidateLabels lets pass can be registered: it     *)
(* refuses each "reserved exporter label" (internal/config/config.go).     *)
AcceptedLabelsRegister == main # "panicked"

=============================================================================
