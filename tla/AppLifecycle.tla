---------------------------- MODULE AppLifecycle ----------------------------
(***************************************************************************)
(* The deep process (cmd/deep/app/app.go): App.Run starts the module       *)
(* services under one service manager and waits until they have stopped;  *)
(* the serviceFailed listener and the signal goroutine call sm.StopAsync;  *)
(* meanwhile /ready and /status requests are served.                       *)
(*                                                                         *)
(* The service manager and the services are dskit's, outside the          *)
(* repository: a service goes New -> Starting -> Running, may fail from    *)
(* any live state, and after StopAsync goes to Stopping and Terminated     *)
(* (a New one to Terminated at once).  Those transitions are environment   *)
(* actions.  readyHandler is modelled step by step, because it reads the  *)
(* manager and then each module's CheckReady in turn.                      *)
(***************************************************************************)
EXTENDS Integers, Sequences, FiniteSets

CONSTANTS
    Services,         \* the module services InitModuleServices returned
    ReadyModules,     \* which of ingester, generator, frontend this target runs
    StatusEndpoints,  \* the {endpoint} values clients ask /status for
    OverridesLoaded   \* t.overrides != nil

ASSUME AppAssumption ==
    /\ Services # {}
    /\ ReadyModules \subseteq {"ingester", "generator", "frontend"}
    /\ OverridesLoaded \in BOOLEAN

\* The order readyHandler asks the modules in.
CheckOrder == <<"ingester", "generator", "frontend">>

States == {"New", "Starting", "Running", "Stopping", "Terminated", "Failed"}
Stopped == {"Terminated", "Failed"}

\* The sections GET /status writes, and the config modes it understands.
Sections == {"version", "services", "endpoints", "runtime_config", "config"}
Modes == {"", "defaults", "diff", "bogus"}

\* statusResp when the handler panicked and no answer was written.
Panicked == -1

VARIABLES
    svc,            \* the state of each service
    runPc,          \* "init" before StartAsync, "awaiting" in AwaitStopped, "returned"
    runErr,         \* Run returned an error
    stopRequested,  \* sm.StopAsync has been called
    signaled,       \* a termination signal has arrived
    notified,       \* the failed services the serviceFailed listener has handled
    moduleReady,    \* what each module's CheckReady would answer now
    readyPc,        \* 0: no /ready request in progress; i: about to check CheckOrder[i]
    readyResp,      \* the status of the last /ready answer (0 before any)
    statusResp      \* the status of the last /status answer (0 before any)

vars == <<svc, runPc, runErr, stopRequested, signaled, notified, moduleReady,
          readyPc, readyResp, statusResp>>

TypeOK ==
    /\ svc \in [Services -> States]
    /\ runPc \in {"init", "awaiting", "returned"}
    /\ runErr \in BOOLEAN
    /\ stopRequested \in BOOLEAN
    /\ signaled \in BOOLEAN
    /\ notified \subseteq Services
    /\ moduleReady \in [ReadyModules -> BOOLEAN]
    /\ readyPc \in 0..Len(CheckOrder) + 1
    /\ readyResp \in {0, 200, 503}
    /\ statusResp \in {0, 200, 500, Panicked}

Init ==
    /\ svc = [s \in Services |-> "New"]
    /\ runPc = "init"
    /\ runErr = FALSE
    /\ stopRequested = FALSE
    /\ signaled = FALSE
    /\ notified = {}
    /\ moduleReady \in [ReadyModules -> BOOLEAN]
    /\ readyPc = 0
    /\ readyResp = 0
    /\ statusResp = 0

\* sm.IsHealthy(): every service is Running.
IsHealthy == \A s \in Services : svc[s] = "Running"

AnyFailed == \E s \in Services : svc[s] = "Failed"

\* sm.StopAsync(): a New service is Terminated at once, a Starting or
\* Running one starts stopping; stopped and stopping ones are left alone.
StopAsync ==
    svc' = [s \in Services |->
              CASE svc[s] = "New" -> "Terminated"
                [] svc[s] \in {"Starting", "Running"} -> "Stopping"
                [] OTHER -> svc[s]]

\* sm.StartAsync(context.Background()) in Run: each service still New is
\* started, in the map's order, until one is found in another state (the
\* signal goroutine already stopped it), and then Run returns the error.
RunStart ==
    /\ runPc = "init"
    /\ IF \A s \in Services : svc[s] = "New"
         THEN /\ svc' = [s \in Services |-> "Starting"]
              /\ runPc' = "awaiting"
              /\ UNCHANGED runErr
         ELSE /\ \E started \in SUBSET {s \in Services : svc[s] = "New"} :
                    svc' = [s \in Services |-> IF s \in started THEN "Starting" ELSE svc[s]]
              /\ runPc' = "returned"
              /\ runErr' = TRUE
    /\ UNCHANGED <<stopRequested, signaled, notified, moduleReady, readyPc,
                   readyResp, statusResp>>

\* sm.AwaitStopped(context.Background()) returns nil once every service is
\* Terminated or Failed, and Run returns it.
RunReturns ==
    /\ runPc = "awaiting"
    /\ \A s \in Services : svc[s] \in Stopped
    /\ runPc' = "returned"
    /\ UNCHANGED <<svc, runErr, stopRequested, signaled, notified, moduleReady,
                   readyPc, readyResp, statusResp>>

\* Mutant: serviceFailed looks the module up first and calls StopAsync after
\* the loop, which returns as soon as it has found the failed service.
ServiceFailedStopAfterLoop(s) ==
    /\ svc[s] = "Failed"
    /\ s \notin notified
    /\ notified' = notified \cup {s}
    /\ UNCHANGED <<svc, stopRequested, runPc, runErr, signaled, moduleReady,
                   readyPc, readyResp, statusResp>>

\* The manager listener's serviceFailed callback for service s: stop
\* everything, then look up (and log) the failed module.
ServiceFailed(s) ==
    /\ svc[s] = "Failed"
    /\ s \notin notified
    /\ notified' = notified \cup {s}
    /\ StopAsync
    /\ stopRequested' = TRUE
    /\ UNCHANGED <<runPc, runErr, signaled, moduleReady, readyPc,
                   readyResp, statusResp>>

\* A termination signal ends handler.Loop() and the goroutine calls
\* sm.StopAsync().
SignalReceived ==
    /\ ~signaled
    /\ signaled' = TRUE
    /\ StopAsync
    /\ stopRequested' = TRUE
    /\ UNCHANGED <<runPc, runErr, notified, moduleReady, readyPc,
                   readyResp, statusResp>>

\* dskit: a starting service reaches Running, a stopping one Terminated,
\* and any live service may fail.
ServiceRuns(s) ==
    /\ svc[s] = "Starting"
    /\ svc' = [svc EXCEPT ![s] = "Running"]
    /\ UNCHANGED <<runPc, runErr, stopRequested, signaled, notified, moduleReady,
                   readyPc, readyResp, statusResp>>

ServiceTerminates(s) ==
    /\ svc[s] = "Stopping"
    /\ svc' = [svc EXCEPT ![s] = "Terminated"]
    /\ UNCHANGED <<runPc, runErr, stopRequested, signaled, notified, moduleReady,
                   readyPc, readyResp, statusResp>>

ServiceFails(s) ==
    /\ svc[s] \in {"Starting", "Running", "Stopping"}
    /\ svc' = [svc EXCEPT ![s] = "Failed"]
    /\ UNCHANGED <<runPc, runErr, stopRequested, signaled, notified, moduleReady,
                   readyPc, readyResp, statusResp>>

\* A module's readiness (ring membership, an attached querier) changes.
ModuleReadiness(m) ==
    /\ moduleReady' = [moduleReady EXCEPT ![m] = ~@]
    /\ UNCHANGED <<svc, runPc, runErr, stopRequested, signaled, notified,
                   readyPc, readyResp, statusResp>>

\* A GET /ready arrives: readyHandler answers 503 unless every service is
\* Running.
ReadyBegin ==
    /\ readyPc = 0
    /\ IF IsHealthy
         THEN /\ readyResp' = 0
              /\ readyPc' = 1
         ELSE /\ readyResp' = 503
              /\ UNCHANGED readyPc
    /\ UNCHANGED <<svc, runPc, runErr, stopRequested, signaled, notified,
                   moduleReady, statusResp>>

\* The next module check of readyHandler: a module this target runs whose
\* CheckReady fails makes it answer 503.
ReadyCheck ==
    /\ readyPc \in 1..Len(CheckOrder)
    /\ LET m == CheckOrder[readyPc] IN
         IF m \in ReadyModules /\ ~moduleReady[m]
           THEN /\ readyResp' = 503
                /\ readyPc' = 0
           ELSE /\ readyPc' = readyPc + 1
                /\ UNCHANGED readyResp
    /\ UNCHANGED <<svc, runPc, runErr, stopRequested, signaled, notified,
                   moduleReady, statusResp>>

\* Every check passed: http.Error(w, "ready", 200).
ReadyAnswers ==
    /\ readyPc = Len(CheckOrder) + 1
    /\ readyResp' = 200
    /\ readyPc' = 0
    /\ UNCHANGED <<svc, runPc, runErr, stopRequested, signaled, notified,
                   moduleReady, statusResp>>

\* wrapStatus for the sections asked for: the config section fails for a
\* mode it does not know, the runtime config section when the overrides
\* module fails to write it; errors are joined.
StatusError(endpoint, mode, runtimeFails) ==
    LET secs == IF endpoint = "all" THEN Sections ELSE {endpoint}
    IN  \/ "config" \in secs /\ mode \notin {"", "defaults", "diff"}
        \/ "runtime_config" \in secs /\ OverridesLoaded /\ runtimeFails

\* A GET /status or /status/{endpoint}: 500 with the joined errors, or 200.
\* An endpoint that is none of the sections calls the nil function that
\* simpleEndpoints holds for it, and the handler panics.
StatusRequest ==
    /\ \E endpoint \in {"all"} \cup StatusEndpoints, mode \in Modes,
          runtimeFails \in BOOLEAN :
          statusResp' = IF endpoint \notin Sections \cup {"all"} THEN Panicked
                        ELSE IF StatusError(endpoint, mode, runtimeFails) THEN 500
                        ELSE 200
    /\ UNCHANGED <<svc, runPc, runErr, stopRequested, signaled, notified,
                   moduleReady, readyPc, readyResp>>

Next ==
    \/ RunStart
    \/ RunReturns
    \/ SignalReceived
    \/ \E s \in Services :
          ServiceFailed(s) \/ ServiceRuns(s) \/ ServiceTerminates(s) \/ ServiceFails(s)
    \/ \E m \in ReadyModules : ModuleReadiness(m)
    \/ ReadyBegin
    \/ ReadyCheck
    \/ ReadyAnswers
    \/ StatusRequest

\* Run's goroutine, the listener goroutine and the services' goroutines
\* keep running; signals, failures and requests need not happen.
Fairness ==
    /\ WF_vars(RunStart)
    /\ WF_vars(RunReturns)
    /\ \A s \in Services :
          /\ WF_vars(ServiceFailed(s))
          /\ WF_vars(ServiceRuns(s))
          /\ WF_vars(ServiceTerminates(s))

Spec == Init /\ [][Next]_vars /\ Fairness

-----------------------------------------------------------------------------
(* Properties.                                                             *)

\* When a module fails or a signal arrives, every service is eventually
\* stopped and Run returns: the serviceFailed listener and the signal
\* goroutine both call sm.StopAsync, and AwaitStopped then returns.
ShutdownCompletes ==
    (AnyFailed \/ signaled) ~> (runPc = "returned")

\* Every /status request is answered, with 200 or with 500 and the errors.
StatusAlwaysAnswered ==
    statusResp # Panicked

=============================================================================
