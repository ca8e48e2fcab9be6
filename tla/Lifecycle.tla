-------------------------------- MODULE Lifecycle --------------------------------
(***************************************************************************)
(* Start and stop of the traefik-mesh process: the goroutines of            *)
(* cmd/mesh/mesh.go and cmd/context.go, and Run and Shutdown of the         *)
(* controller.  What the worker does with an item is Controller's matter;   *)
(* here the work queue is the number of its items.                          *)
(***************************************************************************)
EXTENDS Naturals

CONSTANT MaxItems       \* bound: items in the work queue

ASSUME MaxItemsAssumption == MaxItems \in Nat \ {0}

VARIABLES
    signals,    \* the goroutine of ContextWithSignal that receives from signals
    cancelled,  \* has it cancelled the context?
    signalled,  \* has SIGINT or SIGTERM been sent to the process?
    main,       \* traefikMeshCommand
    api,        \* the goroutine of the API server
    apiErr, ctrlErr,  \* does the error channel hold an error?
    run,        \* Controller.Run
    stopCh,     \* is Controller.stopCh closed?
    ready,      \* the readiness flag of the API
    running,    \* the count of Run's waitGroup
    until,      \* the goroutine of wait.Until
    items,      \* the length of the work queue
    queueDown   \* has the work queue been shut down?

mainVars == <<signals, cancelled, signalled, main>>
apiVars == <<api, apiErr>>
runVars == <<run, ctrlErr, ready, running>>
workVars == <<until, items, queueDown>>
vars == <<mainVars, apiVars, runVars, stopCh, workVars>>

Flags ==
    /\ cancelled \in BOOLEAN /\ signalled \in BOOLEAN /\ stopCh \in BOOLEAN
    /\ apiErr \in BOOLEAN /\ ctrlErr \in BOOLEAN
    /\ ready \in BOOLEAN /\ queueDown \in BOOLEAN

Places ==
    /\ signals \in {"starting", "receiving", "ended"}
    /\ main \in {"select", "stopping", "stopApi", "waiting", "exited"}
    /\ api \in {"serving", "ended"}
    /\ run \in {"informers", "load", "ready", "spawn", "running", "down", "downErr",
                "wait", "waitErr", "returned", "failed"}
    /\ running \in 0 .. 1
    /\ until \in {"none", "spawned", "idle", "busy", "ended"}
    /\ items \in 0 .. MaxItems

TypeOK == Flags /\ Places

Init ==
    /\ signals = "starting" /\ cancelled = FALSE /\ signalled = FALSE
    /\ main = "select"
    /\ api = "serving" /\ apiErr = FALSE
    /\ run = "informers" /\ ctrlErr = FALSE /\ ready = FALSE /\ running = 0
    /\ stopCh = FALSE
    /\ until = "none" /\ items = 0 /\ queueDown = FALSE

--------------------------------------------------------------------------------
(* Signals *)

\* The goroutine reaches its receive.
ReceiveSignals ==
    /\ signals = "starting"
    /\ signals' = "receiving"
    /\ UNCHANGED <<cancelled, signalled, main, apiVars, runVars, stopCh, workVars>>

\* The runtime sends on a channel without buffer and does not wait: a signal is lost
\* unless the goroutine is at its receive.
Signal ==
    /\ main # "exited"
    /\ signalled' = TRUE
    /\ IF signals = "receiving"
       THEN signals' = "ended" /\ cancelled' = TRUE
       ELSE UNCHANGED <<signals, cancelled>>
    /\ UNCHANGED <<main, apiVars, runVars, stopCh, workVars>>

--------------------------------------------------------------------------------
(* The command *)

\* The select: any of the ready cases.  The first two shut the controller down.
SelectDone ==
    /\ main = "select" /\ cancelled
    /\ main' = "stopping"
    /\ UNCHANGED <<signals, cancelled, signalled, apiVars, runVars, stopCh, workVars>>

SelectApiErr ==
    /\ main = "select" /\ apiErr
    /\ main' = "waiting"
    /\ apiErr' = FALSE
    /\ stopCh' = TRUE
    /\ UNCHANGED <<signals, cancelled, signalled, api, runVars, workVars>>

SelectCtrlErr ==
    /\ main = "select" /\ ctrlErr
    /\ main' = "stopApi"
    /\ ctrlErr' = FALSE
    /\ UNCHANGED <<signals, cancelled, signalled, apiVars, run, ready, running,
                   stopCh, workVars>>

\* Controller.Shutdown closes stopCh.
Shutdown ==
    /\ main = "stopping"
    /\ stopCh' = TRUE
    /\ main' = "stopApi"
    /\ UNCHANGED <<signals, cancelled, signalled, apiVars, runVars, workVars>>

\* stopAPIServer: ListenAndServe returns ErrServerClosed at once.
StopAPIServer ==
    /\ main = "stopApi"
    /\ main' = "waiting"
    /\ api' = "ended"
    /\ UNCHANGED <<signals, cancelled, signalled, apiErr, runVars, stopCh, workVars>>

\* wg.Wait returns when both goroutines have ended.
Exit ==
    /\ main = "waiting"
    /\ api = "ended" /\ run \in {"returned", "failed"}
    /\ main' = "exited"
    /\ UNCHANGED <<signals, cancelled, signalled, apiVars, runVars, stopCh, workVars>>

\* The API server stops with an error.
ApiFails ==
    /\ api = "serving"
    /\ api' = "ended"
    /\ apiErr' = TRUE
    /\ UNCHANGED <<mainVars, runVars, stopCh, workVars>>

--------------------------------------------------------------------------------
(* Controller.Run *)

RunTo(from, to) ==
    /\ run = from
    /\ run' = to
    /\ UNCHANGED <<mainVars, apiVars, ctrlErr, stopCh>>

\* The caches synchronise, or the time-out or stopCh ends the wait.
InformersSync ==
    /\ RunTo("informers", "load")
    /\ UNCHANGED <<ready, running, workVars>>

InformersFail ==
    /\ RunTo("informers", "downErr")
    /\ UNCHANGED <<ready, running, workVars>>

\* The tables are loaded, or one of them returns an error.
LoadState ==
    /\ \/ RunTo("load", "ready")
       \/ RunTo("load", "downErr")
    /\ UNCHANGED <<ready, running, workVars>>

SetReadiness ==
    /\ RunTo("ready", "spawn")
    /\ ready' = TRUE
    /\ UNCHANGED <<running, workVars>>

\* waitGroup.Add(1) and go wait.Until(runWorker, time.Second, c.stopCh).
StartWorker ==
    /\ RunTo("spawn", "running")
    /\ running' = running + 1
    /\ until' = "spawned"
    /\ UNCHANGED <<ready, items, queueDown>>

StopReceived ==
    /\ stopCh
    /\ RunTo("running", "down")
    /\ UNCHANGED <<ready, running, workVars>>

\* Fault: the queue is not shut down.
QueueLeftUp ==
    /\ \/ RunTo("down", "wait")
       \/ RunTo("downErr", "waitErr")
    /\ UNCHANGED <<ready, running, workVars>>

\* The deferred function: shut the queue down and wait for the worker.
QueueShutDown ==
    /\ \/ RunTo("down", "wait")
       \/ RunTo("downErr", "waitErr")
    /\ queueDown' = TRUE
    /\ UNCHANGED <<ready, running, until, items>>

\* Fault: Run does not wait for the worker.
RunReturnsAtOnce ==
    /\ \/ /\ run = "wait" /\ run' = "returned"
          /\ UNCHANGED ctrlErr
       \/ /\ run = "waitErr" /\ run' = "failed"
          /\ ctrlErr' = TRUE
    /\ UNCHANGED <<mainVars, apiVars, stopCh, ready, running, workVars>>

\* Fault: the error of Run is not reported.
RunFailsSilently ==
    /\ running = 0
    /\ \/ run = "wait" /\ run' = "returned"
       \/ run = "waitErr" /\ run' = "failed"
    /\ UNCHANGED <<mainVars, apiVars, ctrlErr, stopCh, ready, running, workVars>>

RunReturns ==
    /\ running = 0
    /\ \/ /\ run = "wait" /\ run' = "returned"
          /\ UNCHANGED ctrlErr
       \/ /\ run = "waitErr" /\ run' = "failed"
          /\ ctrlErr' = TRUE
    /\ UNCHANGED <<mainVars, apiVars, stopCh, ready, running, workVars>>

--------------------------------------------------------------------------------
(* The worker goroutine and the handlers *)

\* wait.Until looks at the channel before it calls the function for the first time.
UntilChecks ==
    /\ until = "spawned"
    /\ until' = IF stopCh THEN "ended" ELSE "idle"
    /\ UNCHANGED <<mainVars, apiVars, runVars, stopCh, items, queueDown>>

\* The handlers of the informers add an item, unless the queue is down.
HandlerAdds ==
    /\ run \notin {"returned", "failed"}
    /\ ~queueDown
    /\ items < MaxItems
    /\ items' = items + 1
    /\ UNCHANGED <<mainVars, apiVars, runVars, stopCh, until, queueDown>>

WorkerGets ==
    /\ until = "idle"
    /\ items > 0
    /\ items' = items - 1
    /\ until' = "busy"
    /\ UNCHANGED <<mainVars, apiVars, runVars, stopCh, queueDown>>

WorkerDone ==
    /\ until = "busy"
    /\ until' = "idle"
    /\ UNCHANGED <<mainVars, apiVars, runVars, stopCh, items, queueDown>>

\* Get reports that the queue is down only once it is empty: runWorker returns and
\* its deferred Done is called.  stopCh is closed by then, so wait.Until returns.
WorkerQuits ==
    /\ until = "idle"
    /\ items = 0 /\ queueDown
    /\ until' = "ended"
    /\ running' = running - 1
    /\ UNCHANGED <<mainVars, apiVars, run, ctrlErr, ready, stopCh, items, queueDown>>

--------------------------------------------------------------------------------
(* Specification *)

Main == SelectDone \/ SelectApiErr \/ SelectCtrlErr \/ Shutdown \/ StopAPIServer \/ Exit

Run ==
    \/ InformersSync \/ InformersFail \/ LoadState \/ SetReadiness \/ StartWorker
    \/ StopReceived \/ QueueShutDown \/ RunReturns

Worker == UntilChecks \/ WorkerGets \/ WorkerDone \/ WorkerQuits

Next ==
    \/ ReceiveSignals \/ Signal
    \/ Main \/ ApiFails \/ Run \/ Worker \/ HandlerAdds

\* Every goroutine that can run does; signals, items and failures just happen.
Fairness ==
    WF_vars(ReceiveSignals) /\ WF_vars(Main) /\ WF_vars(Run) /\ WF_vars(Worker)

Spec == Init /\ [][Next]_vars /\ Fairness

--------------------------------------------------------------------------------
(* Properties *)

\* Once Run has returned, the worker neither works nor leaves an accepted item: the
\* queue is drained before the process ends, and nothing is written to the API
\* server after that.
StopsAfterTheWorker ==
    run = "returned" =>
        /\ until # "busy"
        /\ running = 0
        /\ items = 0

\* A process whose worker has started ends when it is told to, after any number of
\* items, whatever else fails meanwhile.
WorkerStopsWithProcess == stopCh /\ until \in {"idle", "busy"} ~> main = "exited"

\* When the controller cannot start, the process does not linger.
FailedRunEndsProcess == run = "failed" ~> main = "exited"

\* controller.go:237: Shutdown shut downs the controller.
ShutdownEndsRun == stopCh ~> run \in {"returned", "failed"}
================================================================================
