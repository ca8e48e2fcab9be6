---------------------------- MODULE Lifecycle_proofs ----------------------------
(* Run does not return before its worker has finished the accepted items, for  *)
(* queues of every length.                                                      *)
EXTENDS Lifecycle, TLAPS

\* The wait group counts the worker from its start until runWorker has returned; it
\* stays counted for ever when wait.Until skips the worker.  The queue is shut down
\* by Run only, after it stopped waiting for stopCh.
WorkerCounted ==
    /\ until = "none" <=> run \notin {"running", "down", "wait", "returned"}
    /\ until = "none" => running = 0
    /\ until \in {"spawned", "idle", "busy"} => running = 1
    /\ queueDown <=> run \in {"wait", "waitErr", "returned", "failed"}
    /\ until = "ended" /\ running = 0 => queueDown /\ items = 0
    /\ run = "returned" => running = 0

IInv == TypeOK /\ WorkerCounted

\* The process starts with the invariant.
LEMMA IInvInitially == Init => IInv
<1> SUFFICES ASSUME Init PROVE IInv
  OBVIOUS
<1>1. Flags
  BY Zenon DEF Init, Flags
<1>2. Places
  BY MaxItemsAssumption DEF Init, Places
<1>3. WorkerCounted
  BY DEF Init, WorkerCounted
<1> QED
  BY <1>1, <1>2, <1>3 DEF IInv, TypeOK

\* Every flag stays a Boolean.
LEMMA FlagsPreserved == Flags /\ [Next]_vars => Flags'
<1> SUFFICES ASSUME Flags, [Next]_vars PROVE Flags'
  OBVIOUS
<1> USE DEF Flags, mainVars, apiVars, runVars, workVars
<1>1. CASE ReceiveSignals
  BY <1>1, Zenon DEF ReceiveSignals
<1>2. CASE Signal
  BY <1>2, Zenon DEF Signal
<1>3. CASE Main
  BY <1>3, Zenon DEF Main, SelectDone, SelectApiErr, SelectCtrlErr, Shutdown,
                     StopAPIServer, Exit
<1>4. CASE ApiFails \/ HandlerAdds
  BY <1>4, Zenon DEF ApiFails, HandlerAdds
<1>5. CASE InformersSync \/ InformersFail \/ LoadState \/ SetReadiness \/ StartWorker
  BY <1>5, Zenon DEF InformersSync, InformersFail, LoadState, SetReadiness,
                     StartWorker, RunTo
<1>6. CASE StopReceived \/ QueueShutDown \/ RunReturns
  BY <1>6, Zenon DEF StopReceived, QueueShutDown, RunReturns, RunTo
<1>7. CASE Worker
  BY <1>7, Zenon DEF Worker, UntilChecks, WorkerGets, WorkerDone, WorkerQuits
<1>8. CASE UNCHANGED vars
  BY <1>8, Zenon DEF vars
<1> QED
  BY <1>1, <1>2, <1>3, <1>4, <1>5, <1>6, <1>7, <1>8, Zenon DEF Next, Run

\* The wait group counts the worker from its start to its last item.
LEMMA WorkerCountedPreserved ==
    Places /\ WorkerCounted /\ [Next]_vars => Places' /\ WorkerCounted'
<1> SUFFICES ASSUME Places, WorkerCounted, [Next]_vars PROVE Places' /\ WorkerCounted'
  OBVIOUS
<1> USE MaxItemsAssumption DEF Places, WorkerCounted, mainVars, apiVars, runVars, workVars
<1>1. CASE ReceiveSignals
  BY <1>1 DEF ReceiveSignals
<1>2. CASE Signal
  BY <1>2 DEF Signal
<1>3. CASE SelectDone \/ SelectApiErr \/ SelectCtrlErr
  BY <1>3 DEF SelectDone, SelectApiErr, SelectCtrlErr
<1>4. CASE Shutdown \/ StopAPIServer \/ Exit
  BY <1>4 DEF Shutdown, StopAPIServer, Exit
<1>5. CASE ApiFails
  BY <1>5 DEF ApiFails
<1>6. CASE InformersSync \/ InformersFail \/ LoadState \/ SetReadiness
  BY <1>6 DEF InformersSync, InformersFail, LoadState, SetReadiness, RunTo
<1>7. CASE StartWorker
  BY <1>7 DEF StartWorker, RunTo
<1>8. CASE StopReceived \/ QueueShutDown
  BY <1>8 DEF StopReceived, QueueShutDown, RunTo
<1>9. CASE RunReturns
  BY <1>9 DEF RunReturns
<1>10. CASE UntilChecks \/ WorkerGets \/ WorkerDone
  BY <1>10 DEF UntilChecks, WorkerGets, WorkerDone
<1>11. CASE WorkerQuits
  BY <1>11 DEF WorkerQuits
<1>12. CASE HandlerAdds
  BY <1>12 DEF HandlerAdds
<1>13. CASE UNCHANGED vars
  BY <1>13 DEF vars
<1> QED
  BY <1>1, <1>2, <1>3, <1>4, <1>5, <1>6, <1>7, <1>8, <1>9, <1>10, <1>11, <1>12, <1>13
     DEF Next, Main, Run, Worker

\* Every step of the process keeps the invariant.
LEMMA IInvPreserved == IInv /\ [Next]_vars => IInv'
BY FlagsPreserved, WorkerCountedPreserved DEF IInv, TypeOK

\* Every variable keeps its type; the wait group never counts more than one worker
\* and never goes negative, which would panic.
THEOREM LifecycleTypeOK == Spec => []TypeOK
<1>1. IInv => TypeOK
  BY DEF IInv
<1> QED
  BY <1>1, IInvInitially, IInvPreserved, PTL DEF Spec

\* When Run has returned, the worker is not busy and no accepted item is left.
THEOREM RunWaitsForTheWorker == Spec => []StopsAfterTheWorker
<1>1. IInv => StopsAfterTheWorker
  BY DEF IInv, TypeOK, Places, WorkerCounted, StopsAfterTheWorker
<1> QED
  BY <1>1, IInvInitially, IInvPreserved, PTL DEF Spec
================================================================================
