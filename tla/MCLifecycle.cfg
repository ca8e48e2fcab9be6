CONSTANT MaxItems = 2
SPECIFICATION Spec
CHECK_DEADLOCK FALSE
INVARIANT StopsAfterTheWorker
PROPERTIES WorkerStopsWithProcess FailedRunEndsProcess
