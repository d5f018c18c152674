\* The four worker kinds of startWorkers, two workers each, the Promsum
\* collector enabled, a wait ceiling of two backoff ticks.
CONSTANTS
    Kinds <- MCKinds
    Threadiness = 2
    DisablePromsum = FALSE
    MaxWaitTicks = 2
SPECIFICATION Spec
INVARIANT WorkersSeeOpenConnections
CHECK_DEADLOCK FALSE
