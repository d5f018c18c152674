---------------------------- MODULE Orchestrator ----------------------------
(***************************************************************************)
(* Chargeback.Run of operator.go: start the informers, acquire the Presto  *)
(* and Hive connections in parallel (errgroup), open the Prometheus        *)
(* client, wait for the caches to sync, poll a test write to Presto,       *)
(* start the workers (startWorkers), mark the operator initialized, and on *)
(* the stop signal shut the queues down, wait for the workers and close    *)
(* the connections (the deferred closes).                                  *)
(*                                                                         *)
(* Workers are abstracted to running or exited: a queue worker exits once  *)
(* its queue is shut down (its Get reports shutdown), the PrestoTable      *)
(* worker, the ScheduledReportRunner and the Promsum collector exit on the *)
(* stop channel.  Time in the connect loops is counted in connBackoff      *)
(* ticks.                                                                  *)
(***************************************************************************)
EXTENDS Naturals

CONSTANTS
    Kinds,           \* resource kinds with a work queue and workers
    Threadiness,     \* workers per kind (2 in startWorkers)
    DisablePromsum,  \* Config.DisablePromsum
    MaxWaitTicks     \* maxConnWaitTime / connBackoff (180s / 15s = 12)

ASSUME OrchestratorAssumption ==
    /\ Kinds # {}
    /\ Threadiness \in Nat \ {0}
    /\ DisablePromsum \in BOOLEAN
    /\ MaxWaitTicks \in Nat

QueueWorkers == Kinds \X (1..Threadiness)
LoopWorkers ==
    {<<"PrestoTable", 1>>, <<"ScheduledReportRunner", 1>>}
        \cup (IF DisablePromsum THEN {} ELSE {<<"Promsum", 1>>})
Workers == QueueWorkers \cup LoopWorkers

VARIABLES
    rpc,          \* where Run is
    presto,       \* newPrestoConn's loop: "attempt", "backoff", "ok", "failed"
    prestoTicks,  \* its ticks since startTime
    hive,         \* newHiveConn's loop, same states
    hiveTicks,    \* its ticks since startTime
    synced,       \* every informer cache has synced
    probeOk,      \* a test write to Presto has succeeded
    workers,      \* per worker goroutine: "none", "running", "exited"
    wg,           \* the counter of Run's sync.WaitGroup
    initialized,  \* c.initialized
    queuesShut,   \* ShutdownQueues has run
    prestoOpen,   \* c.prestoDB is open
    hiveOpen,     \* the hiveQueryer's connection is open
    stop          \* the stop channel has been closed

vars == <<rpc, presto, prestoTicks, hive, hiveTicks, synced, probeOk, workers,
          wg, initialized, queuesShut, prestoOpen, hiveOpen, stop>>

RunPCs == {"start", "connecting", "prom", "cachesync", "probe", "workers",
           "running", "draining", "returned"}
ConnPCs == {"attempt", "backoff", "ok", "failed"}

-----------------------------------------------------------------------------
(* Plausible bugs, used as mutants.                                        *)

\* newPrestoConn checking the wait ceiling one backoff late.
PrestoAttemptLate(ok) ==
    /\ rpc # "start"
    /\ presto = "attempt"
    /\ IF ok
       THEN /\ presto' = "ok"
            /\ prestoOpen' = TRUE
       ELSE /\ presto' = IF prestoTicks > MaxWaitTicks + 1
                         THEN "failed" ELSE "backoff"
            /\ UNCHANGED prestoOpen
    /\ UNCHANGED <<rpc, prestoTicks, hive, hiveTicks, synced, probeOk, workers,
                   wg, initialized, queuesShut, hiveOpen, stop>>

\* Starting the workers after a non-blocking HasSynced whose result is
\* ignored instead of WaitForCacheSync.
WaitCacheSyncUnchecked ==
    /\ rpc = "cachesync"
    /\ rpc' = "probe"
    /\ UNCHANGED <<presto, prestoTicks, hive, hiveTicks, synced, probeOk,
                   workers, wg, initialized, queuesShut, prestoOpen, hiveOpen,
                   stop>>

\* Polling the Presto write without the stop channel (wait.PollInfinite).
ProbeStopIgnored ==
    /\ FALSE
    /\ UNCHANGED vars

-----------------------------------------------------------------------------

Init ==
    /\ rpc = "start"
    /\ presto = "attempt" /\ prestoTicks = 0
    /\ hive = "attempt" /\ hiveTicks = 0
    /\ synced = FALSE
    /\ probeOk = FALSE
    /\ workers = [w \in Workers |-> "none"]
    /\ wg = 0
    /\ initialized = FALSE
    /\ queuesShut = FALSE
    /\ prestoOpen = FALSE
    /\ hiveOpen = FALSE
    /\ stop = FALSE

\* Run starts the informers and the errgroup's two connection goroutines.
StartInformers ==
    /\ rpc = "start"
    /\ rpc' = "connecting"
    /\ UNCHANGED <<presto, prestoTicks, hive, hiveTicks, synced, probeOk,
                   workers, wg, initialized, queuesShut, prestoOpen, hiveOpen,
                   stop>>

\* newPrestoConn: sql.Open succeeds, or fails and either gives up past
\* maxConnWaitTime or backs off.
PrestoAttempt(ok) ==
    /\ rpc # "start"
    /\ presto = "attempt"
    /\ IF ok
       THEN /\ presto' = "ok"
            /\ prestoOpen' = TRUE
       ELSE /\ presto' = IF prestoTicks > MaxWaitTicks THEN "failed" ELSE "backoff"
            /\ UNCHANGED prestoOpen
    /\ UNCHANGED <<rpc, prestoTicks, hive, hiveTicks, synced, probeOk, workers,
                   wg, initialized, queuesShut, hiveOpen, stop>>

\* newPrestoConn's select: the ticker fires, or the stop channel is closed
\* and it returns the shutdown error.
PrestoBackoff ==
    /\ presto = "backoff"
    /\ IF stop
       THEN /\ presto' = "failed"
            /\ UNCHANGED prestoTicks
       ELSE /\ presto' = "attempt"
            /\ prestoTicks' = prestoTicks + 1
    /\ UNCHANGED <<rpc, hive, hiveTicks, synced, probeOk, workers, wg,
                   initialized, queuesShut, prestoOpen, hiveOpen, stop>>

\* newHiveConn, reached through getHiveConnection: hive.Connect.
HiveAttempt(ok) ==
    /\ rpc # "start"
    /\ hive = "attempt"
    /\ IF ok
       THEN /\ hive' = "ok"
            /\ hiveOpen' = TRUE
       ELSE /\ hive' = IF hiveTicks > MaxWaitTicks THEN "failed" ELSE "backoff"
            /\ UNCHANGED hiveOpen
    /\ UNCHANGED <<rpc, presto, prestoTicks, hiveTicks, synced, probeOk,
                   workers, wg, initialized, queuesShut, prestoOpen, stop>>

\* newHiveConn's select: q.stopCh is nil, so only the ticker fires.
HiveBackoff ==
    /\ hive = "backoff"
    /\ hive' = "attempt"
    /\ hiveTicks' = hiveTicks + 1
    /\ UNCHANGED <<rpc, presto, prestoTicks, synced, probeOk, workers, wg,
                   initialized, queuesShut, prestoOpen, hiveOpen, stop>>

\* g.Wait returns once both goroutines have; on an error Run returns it
\* before any deferred close is registered.
GroupWait ==
    /\ rpc = "connecting"
    /\ presto \in {"ok", "failed"}
    /\ hive \in {"ok", "failed"}
    /\ rpc' = IF presto = "ok" /\ hive = "ok" THEN "prom" ELSE "returned"
    /\ UNCHANGED <<presto, prestoTicks, hive, hiveTicks, synced, probeOk,
                   workers, wg, initialized, queuesShut, prestoOpen, hiveOpen,
                   stop>>

\* Run returns an error after the deferred closes were registered: they run.
ReturnClosing ==
    /\ rpc' = "returned"
    /\ prestoOpen' = FALSE
    /\ hiveOpen' = FALSE

\* newPrometheusConn: promapi.NewClient fails only on a bad address.
PromConn(ok) ==
    /\ rpc = "prom"
    /\ IF ok THEN rpc' = "cachesync" /\ UNCHANGED <<prestoOpen, hiveOpen>>
             ELSE ReturnClosing
    /\ UNCHANGED <<presto, prestoTicks, hive, hiveTicks, synced, probeOk,
                   workers, wg, initialized, queuesShut, stop>>

\* The informers finish their initial list.
CachesSync ==
    /\ rpc # "start"
    /\ ~synced
    /\ synced' = TRUE
    /\ UNCHANGED <<rpc, presto, prestoTicks, hive, hiveTicks, probeOk,
                   workers, wg, initialized, queuesShut, prestoOpen, hiveOpen,
                   stop>>

\* WaitForCacheSync returns true once every cache has synced, false when
\* the stop channel is closed first; Run then returns an error.
WaitCacheSync ==
    /\ rpc = "cachesync"
    /\ \/ synced /\ rpc' = "probe" /\ UNCHANGED <<prestoOpen, hiveOpen>>
       \/ stop /\ ReturnClosing
    /\ UNCHANGED <<presto, prestoTicks, hive, hiveTicks, synced, probeOk,
                   workers, wg, initialized, queuesShut, stop>>

\* wait.PollUntil calls testWriteToPresto every 5s until it succeeds; a
\* failed write leaves Run polling.
ProbeAttempt ==
    /\ rpc = "probe"
    /\ probeOk' = TRUE
    /\ rpc' = "workers"
    /\ UNCHANGED <<presto, prestoTicks, hive, hiveTicks, synced, workers, wg,
                   initialized, queuesShut, prestoOpen, hiveOpen, stop>>

\* PollUntil returns an error when the stop channel is closed; Run ignores
\* it and goes on to start the workers.
ProbeStop ==
    /\ rpc = "probe"
    /\ stop
    /\ rpc' = "workers"
    /\ UNCHANGED <<presto, prestoTicks, hive, hiveTicks, synced, probeOk,
                   workers, wg, initialized, queuesShut, prestoOpen, hiveOpen,
                   stop>>

\* startWorkers spawns every worker goroutine, calling wg.Add on its own
\* copy of the WaitGroup (it is passed by value), then Run sets initialized.
StartWorkers ==
    /\ rpc = "workers"
    /\ workers' = [w \in Workers |-> "running"]
    /\ UNCHANGED wg
    /\ initialized' = TRUE
    /\ rpc' = "running"
    /\ UNCHANGED <<presto, prestoTicks, hive, hiveTicks, synced, probeOk,
                   queuesShut, prestoOpen, hiveOpen, stop>>

\* <-stopCh returns: stop the HTTP server and start ShutdownQueues in a
\* goroutine.
AwaitStop ==
    /\ rpc = "running"
    /\ stop
    /\ rpc' = "draining"
    /\ UNCHANGED <<presto, prestoTicks, hive, hiveTicks, synced, probeOk,
                   workers, wg, initialized, queuesShut, prestoOpen, hiveOpen,
                   stop>>

\* wg.Wait returns when Run's counter is zero; Run returns nil and the
\* deferred closes run.
WaitGroupWait ==
    /\ rpc = "draining"
    /\ wg = 0
    /\ ReturnClosing
    /\ UNCHANGED <<presto, prestoTicks, hive, hiveTicks, synced, probeOk,
                   workers, wg, initialized, queuesShut, stop>>

\* The ShutdownQueues goroutine shuts every work queue down.
ShutdownQueues ==
    /\ rpc \in {"draining", "returned"}
    /\ stop
    /\ ~queuesShut
    /\ queuesShut' = TRUE
    /\ UNCHANGED <<rpc, presto, prestoTicks, hive, hiveTicks, synced, probeOk,
                   workers, wg, initialized, prestoOpen, hiveOpen, stop>>

\* A worker goroutine returns: a queue worker once its queue is shut down,
\* the other loops once the stop channel is closed.
WorkerExit(w) ==
    /\ workers[w] = "running"
    /\ IF w \in QueueWorkers THEN queuesShut ELSE stop
    /\ workers' = [workers EXCEPT ![w] = "exited"]
    /\ UNCHANGED <<rpc, presto, prestoTicks, hive, hiveTicks, synced, probeOk,
                   wg, initialized, queuesShut, prestoOpen, hiveOpen, stop>>

\* The stop channel is closed.
Stop ==
    /\ ~stop
    /\ stop' = TRUE
    /\ UNCHANGED <<rpc, presto, prestoTicks, hive, hiveTicks, synced, probeOk,
                   workers, wg, initialized, queuesShut, prestoOpen, hiveOpen>>

\* Run's steps other than a successful probe, which depends on Presto.
RunStep ==
    \/ StartInformers \/ GroupWait \/ WaitCacheSync \/ ProbeStop
    \/ StartWorkers \/ AwaitStop \/ WaitGroupWait
    \/ \E ok \in BOOLEAN : PromConn(ok)

Next ==
    \/ RunStep \/ ProbeAttempt
    \/ \E ok \in BOOLEAN : PrestoAttempt(ok) \/ HiveAttempt(ok)
    \/ PrestoBackoff \/ HiveBackoff
    \/ CachesSync \/ ShutdownQueues \/ Stop
    \/ \E w \in Workers : WorkerExit(w)

\* Run, the connection goroutines, the ShutdownQueues goroutine and the
\* workers are goroutines the runtime keeps scheduling.  Nothing is assumed
\* of the environment: the caches syncing, the probe or a connect
\* succeeding, the stop signal.
Fairness ==
    /\ WF_vars(RunStep)
    /\ WF_vars(\E ok \in BOOLEAN : PrestoAttempt(ok)) /\ WF_vars(PrestoBackoff)
    /\ WF_vars(\E ok \in BOOLEAN : HiveAttempt(ok)) /\ WF_vars(HiveBackoff)
    /\ WF_vars(ShutdownQueues)
    /\ \A w \in Workers : WF_vars(WorkerExit(w))

Spec == Init /\ [][Next]_vars

FairSpec == Spec /\ Fairness

-----------------------------------------------------------------------------
(* Properties.                                                             *)

\* Type invariant; the tick counters stay within the wait ceiling.
TypeOK ==
    /\ rpc \in RunPCs
    /\ presto \in ConnPCs /\ prestoTicks \in 0..MaxWaitTicks + 1
    /\ hive \in ConnPCs /\ hiveTicks \in 0..MaxWaitTicks + 1
    /\ synced \in BOOLEAN
    /\ probeOk \in BOOLEAN
    /\ workers \in [Workers -> {"none", "running", "exited"}]
    /\ wg \in Nat
    /\ initialized \in BOOLEAN
    /\ queuesShut \in BOOLEAN
    /\ prestoOpen \in BOOLEAN /\ hiveOpen \in BOOLEAN
    /\ stop \in BOOLEAN

\* Spec section 4.8: no worker runs before both connections are up and
\* every cache has synced, whichever of them comes last.
WorkersOnlyAfterStartup ==
    \A w \in Workers :
        workers[w] # "none" => synced /\ presto = "ok" /\ hive = "ok"

\* Once the stop signal arrives Run returns, from whichever startup stage
\* it was in: the connect loops time out or see the signal, the cache wait
\* and the probe poll observe it.
RunReturns ==
    stop ~> (rpc = "returned")

\* Spec section 4.3: the operator admits reconciliation traffic and reports
\* ready only after a test write to Presto has succeeded.
InitializedAfterProbe ==
    initialized => probeOk

\* Spec section 4.8: shutdown waits for every worker to exit before the
\* Presto and Hive connections are closed, so no running worker finds its
\* connection closed.
WorkersSeeOpenConnections ==
    \A w \in Workers :
        workers[w] = "running" => prestoOpen /\ hiveOpen

\* Run leaves no connection open when it returns, on an error as well as
\* after shutdown: a connection one errgroup goroutine opened is closed when
\* the other fails (spec section 4.8: Run closes the Presto and Hive
\* connections before it returns).
NoConnectionLeftOpen ==
    rpc = "returned" => ~prestoOpen /\ ~hiveOpen

=============================================================================
