# TLA+ models of the chargeback operator (operator-metering)

This directory holds TLA+ models of the concurrent core of
`src/pkg/chargeback/operator.go`. It has:

- TLC configurations that model-check each model on small instances;
- a proof module whose theorems TLAPS checks for every value of the constants.

## 1. The system and its parts

`operator.go` is the controller of the reporting operator. Its parts and how
they interact:

| Part | Code | State | Operations |
|---|---|---|---|
| Informers and work queues | `setupInformers` (139-277), `informers.Run/WaitForCacheSync/HasSynced/ShutdownQueues` (279-308) | the informer caches; per kind one client-go rate-limited queue (queue, dirty and processing sets, the delaying queue's waiting set, per-key failure counts) | AddFunc/UpdateFunc, which call `queue.Add`; resync; `Get`/`Done` in the workers; `ShutDown` |
| Retry policy | `handleErr` (463-481) | the rate limiter's `NumRequeues` | `Forget` on success; `AddRateLimited` while `NumRequeues < 5`; otherwise `Forget` and drop |
| Worker pool | `startWorkers` (386-448) | 2 workers for each of 4 kinds, plus the PrestoTable, ScheduledReportRunner and Promsum loops | `wait.Until(worker, 1s, stopCh)`; `wg.Add`/`wg.Done` |
| Hive client | `hiveQueryer` (515-618) | `hiveConn`, `mu`, `stopCh` | `Query` (up to 3 tries on EOF/EPIPE), `getHiveConnection` (holds `mu` across `newHiveConn`'s backoff loop), `closeHiveConnection` |
| Presto / Prometheus setup | `newPrestoConn` (483-505), `newPrometheusConn` (507-513) | `c.prestoDB`, `c.promConn` | the connect loop with a 3-minute ceiling and a stop branch |
| Orchestrator | `Run` (310-384), `setInitialized` (450-454) | Run's stage; `initialized` | informers, then an errgroup of the Presto and Hive connects, then Prometheus, then `WaitForCacheSync`, then `PollUntil(testWriteToPresto)`, then `startWorkers` and `setInitialized`; on stop, `ShutdownQueues` in a goroutine, then `wg.Wait`, then the deferred closes |

The orchestrator creates everything else. The workers consume the queues, and
they share the Hive client and the Presto DB concurrently. The stop channel
ends everything.

The behaviours that make this code hard:

- several workers share one queue while informer events re-add keys that are
  being synced;
- rate-limited retries race fresh events;
- concurrent `Query` callers share one Hive connection, and one caller closes
  it under the others;
- the mutex is held across a blocking backoff loop;
- a stop signal can arrive at every startup stage;
- shutdown ordering: the workers, then the connections.

What makes each part correct:

- **Queue:** a key is synced by at most one worker at a time (spec invariant
  1), and no update is lost.
- **Hive client:** no connection leaks, only broken connections are closed,
  every `Query` returns, and stop interrupts the connect loop.
- **Orchestrator:**
  - workers start only after both connections are up and the caches are in
    sync;
  - the operator is initialized only after a successful Presto write;
  - Run returns after stop;
  - connections are closed only after the workers exit.

## 2. Modules

### WorkQueue (`WorkQueue.tla`, `MCWorkQueue.tla`, `MCWorkQueue.cfg`)

One resource kind.

- **Constants:** `Keys`, `Workers`, `MaxVersion` (the bound on changes to one
  resource), `MaxRequeues` (handleErr's 5), and the model value `NoKey`.
- **Variables:**
  - `store` (resource version in the cache);
  - the queue's `queue`, `dirty`, `processing`, `shuttingDown`, `failures`
    (NumRequeues) and `waiting` (pending `AddRateLimited` adds);
  - per worker `wstate` and `wkey`;
  - `attempted` (the highest version a sync has read; history);
  - `stop`.

`Add`, `Done` and `Get` follow client-go's `workqueue.Type`. That code is not
in `src/`, so they are modelled from spec section 4.1:

- `Add` is ignored while shutting down or if the key is dirty;
- `Add` of a key being processed marks it dirty but does not queue it;
- `Done` re-queues a key that is dirty.

The actions are:

- `Update`, `Resync`: AddFunc/UpdateFunc and the informer resync;
- `FireDelayed`: the delaying queue's re-add;
- `Get`, `GetShutdown`: the worker loop;
- `Finish(w, ok)`: handleErr, then the deferred `Done`, as one step;
- `Stop`;
- `ShutdownQueues`: `ShutDown` also ends the delaying queue's waiting loop.

`MaxRequeues` is the code's 5, so a key can exhaust its budget.

The constant `Handled` says whether the kind's informer registers
AddFunc/UpdateFunc handlers. `HandleEvent(k)` is then `Add(k)`. For
PrestoTable, StorageLocation and ReportPrometheusQuery, setupInformers
registers none (lines 217-227), so an event only updates the cache. Every
run uses `Handled = TRUE`. For the three kinds without handlers, nothing
under `src/` shows a worker that takes keys from their queues:
`runPrestoTableWorker(stopCh)` is a loop of its own. So no run claims that
their updates are lost.

### KeyedSync (`KeyedSync.tla`): the abstract work queue

KeyedSync states what the queue promises its workers:

- a set `pending` of keys that need a sync;
- per worker the key it `holder`s;
- a flag `closed`.

Its actions are:

- `Mark(k)`: only while not closed;
- `Take(w, k)`: a free worker takes a pending key nobody holds;
- `Release(w)`;
- `Close`.

WorkQueue instantiates it as `KS` with the refinement mapping:

- `pending <- dirty`;
- `holder <- Holder`, the key of each busy worker;
- `closed <- shuttingDown`.

`ImplementsKeyedSync == KS!Spec` and `KeyedSyncServed == KS!Served` are
checked as properties. `Served` says every pending key is eventually held.

### HiveQueryer (`HiveQueryer.tla`, `MCHiveQueryer.tla`)

- **Variables:**
  - `hiveConn` (0 for nil);
  - per connection id `conn` (unused, open or closed);
  - `broken` (the connections the network broke);
  - `mu`;
  - per caller `pc`, `retries`, `using` (the pointer returned by
    `getHiveConnection`) and `elapsed` (backoff ticks).
- **Actions:**
  - `StartQuery`;
  - `GetConn` (takes `mu`; keeps holding it when it starts `newHiveConn`);
  - `ConnectOK`;
  - `ConnectFail(c, e)` (past the ceiling it releases `mu` and returns the
    error; otherwise it backs off);
  - `Tick` (there is no stop branch: `q.stopCh` is nil);
  - `QueryOK`, `QueryErr(c, e)`;
  - `Close` (`closeHiveConnection` plus the loop's `continue`);
  - `CloseFinal`;
  - `Break(i)` (the network);
  - `Stop`.

An error is `"pipe"` (what `io.EOF || isErrBrokenPipe` accepts) or `"other"`.

### Orchestrator (`Orchestrator.tla`, `MCOrchestrator.tla`)

- **Variables:**
  - `rpc`, Run's stage;
  - the two connect loops' state (`presto`, `hive`) and their ticks;
  - `synced`, `probeOk`;
  - per worker goroutine `workers`;
  - `wg`, Run's WaitGroup counter;
  - `initialized`, `queuesShut`;
  - `prestoOpen`, `hiveOpen`;
  - `stop`.

Each action models one step of Run, in order, with its error returns:

- `GroupWait` returns without closing, because the defers are not yet
  registered;
- `ReturnClosing` is the deferred closes;
- `WaitCacheSync` can return false on stop;
- `ProbeAttempt` and `ProbeStop` model PollUntil, whose error is ignored;
- `StartWorkers` leaves `wg` unchanged, because the WaitGroup is copied;
- `WaitGroupWait` waits for `wg = 0`.

`PrestoAttempt`, `PrestoBackoff`, `HiveAttempt` and `HiveBackoff` model the
connect loops inside the errgroup. `WorkerExit(w)` models a worker:

- a queue worker exits after its queue shuts down;
- a loop worker exits on stop.

## 3. Runs

| Run | Config | Checks | Result |
|---|---|---|---|
| workqueue | MCWorkQueue.cfg: 2 keys, 2 workers, 2 versions, budget 5 | TypeOK, AtMostOneInFlight, UnreadVersionPending, FailedKeyRetried, NoLostUpdate, WorkersExit | pass |
| workqueue_refinement | MCWorkQueueRefinement.cfg: as above | ImplementsKeyedSync, KeyedSyncServed | pass |
| hive_concurrent | MCHiveQueryer.cfg: 2 callers, 3 connections, 1 break, maxRetries 3, ceiling 1 tick | TypeOK, NoLeakedConnection, QueryReturns | pass |
| hive_serial | MCHiveQueryerSerial.cfg: 1 caller, 2 breaks | OnlyBrokenConnectionsClosed | pass |
| hive_close_race | MCHiveQueryerRace.cfg: 2 callers | OnlyBrokenConnectionsClosed | violation (finding) |
| hive_stop_ignored | MCHiveQueryerStop.cfg: 1 caller | NoConnectRetryAfterStop | violation (finding) |
| orchestrator | MCOrchestrator.cfg: 4 kinds x 2 workers, Promsum on, ceiling 2 ticks | TypeOK, WorkersOnlyAfterStartup, RunReturns | pass |
| orchestrator_probe | MCOrchestratorProbe.cfg | InitializedAfterProbe | violation (finding) |
| orchestrator_shutdown | MCOrchestratorShutdown.cfg | WorkersSeeOpenConnections | violation (finding) |
| orchestrator_leak | MCOrchestratorLeak.cfg | NoConnectionLeftOpen | violation (finding) |

### Why the bounds are enough

- **WorkQueue:**
  - two workers and two keys give both workers-on-one-key races and
    cross-key queue interleavings;
  - two versions let an update arrive while the previous one is being synced;
  - the real budget of 5 lets both retry branches of handleErr occur.
- **HiveQueryer:**
  - two callers are what the races need;
  - three connections allow a close, a reconnect and a second reconnect;
  - a ceiling of one tick keeps both the back-off branch and the give-up
    branch of the connect loop.
- **Orchestrator:** the real worker set, and a ceiling of 2 ticks, which is
  enough for the backoff, the time-out and stop to interleave.

The runs that check liveness set `CHECK_DEADLOCK FALSE`. Once every worker
has exited, or Run has returned, the system really does stop.

### Fairness

- **Worker goroutines, Run, the connect loops and the ShutdownQueues
  goroutine** are weakly fair: the Go runtime keeps scheduling runnable
  goroutines.
- **Taking `q.mu` is strongly fair.** In starvation mode, `sync.Mutex` hands
  the lock to a waiter that has been blocked for more than 1 ms. Without
  this, one caller can starve on the mutex.
- **No fairness on the environment.** Nothing is assumed of events, sync
  outcomes, the Presto write probe, connects succeeding, or the stop signal.

### Findings

The five violation runs are disagreements between the code and spec sections
4.2, 4.3 and 4.8. PROJECT.json lists them:

- **`q.stopCh` is never set.** The Hive connect loop ignores stop.
- **`closeHiveConnection` closes the current connection, not the failed
  one.** One caller closes another caller's healthy connection.
- **The PollUntil error is ignored.** The operator becomes initialized
  without a successful Presto write.
- **`startWorkers(wg sync.WaitGroup)` takes the WaitGroup by value.** The
  connections close under running workers.
- **The errgroup error is returned before the defers are registered.**
  Say Hive connects and Presto then gives up, or sees stop. Run returns with
  the Hive connection open; the Presto connection is likewise left open when
  Hive fails.

## 4. Proofs

`WorkQueueProofs.tla` proves for every `Keys`, `Workers`, `MaxVersion` and
`MaxRequeues` that satisfy `WorkQueueAssumption`:

- **`TypeCorrect`: `Spec => []TypeOK`.**
  - TypeOK alone is not inductive: `Finish` applies `Done` to `wkey[w]`. The
    proof strengthens it with `BusyHasKey`, which says a busy worker holds a
    key.
  - The lemmas `AddType` and `DoneType` say that `Add` and `Done` keep the
    queue a sequence of keys.
- **`InFlightExclusive`: `Spec => []AtMostOneInFlight`.** The inductive
  invariant `IInv` adds to the type invariant:
  - the queue has no duplicates;
  - every queued key is dirty;
  - no queued key is being processed;
  - the processing set is exactly the set of keys of the busy workers.

  The step proof has one step per action. `Get` relies on the head of the
  queue not being processed, so no busy worker holds it. `Finish` relies on
  the finished key being held by no other busy worker. The lemmas
  `AppendNoDup` and `TailNoDup` carry the sequence reasoning. Before the
  proof was written, TLC checked `IInv` as an invariant of the workqueue
  model.

- **`Refinement`: `Spec => ImplementsKeyedSync`.**
  - Init maps to `KS!Init`.
  - Under `IInv`, every step maps to a KeyedSync step or a stutter:
    - `Update`, `Resync` and `FireDelayed` are `Mark` or a stutter; the
      lemmas `AddRefines` and `HandleEventRefines` carry this;
    - `Get` is `Take`: `QueueInDirty`, `QueueNotProcessing` and
      `ProcessingIsBusy` give that the head of the queue is pending and
      unheld;
    - `Finish` is `Release`;
    - `ShutdownQueues` is `Close`;
    - `GetShutdown` and `Stop` are stutters.
- **`RetryPending`: `Spec => []FailedKeyRetried`.** A key whose failures
  the rate limiter counts has a retry on its way (waiting for its delay,
  dirty, or being synced) until the queue shuts down.
  - A failure within the budget schedules AddRateLimited.
  - The drop after the budget also Forgets the key, so a later failure gets
    a full budget again. The mutant without that Forget breaks the property.
  - The invariant is inductive with the type invariant alone. The lemmas
    `AddMarks`, `HandleEventGrows` and `HandleErrRetries` say what Add and
    handleErr do to the sets.
- **`NoForgottenUpdate`: `Handled => (Spec => []UnreadVersionPending)`.**
  UnreadVersionPending is the safety half of NoLostUpdate. A key whose
  stored version no sync has read is dirty, and it is queued or being
  synced; in the second case Done queues it again.
  - The theorem assumes `Handled`: an event of a kind without handlers
    only updates the cache.
  - The inductive invariant `PInv` adds to `IInv`:
    - `ShutdownAfterStop`: ShutdownQueues runs only after stop, and
      after stop the informer delivers no event, so Add is never ignored for
      a fresh update;
    - `DirtyPending`: a dirty key is queued or processing;
    - `UnreadDirty`: an unread version keeps its key dirty.
  - The lemmas `AppendKeeps`, `TailKeeps` and `AddPending` carry the
    sequence reasoning. In `Get`, the key that leaves `dirty` is the one whose
    version is read. In `Finish`, a dirty key leaving `processing` is
    appended.

`HiveQueryerProofs.tla` proves `TypeCorrect` (`Spec => []TypeOK`) and
`NoLeak` (`Spec => []NoLeakedConnection`) for every set of callers and
bounds. Its inductive invariant adds:

- `Bounds`: inside the loop the retry counter is below maxRetries, and a
  backoff happens only before the ceiling;
- `LockInv`: `q.mu` is held by exactly the caller in newHiveConn's loop, and
  only while `q.hiveConn` is nil.

`LockInv` is what makes NoLeakedConnection inductive. It guarantees that a
new connection never replaces an open one.

`SerialCloseOnlyBroken` proves OnlyBrokenConnectionsClosed when `Callers`
has a single element. Spec section 4.2 asks that Query be called one at a
time. The inductive invariant `SInv` adds `SerialInv` to `IInv`:

- q.hiveConn is open or nil;
- during hiveConn.Query, q.hiveConn is the caller's connection;
- before closeHiveConnection, q.hiveConn is nil or broken (a pipe error
  comes only from a broken connection, or from the connect loop while
  q.hiveConn is nil);
- after the loop, q.hiveConn is nil.

The second conjunct needs the single caller. With two callers, the run
hive_close_race shows another caller's closeHiveConnection swapping the
connection in between.

`OrchestratorProofs.tla` proves `TypeCorrect` and `StartupOrder`
(`Spec => []WorkersOnlyAfterStartup`). `StageInv` says the connections are up
in every stage after `GroupWait`, and the caches have synced from the probe
on.

Each inductive invariant was checked with TLC as an invariant of its
model's run before it was proved.

The following is model-checked only:

- **Liveness:** NoLostUpdate, WorkersExit, KeyedSyncServed, QueryReturns and
  RunReturns. TLAPS cannot reason about fairness and ENABLED.

Every invariant and action property of a passing run is proved.
OnlyBrokenConnectionsClosed and UnreadVersionPending are proved under the
hypothesis their runs fix (one caller; a kind with handlers).

## 5. Not modelled

These are not in `src/`:

- the reconcilers and worker loops (`runReportWorker`, `runPrestoTableWorker`,
  `processNextWorkItem`, the sync handlers);
- the template renderer;
- the scheduled report runner;
- the Promsum collector;
- `testWriteToPresto`;
- the HTTP server.

They appear only as goroutines that run and exit, or as a sync that succeeds
or fails. Their behaviour cannot be translated from this repository, so no
module models their inside.

Delete events are not modelled. Only ScheduledReport registers a DeleteFunc,
and its handler `handleScheduledReportDeleted` is not in `src/`. The
manifests and charts are declarative configuration.

Two hazards have no property:

- the ticker leak of `clock.Tick`;
- Run's deferred `closeHiveConnection` waiting on `q.mu`, which a worker's
  connect loop holds while it ignores stop. The Orchestrator's deferred
  closes are one atomic step, and the HiveQueryer model has no Run, so the
  two are not composed.

## 6. Plan for further work

1. Compose HiveQueryer with Orchestrator, so that Run's deferred
   `closeHiveConnection` waits on `q.mu` held by a worker's connect loop.
   Then check how long shutdown is delayed.
2. Run WorkQueue with three workers and three keys, under a state
   constraint.
3. Prove the Orchestrator's stage invariants with fewer definitions per leaf.
