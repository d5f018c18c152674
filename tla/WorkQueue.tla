----------------------------- MODULE WorkQueue -----------------------------
(***************************************************************************)
(* One resource kind of the chargeback operator's reconciliation engine:   *)
(* the informer's event handlers that enqueue a key (setupInformers), the  *)
(* rate-limited work queue they feed (client-go workqueue, as described in *)
(* spec section 4.1), the pool of worker goroutines started by             *)
(* startWorkers, the retry policy of handleErr, and the shutdown of the    *)
(* queues performed by Run after the stop signal.                          *)
(*                                                                         *)
(* A resource is abstracted to its resource version in the informer's      *)
(* cache; a reconcile reads that version and either succeeds or fails.     *)
(***************************************************************************)
EXTENDS Naturals, Sequences, FiniteSets

CONSTANTS
    Keys,         \* namespace/name keys of the resources of this kind
    Workers,      \* the worker goroutines of this kind (threadiness)
    MaxVersion,   \* bound on the number of changes of one resource
    MaxRequeues,  \* handleErr's retry budget (5 in operator.go)
    NoKey,        \* a worker that holds no key
    Handled       \* the kind's informer has AddFunc/UpdateFunc handlers

ASSUME WorkQueueAssumption ==
    /\ Keys # {} /\ IsFiniteSet(Keys)
    /\ Workers # {}
    /\ MaxVersion \in Nat \ {0}
    /\ MaxRequeues \in Nat
    /\ NoKey \notin Keys
    /\ Handled \in BOOLEAN

VARIABLES
    store,        \* resource version in the informer cache, 0 = absent
    queue,        \* the work queue's FIFO of keys ready to be handed out
    dirty,        \* keys added and not yet handed out by Get
    processing,   \* keys handed out by Get and not yet Done
    shuttingDown, \* ShutDown has been called on the queue
    failures,     \* the rate limiter's per-key failure count (NumRequeues)
    waiting,      \* keys scheduled by AddRateLimited, not yet re-added
    wstate,       \* per worker: "idle" (in Get), "busy" (syncing), "exited"
    wkey,         \* per worker: the key it is syncing
    attempted,    \* per key: highest version a sync has read (history)
    stop          \* the stop channel has been closed

vars == <<store, queue, dirty, processing, shuttingDown, failures, waiting,
          wstate, wkey, attempted, stop>>

-----------------------------------------------------------------------------
(* Plausible bugs of the operations below, used as mutants.                *)

\* Add that queues a key even while a worker is syncing it.
AddIgnoringProcessing(k) ==
    IF shuttingDown \/ k \in dirty
    THEN UNCHANGED <<queue, dirty>>
    ELSE /\ dirty' = dirty \cup {k}
         /\ queue' = Append(queue, k)

\* Add that drops an event for a key a worker is syncing, as if the sync
\* in flight already covered it.
AddSkippingProcessing(k) ==
    IF shuttingDown \/ k \in dirty \/ k \in processing
    THEN UNCHANGED <<queue, dirty>>
    ELSE /\ dirty' = dirty \cup {k}
         /\ queue' = Append(queue, k)

\* Done that forgets a key re-added while it was being synced.
DoneDroppingDirty(k) ==
    /\ processing' = processing \ {k}
    /\ UNCHANGED queue

\* handleErr whose budget check is off by one (<= instead of <).
handleErrOffByOne(k, ok) ==
    IF ok
    THEN /\ failures' = [failures EXCEPT ![k] = 0]
         /\ UNCHANGED waiting
    ELSE IF failures[k] <= MaxRequeues
         THEN /\ failures' = [failures EXCEPT ![k] = @ + 1]
              /\ waiting' = IF shuttingDown THEN waiting ELSE waiting \cup {k}
         ELSE /\ failures' = [failures EXCEPT ![k] = 0]
              /\ UNCHANGED waiting

\* handleErr that drops a key after its budget without Forget, so the rate
\* limiter keeps counting its failures.
handleErrNoForget(k, ok) ==
    IF ok
    THEN /\ failures' = [failures EXCEPT ![k] = 0]
         /\ UNCHANGED waiting
    ELSE IF failures[k] < MaxRequeues
         THEN /\ failures' = [failures EXCEPT ![k] = @ + 1]
              /\ waiting' = IF shuttingDown THEN waiting ELSE waiting \cup {k}
         ELSE UNCHANGED <<failures, waiting>>

\* Shutdown that stops the delaying queue but never shuts the queue down.
ShutdownQueuesMissed ==
    /\ stop
    /\ ~shuttingDown
    /\ waiting # {}
    /\ waiting' = {}
    /\ UNCHANGED <<store, queue, dirty, processing, shuttingDown, failures,
                   wstate, wkey, attempted, stop>>

\* Shutdown that also discards the keys still waiting in the queue.
ShutdownQueuesDiscarding ==
    /\ stop
    /\ ~shuttingDown
    /\ shuttingDown' = TRUE
    /\ waiting' = {}
    /\ queue' = << >>
    /\ dirty' = dirty \cap processing
    /\ UNCHANGED <<store, processing, failures, wstate, wkey, attempted, stop>>

\* A worker loop that stops as soon as the queue is shutting down, without
\* draining it.
GetShutdownEarly(w) ==
    /\ wstate[w] = "idle"
    /\ shuttingDown
    /\ wstate' = [wstate EXCEPT ![w] = "exited"]
    /\ UNCHANGED <<store, queue, dirty, processing, shuttingDown, failures,
                   waiting, wkey, attempted, stop>>

-----------------------------------------------------------------------------
(* Queue operations of client-go's workqueue.Type.                         *)

\* Add: ignored while shutting down or when the key is already dirty; a key
\* being processed is only marked dirty and is queued again by Done.
Add(k) ==
    IF shuttingDown \/ k \in dirty
    THEN UNCHANGED <<queue, dirty>>
    ELSE /\ dirty' = dirty \cup {k}
         /\ queue' = IF k \in processing THEN queue ELSE Append(queue, k)

\* Done: the key leaves the processing set and, when it was added again
\* meanwhile, goes back into the queue.
Done(k) ==
    /\ processing' = processing \ {k}
    /\ queue' = IF k \in dirty THEN Append(queue, k) ELSE queue

\* handleErr: Forget on success; AddRateLimited while NumRequeues is below
\* the budget; Forget and drop after that.  AddAfter is a no-op once the
\* queue shuts down, but the rate limiter still counts the failure.
handleErr(k, ok) ==
    IF ok
    THEN /\ failures' = [failures EXCEPT ![k] = 0]
         /\ UNCHANGED waiting
    ELSE IF failures[k] < MaxRequeues
         THEN /\ failures' = [failures EXCEPT ![k] = @ + 1]
              /\ waiting' = IF shuttingDown THEN waiting ELSE waiting \cup {k}
         ELSE /\ failures' = [failures EXCEPT ![k] = 0]
              /\ UNCHANGED waiting

\* An informer event for key k: the handlers of setupInformers compute the
\* key and call queue.Add; a kind registered without handlers (PrestoTable,
\* StorageLocation, ReportPrometheusQuery) only updates the cache.
HandleEvent(k) ==
    IF Handled THEN Add(k) ELSE UNCHANGED <<queue, dirty>>

-----------------------------------------------------------------------------

Init ==
    /\ store = [k \in Keys |-> 0]
    /\ queue = << >>
    /\ dirty = {}
    /\ processing = {}
    /\ shuttingDown = FALSE
    /\ failures = [k \in Keys |-> 0]
    /\ waiting = {}
    /\ wstate = [w \in Workers |-> "idle"]
    /\ wkey = [w \in Workers |-> NoKey]
    /\ attempted = [k \in Keys |-> 0]
    /\ stop = FALSE

\* The informer delivers an add or update of resource k (AddFunc and
\* UpdateFunc both compute the key and call queue.Add).
Update(k) ==
    /\ ~stop
    /\ store[k] < MaxVersion
    /\ store' = [store EXCEPT ![k] = @ + 1]
    /\ HandleEvent(k)
    /\ UNCHANGED <<processing, shuttingDown, failures, waiting, wstate, wkey,
                   attempted, stop>>

\* The informer's periodic resync re-delivers an update for a cached resource.
Resync(k) ==
    /\ ~stop
    /\ store[k] > 0
    /\ HandleEvent(k)
    /\ UNCHANGED <<store, processing, shuttingDown, failures, waiting, wstate,
                   wkey, attempted, stop>>

\* A delayed add scheduled by AddRateLimited becomes due.
FireDelayed(k) ==
    /\ k \in waiting
    /\ waiting' = waiting \ {k}
    /\ Add(k)
    /\ UNCHANGED <<store, processing, shuttingDown, failures, wstate, wkey,
                   attempted, stop>>

\* A worker's Get returns the head of the queue; the sync handler then
\* reads the key's current version from the lister.
Get(w) ==
    /\ wstate[w] = "idle"
    /\ queue # << >>
    /\ LET k == Head(queue) IN
       /\ queue' = Tail(queue)
       /\ processing' = processing \cup {k}
       /\ dirty' = dirty \ {k}
       /\ wstate' = [wstate EXCEPT ![w] = "busy"]
       /\ wkey' = [wkey EXCEPT ![w] = k]
       /\ attempted' = [attempted EXCEPT ![k] = store[k]]
    /\ UNCHANGED <<store, shuttingDown, failures, waiting, stop>>

\* Get on an empty queue that is shutting down reports shutdown; the
\* worker loop returns and wait.Until, seeing the closed stop channel, exits.
GetShutdown(w) ==
    /\ wstate[w] = "idle"
    /\ queue = << >>
    /\ shuttingDown
    /\ wstate' = [wstate EXCEPT ![w] = "exited"]
    /\ UNCHANGED <<store, queue, dirty, processing, shuttingDown, failures,
                   waiting, wkey, attempted, stop>>

\* The sync handler returns (ok = success); the worker calls handleErr and
\* then, deferred, Done.
Finish(w, ok) ==
    /\ wstate[w] = "busy"
    /\ LET k == wkey[w] IN
       /\ handleErr(k, ok)
       /\ Done(k)
    /\ wstate' = [wstate EXCEPT ![w] = "idle"]
    /\ wkey' = [wkey EXCEPT ![w] = NoKey]
    /\ UNCHANGED <<store, dirty, shuttingDown, attempted, stop>>

\* The stop channel is closed.
Stop ==
    /\ ~stop
    /\ stop' = TRUE
    /\ UNCHANGED <<store, queue, dirty, processing, shuttingDown, failures,
                   waiting, wstate, wkey, attempted>>

\* After the stop signal Run calls ShutdownQueues, which shuts down the
\* queue; the delaying queue's waiting loop ends and pending adds are lost.
ShutdownQueues ==
    /\ stop
    /\ ~shuttingDown
    /\ shuttingDown' = TRUE
    /\ waiting' = {}
    /\ UNCHANGED <<store, queue, dirty, processing, failures, wstate, wkey,
                   attempted, stop>>

Next ==
    \/ \E k \in Keys : Update(k) \/ Resync(k) \/ FireDelayed(k)
    \/ \E w \in Workers : \/ Get(w) \/ GetShutdown(w)
                          \/ \E ok \in BOOLEAN : Finish(w, ok)
    \/ Stop
    \/ ShutdownQueues

\* Workers and timers are goroutines the runtime keeps scheduling; the
\* informer's events, the sync outcomes and the stop signal are not assumed.
Fairness ==
    /\ \A w \in Workers : /\ WF_vars(Get(w))
                          /\ WF_vars(GetShutdown(w))
                          /\ WF_vars(\E ok \in BOOLEAN : Finish(w, ok))
    /\ \A k \in Keys : WF_vars(FireDelayed(k))
    /\ WF_vars(ShutdownQueues)

Spec == Init /\ [][Next]_vars

FairSpec == Spec /\ Fairness

-----------------------------------------------------------------------------
(* Properties.                                                             *)

\* Type invariant; failures in 0..MaxRequeues is handleErr's retry budget.
TypeOK ==
    /\ store \in [Keys -> 0..MaxVersion]
    /\ queue \in Seq(Keys)
    /\ dirty \subseteq Keys
    /\ processing \subseteq Keys
    /\ shuttingDown \in BOOLEAN
    /\ failures \in [Keys -> 0..MaxRequeues]
    /\ waiting \subseteq Keys
    /\ wstate \in [Workers -> {"idle", "busy", "exited"}]
    /\ wkey \in [Workers -> Keys \cup {NoKey}]
    /\ attempted \in [Keys -> 0..MaxVersion]
    /\ stop \in BOOLEAN

\* Spec invariant 1: a key is synced by at most one worker at a time, even
\* though several workers share the queue and events re-add keys that are
\* being synced.
AtMostOneInFlight ==
    \A v, w \in Workers :
        (v # w /\ wstate[v] = "busy" /\ wstate[w] = "busy") => wkey[v] # wkey[w]

\* No update is lost: every version the informer stores is eventually read
\* by a sync of its key, also when it arrives while that key is being
\* synced, is waiting for a rate-limited retry, or the queue shuts down.
NoLostUpdate ==
    \A k \in Keys : \A v \in 1..MaxVersion :
        (store[k] = v) ~> (attempted[k] >= v)

\* An update no sync has read yet is never forgotten: its key is dirty, and
\* it is queued or a worker is syncing it (Done then queues it again).  This
\* holds for kinds whose informer has event handlers, whatever the order of
\* informer events, Get, handleErr and Done of several workers.
UnreadVersionPending ==
    \A k \in Keys :
        store[k] > attempted[k] =>
            /\ k \in dirty
            /\ k \in processing \/ \E i \in 1..Len(queue) : queue[i] = k

\* A key whose failures the rate limiter still counts has a retry on its
\* way (waiting for AddRateLimited's delay, dirty, or being synced), until
\* the queue shuts down: handleErr forgets a key when it drops it after the
\* budget, so a later event gets a full budget of retries, and every failure
\* within the budget schedules a retry.
FailedKeyRetried ==
    \A k \in Keys :
        failures[k] > 0 =>
            k \in waiting \cup dirty \cup processing \/ shuttingDown

\* After the stop signal every worker eventually exits: ShutdownQueues makes
\* Get return once the queue is drained (spec section 4.8, shutdown).
WorkersExit ==
    stop ~> (\A w \in Workers : wstate[w] = "exited")

-----------------------------------------------------------------------------
(* Refinement of the abstract work queue KeyedSync: the keys that need a   *)
(* sync are the dirty keys, a busy worker holds its key, and the queue is  *)
(* closed once ShutDown was called.                                        *)

Holder == [w \in Workers |-> IF wstate[w] = "busy" THEN wkey[w] ELSE NoKey]

KS == INSTANCE KeyedSync WITH pending <- dirty, holder <- Holder,
                              closed <- shuttingDown

\* The queue, the informer handlers, the workers and handleErr together
\* implement KeyedSync: every Get hands out a dirty key that no busy worker
\* holds, and no key stops being dirty except by being handed out, whatever
\* order events, retries, Done and ShutDown happen in.
ImplementsKeyedSync == KS!Spec

\* Every key that needs a sync is eventually handed to a worker, also when
\* it was re-added while being synced (Done re-queues it) or the queue shut
\* down meanwhile (the workers drain it before they exit).
KeyedSyncServed == KS!Served

=============================================================================
