---------------------------- MODULE HiveQueryer ----------------------------
(***************************************************************************)
(* The Hive query client of operator.go (type hiveQueryer): one lazily     *)
(* opened connection shared by every goroutine that calls Query, guarded   *)
(* by a mutex only inside getHiveConnection and closeHiveConnection.       *)
(* Query retries up to maxRetries times when getting the connection or     *)
(* running the query fails with io.EOF or a broken pipe, closing the       *)
(* current connection first; newHiveConn retries hive.Connect every        *)
(* connBackoff, holding the mutex, until maxConnWaitTime has passed.       *)
(*                                                                         *)
(* Time is counted in connBackoff ticks; an error is "pipe" (io.EOF or     *)
(* EPIPE, the errors Query retries) or "other".  The network may break an  *)
(* open connection; a query on a broken or locally closed connection      *)
(* fails with either kind of error, as the driver does not say which.      *)
(***************************************************************************)
EXTENDS Naturals, FiniteSets

CONSTANTS
    Callers,       \* goroutines that call Query concurrently
    NoCaller,      \* the mutex is free
    MaxConns,      \* bound on the number of connections ever opened
    MaxBreaks,     \* bound on the connections the network breaks
    MaxWaitTicks,  \* maxConnWaitTime / connBackoff (180s / 15s = 12)
    MaxRetries     \* Query's maxRetries (3)

ASSUME HiveQueryerAssumption ==
    /\ Callers # {}
    /\ NoCaller \notin Callers
    /\ MaxConns \in Nat \ {0}
    /\ MaxBreaks \in Nat
    /\ MaxWaitTicks \in Nat
    /\ MaxRetries \in Nat \ {0}

ConnIds == 1..MaxConns
NoConn == 0

VARIABLES
    hiveConn,  \* q.hiveConn: the current connection, NoConn for nil
    conn,      \* per connection id: "unused", "open" or "closed" (locally)
    broken,    \* connections the network has broken
    nextConn,  \* the id the next successful hive.Connect returns
    mu,        \* holder of q.mu
    pc,        \* per caller: where it is in Query
    retries,   \* per caller: Query's loop counter
    using,     \* per caller: the connection getHiveConnection returned
    elapsed,   \* per caller: ticks since newHiveConn's startTime
    stop       \* the operator's stop channel has been closed

vars == <<hiveConn, conn, broken, nextConn, mu, pc, retries, using, elapsed,
          stop>>

PCs == {"idle", "get", "connect", "backoff", "query", "close", "closeFinal"}
Errors == {"pipe", "other"}

-----------------------------------------------------------------------------
(* Plausible bugs, used as mutants.                                        *)

\* closeHiveConnection that discards the connection without closing it.
closeHiveConnectionNoClose ==
    /\ hiveConn' = NoConn
    /\ UNCHANGED conn

\* Query that also closes the connection after a non-retriable error.
QueryErrClosing(c, e) ==
    /\ pc[c] = "query"
    /\ e = "other" \/ using[c] \in broken \/ conn[using[c]] = "closed"
    /\ pc' = [pc EXCEPT ![c] = "close"]
    /\ UNCHANGED <<hiveConn, conn, broken, nextConn, mu, retries, using,
                   elapsed, stop>>

\* Query's loop with the counter check off by one.
CloseOffByOne(c) ==
    /\ pc[c] = "close"
    /\ mu = NoCaller
    /\ hiveConn' = NoConn
    /\ conn' = IF hiveConn = NoConn THEN conn
               ELSE [conn EXCEPT ![hiveConn] = "closed"]
    /\ retries' = [retries EXCEPT ![c] = @ + 1]
    /\ pc' = [pc EXCEPT ![c] = IF retries[c] + 1 <= MaxRetries
                                THEN "get" ELSE "closeFinal"]
    /\ UNCHANGED <<broken, nextConn, mu, using, elapsed, stop>>

\* Query's loop without its counter: it retries for as long as it fails.
CloseUnbounded(c) ==
    /\ pc[c] = "close"
    /\ mu = NoCaller
    /\ hiveConn' = NoConn
    /\ conn' = IF hiveConn = NoConn THEN conn
               ELSE [conn EXCEPT ![hiveConn] = "closed"]
    /\ pc' = [pc EXCEPT ![c] = "get"]
    /\ UNCHANGED <<broken, nextConn, mu, retries, using, elapsed, stop>>

-----------------------------------------------------------------------------

\* closeHiveConnection (under the mutex, never held across it here): close
\* whatever q.hiveConn is now and set it to nil.
closeHiveConnection ==
    /\ hiveConn' = NoConn
    /\ conn' = IF hiveConn = NoConn THEN conn
               ELSE [conn EXCEPT ![hiveConn] = "closed"]

Init ==
    /\ hiveConn = NoConn
    /\ conn = [i \in ConnIds |-> "unused"]
    /\ broken = {}
    /\ nextConn = 1
    /\ mu = NoCaller
    /\ pc = [c \in Callers |-> "idle"]
    /\ retries = [c \in Callers |-> 0]
    /\ using = [c \in Callers |-> NoConn]
    /\ elapsed = [c \in Callers |-> 0]
    /\ stop = FALSE

\* A caller enters Query.
StartQuery(c) ==
    /\ pc[c] = "idle"
    /\ pc' = [pc EXCEPT ![c] = "get"]
    /\ retries' = [retries EXCEPT ![c] = 0]
    /\ UNCHANGED <<hiveConn, conn, broken, nextConn, mu, using, elapsed, stop>>

\* getHiveConnection: take the mutex; return q.hiveConn when it is set,
\* otherwise start newHiveConn still holding the mutex.
GetConn(c) ==
    /\ pc[c] = "get"
    /\ mu = NoCaller
    /\ IF hiveConn # NoConn
       THEN /\ pc' = [pc EXCEPT ![c] = "query"]
            /\ using' = [using EXCEPT ![c] = hiveConn]
            /\ UNCHANGED <<mu, elapsed>>
       ELSE /\ pc' = [pc EXCEPT ![c] = "connect"]
            /\ mu' = c
            /\ using' = [using EXCEPT ![c] = NoConn]
            /\ elapsed' = [elapsed EXCEPT ![c] = 0]
    /\ UNCHANGED <<hiveConn, conn, broken, nextConn, retries, stop>>

\* hive.Connect succeeds: the new connection becomes q.hiveConn and
\* getHiveConnection returns it, releasing the mutex.
ConnectOK(c) ==
    /\ pc[c] = "connect"
    /\ nextConn \in ConnIds
    /\ hiveConn' = nextConn
    /\ conn' = [conn EXCEPT ![nextConn] = "open"]
    /\ nextConn' = nextConn + 1
    /\ mu' = NoCaller
    /\ using' = [using EXCEPT ![c] = nextConn]
    /\ pc' = [pc EXCEPT ![c] = "query"]
    /\ UNCHANGED <<broken, retries, elapsed, stop>>

\* hive.Connect fails.  Past maxConnWaitTime newHiveConn returns the error
\* and getHiveConnection releases the mutex; Query closes and retries on a
\* pipe error and returns any other.  Otherwise wait for the next tick.
ConnectFail(c, e) ==
    /\ pc[c] = "connect"
    /\ IF elapsed[c] > MaxWaitTicks
       THEN /\ mu' = NoCaller
            /\ pc' = [pc EXCEPT ![c] = IF e = "pipe" THEN "close" ELSE "idle"]
       ELSE /\ pc' = [pc EXCEPT ![c] = "backoff"]
            /\ UNCHANGED mu
    /\ UNCHANGED <<hiveConn, conn, broken, nextConn, retries, using, elapsed,
                   stop>>

\* The select in newHiveConn: q.stopCh is never assigned (newHiveQueryer
\* drops its stopCh argument), so only the ticker can fire.
Tick(c) ==
    /\ pc[c] = "backoff"
    /\ elapsed' = [elapsed EXCEPT ![c] = @ + 1]
    /\ pc' = [pc EXCEPT ![c] = "connect"]
    /\ UNCHANGED <<hiveConn, conn, broken, nextConn, mu, retries, using, stop>>

\* hiveConn.Query succeeds on a healthy connection.
QueryOK(c) ==
    /\ pc[c] = "query"
    /\ conn[using[c]] = "open"
    /\ using[c] \notin broken
    /\ pc' = [pc EXCEPT ![c] = "idle"]
    /\ UNCHANGED <<hiveConn, conn, broken, nextConn, mu, retries, using,
                   elapsed, stop>>

\* hiveConn.Query fails: a healthy connection only with a query error, a
\* broken or closed one with either kind.  A pipe error makes Query close
\* the connection and retry; any other error is returned unchanged.
QueryErr(c, e) ==
    /\ pc[c] = "query"
    /\ e = "other" \/ using[c] \in broken \/ conn[using[c]] = "closed"
    /\ pc' = [pc EXCEPT ![c] = IF e = "pipe" THEN "close" ELSE "idle"]
    /\ UNCHANGED <<hiveConn, conn, broken, nextConn, mu, retries, using,
                   elapsed, stop>>

\* The continue after closeHiveConnection: next loop iteration, or, after
\* maxRetries iterations, leave the loop.
Close(c) ==
    /\ pc[c] = "close"
    /\ mu = NoCaller
    /\ closeHiveConnection
    /\ retries' = [retries EXCEPT ![c] = @ + 1]
    /\ pc' = [pc EXCEPT ![c] = IF retries[c] + 1 < MaxRetries
                                THEN "get" ELSE "closeFinal"]
    /\ UNCHANGED <<broken, nextConn, mu, using, elapsed, stop>>

\* After the loop Query closes any connection and returns an error.
CloseFinal(c) ==
    /\ pc[c] = "closeFinal"
    /\ mu = NoCaller
    /\ closeHiveConnection
    /\ pc' = [pc EXCEPT ![c] = "idle"]
    /\ UNCHANGED <<broken, nextConn, mu, retries, using, elapsed, stop>>

\* The network breaks an open connection.
Break(i) ==
    /\ conn[i] = "open"
    /\ i \notin broken
    /\ Cardinality(broken) < MaxBreaks
    /\ broken' = broken \cup {i}
    /\ UNCHANGED <<hiveConn, conn, nextConn, mu, pc, retries, using, elapsed,
                   stop>>

\* The operator's stop channel is closed.
Stop ==
    /\ ~stop
    /\ stop' = TRUE
    /\ UNCHANGED <<hiveConn, conn, broken, nextConn, mu, pc, retries, using,
                   elapsed>>

Step(c) ==
    \/ StartQuery(c) \/ GetConn(c) \/ ConnectOK(c) \/ Tick(c) \/ QueryOK(c)
    \/ Close(c) \/ CloseFinal(c)
    \/ \E e \in Errors : ConnectFail(c, e) \/ QueryErr(c, e)

Next ==
    \/ \E c \in Callers : Step(c)
    \/ \E i \in ConnIds : Break(i)
    \/ Stop

\* Callers are goroutines the runtime keeps scheduling, except that a
\* caller may stay out of Query forever; how each call ends is not assumed.
\* Taking q.mu is strongly fair: sync.Mutex hands the lock to a waiter that
\* has been blocked for over a millisecond (its starvation mode), so a
\* caller that keeps finding the mutex free again gets it.
LockStep(c) == GetConn(c) \/ Close(c) \/ CloseFinal(c)

Fairness ==
    \A c \in Callers : /\ WF_vars(Step(c) /\ pc[c] # "idle")
                      /\ SF_vars(LockStep(c))

Spec == Init /\ [][Next]_vars

FairSpec == Spec /\ Fairness

-----------------------------------------------------------------------------
(* Properties.                                                             *)

\* Type invariant; retries in 0..MaxRetries is Query's retry bound.
TypeOK ==
    /\ hiveConn \in ConnIds \cup {NoConn}
    /\ conn \in [ConnIds -> {"unused", "open", "closed"}]
    /\ broken \subseteq ConnIds
    /\ nextConn \in 1..MaxConns + 1
    /\ mu \in Callers \cup {NoCaller}
    /\ pc \in [Callers -> PCs]
    /\ retries \in [Callers -> 0..MaxRetries]
    /\ using \in [Callers -> ConnIds \cup {NoConn}]
    /\ elapsed \in [Callers -> 0..MaxWaitTicks + 1]
    /\ stop \in BOOLEAN

\* No connection leaks: getHiveConnection opens a connection only when
\* q.hiveConn is nil, and every connection that stops being q.hiveConn has
\* been closed, however the callers' retries interleave.
NoLeakedConnection ==
    \A i \in ConnIds : conn[i] = "open" => i = hiveConn

\* Only a connection the network broke is ever closed: Query closes the
\* connection after io.EOF or a broken pipe and leaves it open after any
\* other error (operator.go lines 550-559).
OnlyBrokenConnectionsClosed ==
    \A i \in ConnIds : conn[i] = "closed" => i \in broken

\* Every call of Query returns: its loop is bounded by maxRetries and the
\* connect loop by maxConnWaitTime, however callers close each other's
\* connections.
QueryReturns ==
    \A c \in Callers : (pc[c] # "idle") ~> (pc[c] = "idle")

\* Once the stop channel is closed, a connect loop waiting in its backoff
\* select returns instead of trying hive.Connect again (spec section 4.2:
\* retry until success or the shutdown signal fires).
NoConnectRetryAfterStop ==
    [][\A c \in Callers :
          (stop /\ pc[c] = "backoff") => pc'[c] # "connect"]_vars

=============================================================================
