----------------------------- MODULE KeyedSync -----------------------------
(***************************************************************************)
(* What the work queue of a resource kind promises its workers (spec       *)
(* section 4.1), without the FIFO, the dirty/processing bookkeeping or the *)
(* rate limiter: a set of keys that need a sync, and per worker the key it *)
(* holds.  A key that needs a sync is handed to one worker at a time; a    *)
(* key can be marked again while it is held, and it is then handed out     *)
(* again after the holder releases it.  Once the queue is closed no key    *)
(* is marked any more.                                                     *)
(***************************************************************************)
CONSTANTS Keys, Workers, NoKey

VARIABLES
    pending,  \* keys that need a sync and will be handed out
    holder,   \* per worker: the key it is syncing, NoKey if none
    closed    \* the queue is shutting down

vars == <<pending, holder, closed>>

Held == {holder[w] : w \in Workers} \ {NoKey}

Init ==
    /\ pending = {}
    /\ holder = [w \in Workers |-> NoKey]
    /\ closed = FALSE

\* A key is marked as needing a sync.
Mark(k) ==
    /\ ~closed
    /\ k \notin pending
    /\ pending' = pending \cup {k}
    /\ UNCHANGED <<holder, closed>>

\* A free worker takes a key that needs a sync and that nobody holds.
Take(w, k) ==
    /\ holder[w] = NoKey
    /\ k \in pending
    /\ k \notin Held
    /\ pending' = pending \ {k}
    /\ holder' = [holder EXCEPT ![w] = k]
    /\ UNCHANGED closed

\* A worker finishes with its key.
Release(w) ==
    /\ holder[w] # NoKey
    /\ holder' = [holder EXCEPT ![w] = NoKey]
    /\ UNCHANGED <<pending, closed>>

Close ==
    /\ ~closed
    /\ closed' = TRUE
    /\ UNCHANGED <<pending, holder>>

Next ==
    \/ \E k \in Keys : Mark(k)
    \/ \E w \in Workers : Release(w) \/ \E k \in Keys : Take(w, k)
    \/ Close

Spec == Init /\ [][Next]_vars

\* Every key that needs a sync is eventually handed to a worker.
Served ==
    \A k \in Keys : (k \in pending) ~> (k \in Held)

=============================================================================
