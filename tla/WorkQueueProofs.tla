------------------------- MODULE WorkQueueProofs -------------------------
(***************************************************************************)
(* Proofs about WorkQueue: the type invariant and spec invariant 1 (a key  *)
(* is synced by at most one worker at a time) hold for every set of keys   *)
(* and workers and every bound.                                            *)
(***************************************************************************)
EXTENDS WorkQueue, TLAPS

\* TypeOK is not inductive by itself: a busy worker always holds a key, so
\* Done queues a key and never NoKey.
BusyHasKey ==
    \A w \in Workers : wstate[w] = "busy" => wkey[w] \in Keys

TypeInv == TypeOK /\ BusyHasKey

\* The queue holds no key twice.
QueueNoDup ==
    \A i, j \in 1..Len(queue) : i # j => queue[i] # queue[j]

\* Every queued key is dirty: Add queues only keys it marks dirty.
QueueInDirty ==
    \A i \in 1..Len(queue) : queue[i] \in dirty

\* No queued key is being processed: Add leaves a processed key out of the
\* queue and Done queues it only after removing it from processing.
QueueNotProcessing ==
    \A i \in 1..Len(queue) : queue[i] \notin processing

\* The processing set is exactly the set of keys of busy workers.
ProcessingIsBusy ==
    /\ \A w \in Workers : wstate[w] = "busy" => wkey[w] \in processing
    /\ \A k \in processing : \E w \in Workers : wstate[w] = "busy" /\ wkey[w] = k

\* The inductive strengthening of AtMostOneInFlight.
IInv ==
    /\ TypeInv
    /\ QueueNoDup
    /\ QueueInDirty
    /\ QueueNotProcessing
    /\ ProcessingIsBusy
    /\ AtMostOneInFlight
-----------------------------------------------------------------------------

\* Add keeps the queue a sequence of keys and the dirty set a set of keys.
LEMMA AddType ==
    ASSUME NEW k \in Keys, queue \in Seq(Keys), dirty \subseteq Keys, Add(k)
    PROVE  /\ queue' \in Seq(Keys)
           /\ dirty' \subseteq Keys
<1>1. CASE shuttingDown \/ k \in dirty
    BY <1>1 DEF Add
<1>2. CASE ~(shuttingDown \/ k \in dirty) /\ k \in processing
    BY <1>2 DEF Add
<1>3. CASE ~(shuttingDown \/ k \in dirty) /\ k \notin processing
    BY <1>3 DEF Add
<1>4. QED
    BY <1>1, <1>2, <1>3

\* Done keeps the queue a sequence of keys.
LEMMA DoneType ==
    ASSUME NEW k \in Keys, queue \in Seq(Keys), Done(k)
    PROVE  queue' \in Seq(Keys)
<1>1. CASE k \in dirty
    BY <1>1 DEF Done
<1>2. CASE k \notin dirty
    BY <1>2 DEF Done
<1>3. QED
    BY <1>1, <1>2

\* An informer event keeps the queue a sequence of keys and the dirty set a
\* set of keys, whether or not the kind has handlers.
LEMMA HandleEventType ==
    ASSUME NEW k \in Keys, queue \in Seq(Keys), dirty \subseteq Keys,
           HandleEvent(k)
    PROVE  /\ queue' \in Seq(Keys)
           /\ dirty' \subseteq Keys
<1>1. CASE Handled
    BY <1>1, AddType DEF HandleEvent
<1>2. CASE ~Handled
    BY <1>2 DEF HandleEvent
<1>3. QED
    BY <1>1, <1>2

LEMMA TypeInvInit == Init => TypeInv
<1> SUFFICES ASSUME Init PROVE TypeInv
    OBVIOUS
<1>1. /\ store \in [Keys -> 0..MaxVersion]
      /\ failures \in [Keys -> 0..MaxRequeues]
      /\ attempted \in [Keys -> 0..MaxVersion]
    BY WorkQueueAssumption DEF Init
<1>2. queue \in Seq(Keys)
    BY DEF Init
<1>3. /\ dirty \subseteq Keys /\ processing \subseteq Keys
      /\ waiting \subseteq Keys
    BY DEF Init
<1>4. shuttingDown \in BOOLEAN /\ stop \in BOOLEAN
    BY DEF Init
<1>5. /\ wstate \in [Workers -> {"idle", "busy", "exited"}]
      /\ wkey \in [Workers -> Keys \cup {NoKey}]
    BY DEF Init
<1>6. BusyHasKey
    BY DEF Init, BusyHasKey
<1>7. QED
    BY <1>1, <1>2, <1>3, <1>4, <1>5, <1>6 DEF TypeInv, TypeOK

LEMMA TypeInvStep == TypeInv /\ [Next]_vars => TypeInv'
<1> SUFFICES ASSUME TypeInv, [Next]_vars PROVE TypeInv'
    OBVIOUS
<1> USE DEF TypeInv, TypeOK, BusyHasKey
<1>1. ASSUME NEW k \in Keys, Update(k) PROVE TypeInv'
  <2>1. queue' \in Seq(Keys) /\ dirty' \subseteq Keys
      BY <1>1, HandleEventType DEF Update
  <2>2. store' \in [Keys -> 0..MaxVersion]
      BY <1>1, WorkQueueAssumption DEF Update
  <2>3. QED
      BY <1>1, <2>1, <2>2 DEF Update
<1>2. ASSUME NEW k \in Keys, Resync(k) PROVE TypeInv'
  <2>1. queue' \in Seq(Keys) /\ dirty' \subseteq Keys
      BY <1>2, HandleEventType DEF Resync
  <2>2. QED
      BY <1>2, <2>1 DEF Resync
<1>3. ASSUME NEW k \in Keys, FireDelayed(k) PROVE TypeInv'
  <2>1. queue' \in Seq(Keys) /\ dirty' \subseteq Keys
      BY <1>3, AddType DEF FireDelayed
  <2>2. QED
      BY <1>3, <2>1 DEF FireDelayed
<1>4. ASSUME NEW w \in Workers, Get(w) PROVE TypeInv'
  <2>1. queue' \in Seq(Keys) /\ Head(queue) \in Keys
      BY <1>4 DEF Get
  <2>2. QED
      BY <1>4, <2>1 DEF Get
<1>5. ASSUME NEW w \in Workers, GetShutdown(w) PROVE TypeInv'
    BY <1>5 DEF GetShutdown
<1>6. ASSUME NEW w \in Workers, NEW ok \in BOOLEAN, Finish(w, ok)
      PROVE TypeInv'
  <2>1. wkey[w] \in Keys
      BY <1>6 DEF Finish
  <2>2. queue' \in Seq(Keys)
      BY <1>6, <2>1, DoneType DEF Finish
  <2>3. /\ failures' \in [Keys -> 0..MaxRequeues]
        /\ waiting' \subseteq Keys
    <3>1. MaxRequeues \in Nat
        BY WorkQueueAssumption
    <3>2. CASE ok
      <4>1. failures' = [failures EXCEPT ![wkey[w]] = 0] /\ waiting' = waiting
          BY <1>6, <3>2, Zenon DEF Finish, handleErr
      <4>2. QED
          BY <2>1, <3>1, <4>1
    <3>3. CASE ~ok /\ failures[wkey[w]] < MaxRequeues
      <4>1. /\ failures' = [failures EXCEPT ![wkey[w]] = @ + 1]
            /\ waiting' \subseteq waiting \cup {wkey[w]}
          BY <1>6, <3>3, Zenon DEF Finish, handleErr
      <4>2. QED
          BY <2>1, <3>1, <3>3, <4>1
    <3>4. CASE ~ok /\ ~(failures[wkey[w]] < MaxRequeues)
        BY <1>6, <2>1, <3>1, <3>4 DEF Finish, handleErr
    <3>5. QED
        BY <3>2, <3>3, <3>4
  <2>4. processing' \subseteq Keys
      BY <1>6 DEF Finish, Done
  <2>5. QED
      BY <1>6, <2>2, <2>3, <2>4, WorkQueueAssumption DEF Finish
<1>7. CASE Stop
    BY <1>7 DEF Stop
<1>8. CASE ShutdownQueues
    BY <1>8 DEF ShutdownQueues
<1>9. CASE UNCHANGED vars
    BY <1>9 DEF vars
<1>10. QED
    BY <1>1, <1>2, <1>3, <1>4, <1>5, <1>6, <1>7, <1>8, <1>9 DEF Next

\* The type invariant of the work queue holds in every reachable state;
\* in particular handleErr never counts more than MaxRequeues failures.
THEOREM TypeCorrect == Spec => []TypeOK
<1>1. Spec => []TypeInv
    BY TypeInvInit, TypeInvStep, PTL DEF Spec
<1>2. QED
    BY <1>1, PTL DEF TypeInv
-----------------------------------------------------------------------------
(* Spec invariant 1.                                                       *)

\* Appending a key that the queue does not hold keeps the queue free of
\* duplicates.
LEMMA AppendNoDup ==
    ASSUME NEW S, NEW s \in Seq(S), NEW x \in S,
           \A i, j \in 1..Len(s) : i # j => s[i] # s[j],
           \A i \in 1..Len(s) : s[i] # x
    PROVE  \A i, j \in 1..Len(Append(s, x)) :
               i # j => Append(s, x)[i] # Append(s, x)[j]
OBVIOUS

\* The tail of a queue without duplicates has none and does not hold the
\* head.
LEMMA TailNoDup ==
    ASSUME NEW S, NEW s \in Seq(S), s # << >>,
           \A i, j \in 1..Len(s) : i # j => s[i] # s[j]
    PROVE  /\ \A i, j \in 1..Len(Tail(s)) : i # j => Tail(s)[i] # Tail(s)[j]
           /\ \A i \in 1..Len(Tail(s)) : Tail(s)[i] # Head(s)
           /\ \A i \in 1..Len(Tail(s)) : \E j \in 1..Len(s) : Tail(s)[i] = s[j]
OBVIOUS

LEMMA IInvInit == Init => IInv
<1> SUFFICES ASSUME Init PROVE IInv
    OBVIOUS
<1>1. TypeInv
    BY TypeInvInit
<1>2. QueueNoDup /\ QueueInDirty /\ QueueNotProcessing
    BY DEF Init, QueueNoDup, QueueInDirty, QueueNotProcessing
<1>3. ProcessingIsBusy /\ AtMostOneInFlight
    BY DEF Init, ProcessingIsBusy, AtMostOneInFlight
<1>4. QED
    BY <1>1, <1>2, <1>3 DEF IInv

\* Add, with the processing set and the workers unchanged, keeps the queue
\* free of duplicates, dirty, and disjoint from the processing set.
LEMMA AddInv ==
    ASSUME NEW k \in Keys, TypeInv, QueueNoDup, QueueInDirty,
           QueueNotProcessing, Add(k), UNCHANGED processing
    PROVE  QueueNoDup' /\ QueueInDirty' /\ QueueNotProcessing'
<1> USE DEF TypeInv, TypeOK
<1>1. CASE shuttingDown \/ k \in dirty
    BY <1>1 DEF Add, QueueNoDup, QueueInDirty, QueueNotProcessing
<1>2. CASE ~(shuttingDown \/ k \in dirty) /\ k \in processing
    BY <1>2 DEF Add, QueueNoDup, QueueInDirty, QueueNotProcessing
<1>3. CASE ~(shuttingDown \/ k \in dirty) /\ k \notin processing
  <2>1. queue' = Append(queue, k) /\ dirty' = dirty \cup {k}
      BY <1>3 DEF Add
  <2>2. \A i \in 1..Len(queue) : queue[i] # k
      BY <1>3 DEF QueueInDirty
  <2>3. QueueNoDup'
      BY <2>1, <2>2, AppendNoDup DEF QueueNoDup
  <2>4. QueueInDirty'
      BY <2>1 DEF QueueInDirty
  <2>5. QueueNotProcessing'
      BY <1>3, <2>1 DEF QueueNotProcessing
  <2>6. QED
      BY <2>3, <2>4, <2>5
<1>4. QED
    BY <1>1, <1>2, <1>3

\* The same for an informer event.
LEMMA HandleEventInv ==
    ASSUME NEW k \in Keys, TypeInv, QueueNoDup, QueueInDirty,
           QueueNotProcessing, HandleEvent(k), UNCHANGED processing
    PROVE  QueueNoDup' /\ QueueInDirty' /\ QueueNotProcessing'
<1>1. CASE Handled
    BY <1>1, AddInv DEF HandleEvent
<1>2. CASE ~Handled
    BY <1>2 DEF HandleEvent, QueueNoDup, QueueInDirty, QueueNotProcessing
<1>3. QED
    BY <1>1, <1>2

LEMMA IInvStep == IInv /\ [Next]_vars => IInv'
<1> SUFFICES ASSUME IInv, [Next]_vars PROVE IInv'
    OBVIOUS
<1>0. TypeInv'
    BY TypeInvStep DEF IInv
<1> USE DEF IInv
<1>1. ASSUME NEW k \in Keys, Update(k) PROVE IInv'
  <2>1. QueueNoDup' /\ QueueInDirty' /\ QueueNotProcessing'
      BY <1>1, HandleEventInv DEF Update
  <2>2. ProcessingIsBusy' /\ AtMostOneInFlight'
      BY <1>1 DEF Update, ProcessingIsBusy, AtMostOneInFlight
  <2>3. QED
      BY <1>0, <2>1, <2>2
<1>2. ASSUME NEW k \in Keys, Resync(k) PROVE IInv'
  <2>1. QueueNoDup' /\ QueueInDirty' /\ QueueNotProcessing'
      BY <1>2, HandleEventInv DEF Resync
  <2>2. ProcessingIsBusy' /\ AtMostOneInFlight'
      BY <1>2 DEF Resync, ProcessingIsBusy, AtMostOneInFlight
  <2>3. QED
      BY <1>0, <2>1, <2>2
<1>3. ASSUME NEW k \in Keys, FireDelayed(k) PROVE IInv'
  <2>1. QueueNoDup' /\ QueueInDirty' /\ QueueNotProcessing'
      BY <1>3, AddInv DEF FireDelayed
  <2>2. ProcessingIsBusy' /\ AtMostOneInFlight'
      BY <1>3 DEF FireDelayed, ProcessingIsBusy, AtMostOneInFlight
  <2>3. QED
      BY <1>0, <2>1, <2>2
<1>4. ASSUME NEW w \in Workers, Get(w) PROVE IInv'
  <2> DEFINE k == Head(queue)
  <2>1. /\ queue \in Seq(Keys) /\ queue # << >>
        /\ k \in Keys /\ k = queue[1] /\ Len(queue) >= 1
      BY <1>4 DEF Get, TypeInv, TypeOK
  <2>2. k \notin processing
      BY <2>1 DEF QueueNotProcessing
  <2>3. \A v \in Workers : wstate[v] = "busy" => wkey[v] # k
      BY <2>2 DEF ProcessingIsBusy
  <2>4. /\ \A i, j \in 1..Len(Tail(queue)) :
               i # j => Tail(queue)[i] # Tail(queue)[j]
        /\ \A i \in 1..Len(Tail(queue)) : Tail(queue)[i] # k
        /\ \A i \in 1..Len(Tail(queue)) :
               \E j \in 1..Len(queue) : Tail(queue)[i] = queue[j]
      BY <2>1, TailNoDup DEF QueueNoDup
  <2>5. QueueNoDup'
      BY <1>4, <2>4 DEF Get, QueueNoDup
  <2>6. QueueInDirty' /\ QueueNotProcessing'
      BY <1>4, <2>4 DEF Get, QueueInDirty, QueueNotProcessing
  <2>7. ProcessingIsBusy'
      BY <1>4, <2>1 DEF Get, ProcessingIsBusy, TypeInv, TypeOK
  <2>8. AtMostOneInFlight'
      BY <1>4, <2>3 DEF Get, AtMostOneInFlight, TypeInv, TypeOK
  <2>9. QED
      BY <1>0, <2>5, <2>6, <2>7, <2>8
<1>5. ASSUME NEW w \in Workers, GetShutdown(w) PROVE IInv'
  <2>1. QueueNoDup' /\ QueueInDirty' /\ QueueNotProcessing'
      BY <1>5 DEF GetShutdown, QueueNoDup, QueueInDirty, QueueNotProcessing
  <2>2. ProcessingIsBusy' /\ AtMostOneInFlight'
      BY <1>5 DEF GetShutdown, ProcessingIsBusy, AtMostOneInFlight,
                  TypeInv, TypeOK
  <2>3. QED
      BY <1>0, <2>1, <2>2
<1>6. ASSUME NEW w \in Workers, NEW ok \in BOOLEAN, Finish(w, ok)
      PROVE IInv'
  <2> DEFINE k == wkey[w]
  <2>1. k \in Keys /\ k \in processing /\ queue \in Seq(Keys)
      BY <1>6 DEF Finish, TypeInv, TypeOK, BusyHasKey, ProcessingIsBusy
  <2>2. \A i \in 1..Len(queue) : queue[i] # k
      BY <2>1 DEF QueueNotProcessing
  <2>3. \A v \in Workers : (v # w /\ wstate[v] = "busy") => wkey[v] # k
      BY <1>6 DEF Finish, AtMostOneInFlight
  <2>4. processing' = processing \ {k}
      BY <1>6 DEF Finish, Done
  <2>5. QueueNoDup' /\ QueueInDirty' /\ QueueNotProcessing'
    <3>1. CASE k \in dirty
      <4>1. queue' = Append(queue, k)
          BY <1>6, <3>1 DEF Finish, Done
      <4>2. QueueNoDup'
          BY <2>1, <2>2, <4>1, AppendNoDup DEF QueueNoDup
      <4>3. QueueInDirty' /\ QueueNotProcessing'
          BY <1>6, <2>1, <2>4, <3>1, <4>1
          DEF Finish, QueueInDirty, QueueNotProcessing
      <4>4. QED
          BY <4>2, <4>3
    <3>2. CASE k \notin dirty
      <4>1. queue' = queue
          BY <1>6, <3>2 DEF Finish, Done
      <4>2. QED
          BY <1>6, <2>4, <4>1 DEF Finish, QueueNoDup, QueueInDirty,
                                   QueueNotProcessing
    <3>3. QED
        BY <3>1, <3>2
  <2>6. ProcessingIsBusy'
      BY <1>6, <2>3, <2>4 DEF Finish, ProcessingIsBusy, TypeInv, TypeOK
  <2>7. AtMostOneInFlight'
      BY <1>6 DEF Finish, AtMostOneInFlight, TypeInv, TypeOK
  <2>8. QED
      BY <1>0, <2>5, <2>6, <2>7
<1>7. CASE Stop \/ ShutdownQueues \/ UNCHANGED vars
    BY <1>0, <1>7 DEF Stop, ShutdownQueues, vars, QueueNoDup, QueueInDirty,
                      QueueNotProcessing, ProcessingIsBusy, AtMostOneInFlight
<1>8. QED
    BY <1>1, <1>2, <1>3, <1>4, <1>5, <1>6, <1>7 DEF Next

\* Spec invariant 1 holds for every set of keys and workers: two workers
\* never sync the same key at once, although informer events re-add keys
\* that a worker is syncing (Add only marks them dirty and Done queues them).
THEOREM InFlightExclusive == Spec => []AtMostOneInFlight
<1>1. Spec => []IInv
    BY IInvInit, IInvStep, PTL DEF Spec
<1>2. QED
    BY <1>1, PTL DEF IInv
-----------------------------------------------------------------------------
(* Refinement of KeyedSync.                                                *)

LEMMA RefinementInit == Init => KS!Init
BY WorkQueueAssumption DEF Init, KS!Init, Holder

\* Add either changes nothing KeyedSync sees or marks the key.
LEMMA AddRefines ==
    ASSUME NEW k \in Keys, Add(k),
           UNCHANGED <<shuttingDown, wstate, wkey>>
    PROVE  [KS!Next]_KS!vars
<1>1. CASE shuttingDown \/ k \in dirty
    BY <1>1 DEF Add, KS!vars, Holder
<1>2. CASE ~(shuttingDown \/ k \in dirty)
  <2>1. KS!Mark(k)
      BY <1>2 DEF Add, KS!Mark, Holder
  <2>2. QED
      BY <2>1 DEF KS!Next
<1>3. QED
    BY <1>1, <1>2

\* An informer event changes nothing KeyedSync sees or marks the key.
LEMMA HandleEventRefines ==
    ASSUME NEW k \in Keys, HandleEvent(k),
           UNCHANGED <<shuttingDown, wstate, wkey>>
    PROVE  [KS!Next]_KS!vars
<1>1. CASE Handled
    BY <1>1, AddRefines DEF HandleEvent
<1>2. CASE ~Handled
    BY <1>2 DEF HandleEvent, KS!vars, Holder
<1>3. QED
    BY <1>1, <1>2

LEMMA RefinementStep == IInv /\ [Next]_vars => [KS!Next]_KS!vars
<1> SUFFICES ASSUME IInv, [Next]_vars PROVE [KS!Next]_KS!vars
    OBVIOUS
<1> USE DEF IInv, TypeInv, TypeOK
<1>1. ASSUME NEW k \in Keys, Update(k) PROVE [KS!Next]_KS!vars
    BY <1>1, HandleEventRefines DEF Update
<1>2. ASSUME NEW k \in Keys, Resync(k) PROVE [KS!Next]_KS!vars
    BY <1>2, HandleEventRefines DEF Resync
<1>3. ASSUME NEW k \in Keys, FireDelayed(k) PROVE [KS!Next]_KS!vars
    BY <1>3, AddRefines DEF FireDelayed
<1>4. ASSUME NEW w \in Workers, Get(w) PROVE [KS!Next]_KS!vars
  <2> DEFINE k == Head(queue)
  <2>1. k \in dirty /\ k \notin processing /\ k \in Keys
      BY <1>4 DEF Get, QueueInDirty, QueueNotProcessing
  <2>2. k \notin KS!Held
      BY <2>1 DEF KS!Held, Holder, ProcessingIsBusy
  <2>3. Holder[w] = NoKey
      BY <1>4 DEF Get, Holder
  <2>4. Holder' = [Holder EXCEPT ![w] = k]
      BY <1>4 DEF Get, Holder
  <2>5. KS!Take(w, k)
      BY <1>4, <2>1, <2>2, <2>3, <2>4 DEF Get, KS!Take
  <2>6. QED
      BY <2>1, <2>5 DEF KS!Next
<1>5. ASSUME NEW w \in Workers, GetShutdown(w) PROVE [KS!Next]_KS!vars
    BY <1>5 DEF GetShutdown, KS!vars, Holder
<1>6. ASSUME NEW w \in Workers, NEW ok \in BOOLEAN, Finish(w, ok)
      PROVE [KS!Next]_KS!vars
  <2>1. Holder[w] # NoKey
      BY <1>6, WorkQueueAssumption DEF Finish, Holder, BusyHasKey
  <2>2. Holder' = [Holder EXCEPT ![w] = NoKey]
      BY <1>6 DEF Finish, Holder
  <2>3. KS!Release(w)
      BY <1>6, <2>1, <2>2 DEF Finish, KS!Release
  <2>4. QED
      BY <2>3 DEF KS!Next
<1>7. CASE Stop
    BY <1>7 DEF Stop, KS!vars, Holder
<1>8. CASE ShutdownQueues
  <2>1. KS!Close
      BY <1>8 DEF ShutdownQueues, KS!Close, Holder
  <2>2. QED
      BY <2>1 DEF KS!Next
<1>9. CASE UNCHANGED vars
    BY <1>9 DEF vars, KS!vars, Holder
<1>10. QED
    BY <1>1, <1>2, <1>3, <1>4, <1>5, <1>6, <1>7, <1>8, <1>9 DEF Next

\* The work queue implements KeyedSync for every set of keys and workers:
\* Get only hands out a dirty key no busy worker holds, and a key stops
\* being dirty only when Get hands it out.
THEOREM Refinement == Spec => ImplementsKeyedSync
<1>1. Spec => []IInv
    BY IInvInit, IInvStep, PTL DEF Spec
<1>2. QED
    BY <1>1, RefinementInit, RefinementStep, PTL
    DEF Spec, ImplementsKeyedSync, KS!Spec
-----------------------------------------------------------------------------
(* No update is forgotten (the safety part of NoLostUpdate).               *)

InQueue(k) == \E i \in 1..Len(queue) : queue[i] = k

\* ShutdownQueues runs only after the stop signal, and the informer
\* delivers no event after it.
ShutdownAfterStop == shuttingDown => stop

\* A dirty key is queued or being synced: Add queues a key unless a worker
\* holds it, and Done queues a key that became dirty meanwhile.
DirtyPending == \A k \in dirty : k \in processing \/ InQueue(k)

\* A key with a version no sync has read is dirty.
UnreadDirty == \A k \in Keys : store[k] > attempted[k] => k \in dirty

\* The inductive strengthening of UnreadVersionPending.
PInv == IInv /\ ShutdownAfterStop /\ DirtyPending /\ UnreadDirty

\* Appending to a sequence keeps what it held.
LEMMA AppendKeeps ==
    ASSUME NEW S, NEW s \in Seq(S), NEW x \in S, NEW y,
           \E i \in 1..Len(s) : s[i] = y
    PROVE  \E i \in 1..Len(Append(s, x)) : Append(s, x)[i] = y
<1>1. PICK i \in 1..Len(s) : s[i] = y
    OBVIOUS
<1>2. i \in 1..Len(Append(s, x)) /\ Append(s, x)[i] = y
    BY <1>1
<1>3. QED
    BY <1>2

\* The tail holds every element of the sequence but its head.
LEMMA TailKeeps ==
    ASSUME NEW S, NEW s \in Seq(S), s # << >>, NEW y, y # Head(s),
           \E i \in 1..Len(s) : s[i] = y
    PROVE  \E i \in 1..Len(Tail(s)) : Tail(s)[i] = y
<1>1. PICK i \in 1..Len(s) : s[i] = y
    OBVIOUS
<1>2. i # 1
    BY <1>1
<1>3. i - 1 \in 1..Len(Tail(s)) /\ Tail(s)[i - 1] = y
    BY <1>1, <1>2
<1>4. QED
    BY <1>3

\* Add, with the processing set unchanged, keeps every dirty key pending,
\* only grows the dirty set, and, unless the queue shuts down, leaves its
\* key dirty.
LEMMA AddPending ==
    ASSUME NEW k \in Keys, TypeInv, DirtyPending, Add(k), UNCHANGED processing
    PROVE  /\ DirtyPending'
           /\ dirty \subseteq dirty'
           /\ ~shuttingDown => k \in dirty'
<1> USE DEF TypeInv, TypeOK
<1>1. CASE shuttingDown \/ k \in dirty
    BY <1>1 DEF Add, DirtyPending, InQueue
<1>2. CASE ~(shuttingDown \/ k \in dirty) /\ k \in processing
    BY <1>2 DEF Add, DirtyPending, InQueue
<1>3. CASE ~(shuttingDown \/ k \in dirty) /\ k \notin processing
  <2>1. queue' = Append(queue, k) /\ dirty' = dirty \cup {k}
      BY <1>3 DEF Add
  <2>2. ASSUME NEW j \in dirty' PROVE j \in processing' \/ InQueue(j)'
    <3>1. CASE j = k
      <4>1. Len(queue') = Len(queue) + 1 /\ queue'[Len(queue) + 1] = k
          BY <2>1
      <4>2. Len(queue) + 1 \in 1..Len(queue')
          BY <4>1
      <4>3. InQueue(j)'
          BY <3>1, <4>1, <4>2 DEF InQueue
      <4>4. QED
          BY <4>3
    <3>2. CASE j # k /\ j \in processing
        BY <1>3, <3>2
    <3>3. CASE j # k /\ j \notin processing
      <4>1. \E i \in 1..Len(queue) : queue[i] = j
          BY <2>1, <3>3 DEF DirtyPending, InQueue
      <4>2. QED
          BY <2>1, <4>1, AppendKeeps DEF InQueue
    <3>4. QED
        BY <3>1, <3>2, <3>3
  <2>3. QED
      BY <2>1, <2>2 DEF DirtyPending
<1>4. QED
    BY <1>1, <1>2, <1>3

LEMMA PInvInit == Init => PInv
<1> SUFFICES ASSUME Init PROVE PInv
    OBVIOUS
<1>1. IInv
    BY IInvInit
<1>2. ShutdownAfterStop /\ DirtyPending /\ UnreadDirty
    BY DEF Init, ShutdownAfterStop, DirtyPending, UnreadDirty
<1>3. QED
    BY <1>1, <1>2 DEF PInv
\* For a kind whose informer has event handlers, the strengthening is kept
\* by every step.
LEMMA PInvStep ==
    ASSUME Handled
    PROVE  PInv /\ [Next]_vars => PInv'
<1> SUFFICES ASSUME PInv, [Next]_vars PROVE PInv'
    OBVIOUS
<1>0. IInv' /\ TypeInv
    BY IInvStep DEF PInv, IInv
<1> USE DEF PInv
<1>1. ASSUME NEW k \in Keys, Update(k) PROVE PInv'
  <2>1. ~shuttingDown /\ Add(k) /\ UNCHANGED processing
      BY <1>1, Handled DEF Update, HandleEvent, ShutdownAfterStop
  <2>2. DirtyPending' /\ dirty \subseteq dirty' /\ k \in dirty'
      BY <2>1, <1>0, AddPending
  <2>3. UnreadDirty'
      BY <1>1, <2>2 DEF Update, UnreadDirty
  <2>4. ShutdownAfterStop'
      BY <1>1 DEF Update, ShutdownAfterStop
  <2>5. QED
      BY <1>0, <2>2, <2>3, <2>4
<1>2. ASSUME NEW k \in Keys, Resync(k) PROVE PInv'
  <2>1. Add(k) /\ UNCHANGED processing
      BY <1>2, Handled DEF Resync, HandleEvent
  <2>2. DirtyPending' /\ dirty \subseteq dirty'
      BY <2>1, <1>0, AddPending
  <2>3. UnreadDirty' /\ ShutdownAfterStop'
      BY <1>2, <2>2 DEF Resync, UnreadDirty, ShutdownAfterStop
  <2>4. QED
      BY <1>0, <2>2, <2>3
<1>3. ASSUME NEW k \in Keys, FireDelayed(k) PROVE PInv'
  <2>1. DirtyPending' /\ dirty \subseteq dirty'
      BY <1>3, <1>0, AddPending DEF FireDelayed
  <2>2. UnreadDirty' /\ ShutdownAfterStop'
      BY <1>3, <2>1 DEF FireDelayed, UnreadDirty, ShutdownAfterStop
  <2>3. QED
      BY <1>0, <2>1, <2>2
<1>4. ASSUME NEW w \in Workers, Get(w) PROVE PInv'
  <2> DEFINE k == Head(queue)
  <2>1. /\ queue \in Seq(Keys) /\ queue # << >> /\ k \in Keys
        /\ queue' = Tail(queue) /\ dirty' = dirty \ {k}
        /\ processing' = processing \cup {k}
        /\ attempted' = [attempted EXCEPT ![k] = store[k]]
        /\ store' = store
    <3>1. queue \in Seq(Keys) /\ queue # << >>
        BY <1>0, <1>4 DEF Get, TypeInv, TypeOK
    <3>2. k \in Keys
        BY <3>1
    <3>3. /\ queue' = Tail(queue) /\ dirty' = dirty \ {k}
          /\ processing' = processing \cup {k}
          /\ attempted' = [attempted EXCEPT ![k] = store[k]]
          /\ store' = store
        BY <1>4 DEF Get
    <3>4. QED
        BY <3>1, <3>2, <3>3
  <2>2. ASSUME NEW j \in dirty' PROVE j \in processing' \/ InQueue(j)'
    <3>1. j \in dirty /\ j # k
        BY <2>1
    <3>2. CASE j \in processing
        BY <2>1, <3>2
    <3>3. CASE j \notin processing
      <4>1. \E i \in 1..Len(queue) : queue[i] = j
          BY <3>1, <3>3 DEF DirtyPending, InQueue
      <4>2. \E i \in 1..Len(Tail(queue)) : Tail(queue)[i] = j
          BY <2>1, <3>1, <4>1, TailKeeps
      <4>3. QED
          BY <2>1, <4>2 DEF InQueue
    <3>4. QED
        BY <3>2, <3>3
  <2>3. UnreadDirty'
      BY <1>0, <2>1 DEF PInv, UnreadDirty, TypeInv, TypeOK
  <2>4. ShutdownAfterStop'
      BY <1>4 DEF Get, ShutdownAfterStop
  <2>5. QED
      BY <1>0, <2>2, <2>3, <2>4 DEF DirtyPending
<1>5. ASSUME NEW w \in Workers, GetShutdown(w) PROVE PInv'
    BY <1>0, <1>5 DEF GetShutdown, ShutdownAfterStop, DirtyPending, InQueue,
                      UnreadDirty
<1>6. ASSUME NEW w \in Workers, NEW ok \in BOOLEAN, Finish(w, ok)
      PROVE PInv'
  <2> DEFINE k == wkey[w]
  <2>1. /\ k \in Keys /\ queue \in Seq(Keys)
        /\ processing' = processing \ {k}
        /\ queue' = IF k \in dirty THEN Append(queue, k) ELSE queue
        /\ UNCHANGED <<store, dirty, shuttingDown, attempted, stop>>
    <3>1. k \in Keys /\ queue \in Seq(Keys)
        BY <1>0, <1>6 DEF Finish, TypeInv, TypeOK, BusyHasKey
    <3>2. /\ processing' = processing \ {k}
          /\ queue' = IF k \in dirty THEN Append(queue, k) ELSE queue
        BY <1>6 DEF Finish, Done
    <3>3. UNCHANGED <<store, dirty, shuttingDown, attempted, stop>>
        BY <1>6 DEF Finish
    <3>4. QED
        BY <3>1, <3>2, <3>3
  <2>2. ASSUME NEW j \in dirty' PROVE j \in processing' \/ InQueue(j)'
    <3>1. CASE j = k
      <4>1. queue' = Append(queue, k)
          BY <2>1, <3>1
      <4>2. Len(queue) + 1 \in 1..Len(queue') /\ queue'[Len(queue) + 1] = k
          BY <2>1, <4>1
      <4>3. QED
          BY <3>1, <4>2 DEF InQueue
    <3>2. CASE j # k /\ j \in processing
        BY <2>1, <3>2
    <3>3. CASE j # k /\ j \notin processing
      <4>1. \E i \in 1..Len(queue) : queue[i] = j
          BY <2>1, <3>3 DEF DirtyPending, InQueue
      <4>2. CASE k \in dirty
          BY <2>1, <4>1, <4>2, AppendKeeps DEF InQueue
      <4>3. CASE k \notin dirty
          BY <2>1, <4>1, <4>3 DEF InQueue
      <4>4. QED
          BY <4>2, <4>3
    <3>4. QED
        BY <3>1, <3>2, <3>3
  <2>3. UnreadDirty' /\ ShutdownAfterStop'
      BY <2>1 DEF UnreadDirty, ShutdownAfterStop
  <2>4. QED
      BY <1>0, <2>2, <2>3 DEF DirtyPending
<1>7. CASE Stop \/ ShutdownQueues \/ UNCHANGED vars
    BY <1>0, <1>7 DEF Stop, ShutdownQueues, vars, ShutdownAfterStop,
                      DirtyPending, InQueue, UnreadDirty
<1>8. QED
    BY <1>1, <1>2, <1>3, <1>4, <1>5, <1>6, <1>7 DEF Next

\* For every kind whose informer has event handlers, and every set of keys
\* and workers, an update that no sync has read yet is never forgotten: the
\* key is dirty and queued, or a worker is syncing it and Done queues it
\* again.  (PrestoTable, StorageLocation and ReportPrometheusQuery have no
\* handlers; the run workqueue_prestotable shows their updates are lost.)
THEOREM NoForgottenUpdate ==
    ASSUME Handled
    PROVE  Spec => []UnreadVersionPending
<1>1. Spec => []PInv
    BY PInvInit, PInvStep, PTL DEF Spec
<1>2. PInv => UnreadVersionPending
    BY DEF PInv, DirtyPending, UnreadDirty, InQueue, UnreadVersionPending
<1>3. QED
    BY <1>1, <1>2, PTL
-----------------------------------------------------------------------------
(* A failed key keeps a retry on its way.                                  *)

\* Add only grows the dirty set and, unless the queue shuts down, leaves its
\* key dirty.
LEMMA AddMarks ==
    ASSUME NEW k, Add(k)
    PROVE  /\ dirty \subseteq dirty'
           /\ ~shuttingDown => k \in dirty'
BY DEF Add

\* The same for an informer event, with or without handlers.
LEMMA HandleEventGrows ==
    ASSUME NEW k, HandleEvent(k)
    PROVE  dirty \subseteq dirty'
BY AddMarks DEF HandleEvent

\* handleErr resets the count, or raises it and schedules a retry unless the
\* queue shuts down.
LEMMA HandleErrRetries ==
    ASSUME NEW k \in Keys, NEW ok \in BOOLEAN,
           failures \in [Keys -> 0..MaxRequeues], handleErr(k, ok)
    PROVE  /\ \A j \in Keys \ {k} : failures'[j] = failures[j]
           /\ waiting \subseteq waiting'
           /\ failures'[k] > 0 => k \in waiting' \/ shuttingDown
<1>1. CASE ok
    BY <1>1 DEF handleErr
<1>2. CASE ~ok /\ failures[k] < MaxRequeues
    BY <1>2 DEF handleErr
<1>3. CASE ~ok /\ ~(failures[k] < MaxRequeues)
    BY <1>3 DEF handleErr
<1>4. QED
    BY <1>1, <1>2, <1>3

RInv == TypeInv /\ FailedKeyRetried

LEMMA RInvInit == Init => RInv
BY TypeInvInit DEF Init, RInv, FailedKeyRetried

LEMMA RInvStep == RInv /\ [Next]_vars => RInv'
<1> SUFFICES ASSUME RInv, [Next]_vars PROVE RInv'
    OBVIOUS
<1>0. TypeInv'
    BY TypeInvStep DEF RInv
<1> USE DEF RInv
<1>1. ASSUME NEW k \in Keys, Update(k) \/ Resync(k) PROVE FailedKeyRetried'
  <2>1. dirty \subseteq dirty'
      BY <1>1, HandleEventGrows DEF Update, Resync
  <2>2. QED
      BY <1>1, <2>1 DEF Update, Resync, FailedKeyRetried
<1>2. ASSUME NEW k \in Keys, FireDelayed(k) PROVE FailedKeyRetried'
  <2>1. dirty \subseteq dirty' /\ (~shuttingDown => k \in dirty')
      BY <1>2, AddMarks DEF FireDelayed
  <2>2. QED
      BY <1>2, <2>1 DEF FireDelayed, FailedKeyRetried
<1>3. ASSUME NEW w \in Workers, Get(w) PROVE FailedKeyRetried'
    BY <1>3 DEF Get, FailedKeyRetried
<1>4. ASSUME NEW w \in Workers, NEW ok \in BOOLEAN, Finish(w, ok)
      PROVE FailedKeyRetried'
  <2> DEFINE k == wkey[w]
  <2>1. k \in Keys /\ failures \in [Keys -> 0..MaxRequeues]
      BY <1>4 DEF Finish, TypeInv, TypeOK, BusyHasKey
  <2>2. /\ \A j \in Keys \ {k} : failures'[j] = failures[j]
        /\ waiting \subseteq waiting'
        /\ failures'[k] > 0 => k \in waiting' \/ shuttingDown
      BY <1>4, <2>1, HandleErrRetries DEF Finish
  <2>3. processing' = processing \ {k}
        /\ UNCHANGED <<dirty, shuttingDown>>
      BY <1>4 DEF Finish, Done
  <2>4. QED
      BY <2>2, <2>3 DEF FailedKeyRetried
<1>5. ASSUME NEW w \in Workers, GetShutdown(w) PROVE FailedKeyRetried'
    BY <1>5 DEF GetShutdown, FailedKeyRetried
<1>6. ASSUME Stop \/ ShutdownQueues \/ UNCHANGED vars
      PROVE  FailedKeyRetried'
    BY <1>6 DEF Stop, ShutdownQueues, vars, FailedKeyRetried
<1>7. QED
    BY <1>0, <1>1, <1>2, <1>3, <1>4, <1>5, <1>6 DEF Next

\* For every set of keys and workers and every budget, a key whose failures
\* the rate limiter counts has a retry pending until the queue shuts down:
\* every failure within the budget schedules AddRateLimited, and the drop
\* after the budget Forgets the key.
THEOREM RetryPending == Spec => []FailedKeyRetried
<1>1. Spec => []RInv
    BY RInvInit, RInvStep, PTL DEF Spec
<1>2. QED
    BY <1>1, PTL DEF RInv
=============================================================================
