------------------------ MODULE HiveQueryerProofs ------------------------
(***************************************************************************)
(* Proofs about HiveQueryer: the type invariant and the absence of leaked  *)
(* connections hold for every set of callers and every bound.             *)
(***************************************************************************)
EXTENDS HiveQueryer, TLAPS

\* Query's counter is below maxRetries inside the loop, and a connect loop
\* in its backoff has not yet passed the wait ceiling.
Bounds ==
    /\ \A c \in Callers :
          pc[c] \in {"get", "connect", "backoff", "query", "close"}
              => retries[c] < MaxRetries
    /\ \A c \in Callers : pc[c] = "backoff" => elapsed[c] <= MaxWaitTicks

TypeInv == TypeOK /\ Bounds

\* q.mu is held exactly by the caller in newHiveConn's loop, and only while
\* q.hiveConn is nil: getHiveConnection starts newHiveConn only then, and
\* closeHiveConnection needs the mutex.
LockInv ==
    /\ \A c \in Callers : pc[c] \in {"connect", "backoff"} <=> mu = c
    /\ mu # NoCaller => hiveConn = NoConn

IInv == TypeInv /\ LockInv /\ NoLeakedConnection

\* With one caller, what Query holds between its steps: q.hiveConn is an open
\* connection or nil; during hiveConn.Query it is the connection the caller
\* got; before closeHiveConnection it is nil or broken (a pipe error comes
\* only from a broken connection or from the connect loop, which runs while
\* q.hiveConn is nil); and after the loop it is nil.
SerialInv ==
    /\ hiveConn # NoConn => conn[hiveConn] = "open"
    /\ \A c \in Callers :
          /\ pc[c] = "query" => using[c] = hiveConn /\ hiveConn # NoConn
          /\ pc[c] = "close" => hiveConn = NoConn \/ hiveConn \in broken
          /\ pc[c] = "closeFinal" => hiveConn = NoConn
    /\ OnlyBrokenConnectionsClosed

SInv == IInv /\ SerialInv
-----------------------------------------------------------------------------

LEMMA IInvInit == Init => IInv
<1> SUFFICES ASSUME Init PROVE IInv
    OBVIOUS
<1>1. TypeOK
  <2>1. /\ hiveConn \in ConnIds \cup {NoConn}
        /\ conn \in [ConnIds -> {"unused", "open", "closed"}]
        /\ broken \subseteq ConnIds
        /\ nextConn \in 1..MaxConns + 1
    BY HiveQueryerAssumption DEF Init, ConnIds, NoConn
  <2>2. /\ mu \in Callers \cup {NoCaller}
        /\ pc \in [Callers -> PCs]
        /\ retries \in [Callers -> 0..MaxRetries]
    BY HiveQueryerAssumption DEF Init, PCs
  <2>3. /\ using \in [Callers -> ConnIds \cup {NoConn}]
        /\ elapsed \in [Callers -> 0..MaxWaitTicks + 1]
    BY HiveQueryerAssumption DEF Init, ConnIds, NoConn
  <2>4. stop \in BOOLEAN
    BY DEF Init
  <2>5. QED
    BY <2>1, <2>2, <2>3, <2>4 DEF TypeOK
<1>2. Bounds
    BY HiveQueryerAssumption DEF Init, Bounds
<1>3. LockInv /\ NoLeakedConnection
    BY HiveQueryerAssumption DEF Init, LockInv, NoLeakedConnection
<1>4. QED
    BY <1>1, <1>2, <1>3 DEF IInv, TypeInv

LEMMA IInvStep == IInv /\ [Next]_vars => IInv'
<1> SUFFICES ASSUME IInv, [Next]_vars PROVE IInv'
    OBVIOUS
<1> USE HiveQueryerAssumption
<1> USE DEF IInv, TypeInv, TypeOK, Bounds, LockInv, NoLeakedConnection,
            ConnIds, NoConn, PCs
<1>1. ASSUME NEW c \in Callers, StartQuery(c) PROVE IInv'
    BY <1>1 DEF StartQuery
<1>2. ASSUME NEW c \in Callers, GetConn(c) PROVE IInv'
  <2>1. TypeOK'
    <3>1. CASE hiveConn # NoConn
        BY <1>2, <3>1 DEF GetConn
    <3>2. CASE hiveConn = NoConn
      <4>1. mu' \in Callers \cup {NoCaller} /\ pc' \in [Callers -> PCs]
          BY <1>2, <3>2 DEF GetConn
      <4>2. using' \in [Callers -> ConnIds \cup {NoConn}]
          BY <1>2, <3>2 DEF GetConn
      <4>3. elapsed' \in [Callers -> 0..MaxWaitTicks + 1]
        <5>1. elapsed' = [elapsed EXCEPT ![c] = 0]
            BY <1>2, <3>2 DEF GetConn
        <5>2. QED
            BY <5>1
      <4>4. QED
          BY <1>2, <3>2, <4>1, <4>2, <4>3 DEF GetConn
    <3>3. QED
        BY <3>1, <3>2
  <2>2. Bounds'
      BY <1>2 DEF GetConn
  <2>3. LockInv'
      BY <1>2 DEF GetConn
  <2>4. NoLeakedConnection'
      BY <1>2 DEF GetConn
  <2>5. QED
      BY <2>1, <2>2, <2>3, <2>4
<1>3. ASSUME NEW c \in Callers, ConnectOK(c) PROVE IInv'
    BY <1>3 DEF ConnectOK
<1>4. ASSUME NEW c \in Callers, NEW e \in Errors, ConnectFail(c, e)
      PROVE IInv'
  <2>1. TypeOK'
      BY <1>4 DEF ConnectFail
  <2>2. Bounds'
      BY <1>4 DEF ConnectFail
  <2>3. LockInv'
      BY <1>4 DEF ConnectFail
  <2>4. NoLeakedConnection'
      BY <1>4 DEF ConnectFail
  <2>5. QED
      BY <2>1, <2>2, <2>3, <2>4
<1>5. ASSUME NEW c \in Callers, Tick(c) PROVE IInv'
    BY <1>5 DEF Tick
<1>6. ASSUME NEW c \in Callers, QueryOK(c) PROVE IInv'
    BY <1>6 DEF QueryOK
<1>7. ASSUME NEW c \in Callers, NEW e \in Errors, QueryErr(c, e)
      PROVE IInv'
    BY <1>7 DEF QueryErr
<1>8. ASSUME NEW c \in Callers, Close(c) PROVE IInv'
    BY <1>8 DEF Close, closeHiveConnection
<1>9. ASSUME NEW c \in Callers, CloseFinal(c) PROVE IInv'
    BY <1>9 DEF CloseFinal, closeHiveConnection
<1>10. ASSUME NEW i \in ConnIds, Break(i) PROVE IInv'
    BY <1>10 DEF Break
<1>11. CASE Stop
    BY <1>11 DEF Stop
<1>12. CASE UNCHANGED vars
    BY <1>12 DEF vars
<1>13. QED
    BY <1>1, <1>2, <1>3, <1>4, <1>5, <1>6, <1>7, <1>8, <1>9, <1>10,
       <1>11, <1>12 DEF Next, Step

LEMMA SInvInit == Init => SInv
<1> SUFFICES ASSUME Init PROVE SInv
    OBVIOUS
<1>1. IInv
    BY IInvInit
<1>2. SerialInv
    BY HiveQueryerAssumption DEF Init, SerialInv, OnlyBrokenConnectionsClosed,
                                  NoConn, ConnIds
<1>3. QED
    BY <1>1, <1>2 DEF SInv

\* The serial invariant is preserved when Query has a single caller.
LEMMA SInvStep ==
    ASSUME NEW c0, Callers = {c0}
    PROVE  SInv /\ [Next]_vars => SInv'
<1> SUFFICES ASSUME SInv, [Next]_vars PROVE SInv'
    OBVIOUS
<1>1. IInv'
    BY IInvStep DEF SInv
<1> DEFINE S0 == /\ hiveConn # NoConn => conn[hiveConn] = "open"
                 /\ pc[c0] = "query" => using[c0] = hiveConn /\ hiveConn # NoConn
                 /\ pc[c0] = "close" => hiveConn = NoConn \/ hiveConn \in broken
                 /\ pc[c0] = "closeFinal" => hiveConn = NoConn
                 /\ OnlyBrokenConnectionsClosed
<1>2. SerialInv <=> S0
    BY DEF SerialInv
<1>3. SerialInv' <=> S0'
    BY DEF SerialInv
<1> USE HiveQueryerAssumption
<1> USE DEF SInv, IInv, TypeInv, TypeOK, LockInv, NoLeakedConnection,
            OnlyBrokenConnectionsClosed, ConnIds, NoConn, PCs
<1>4. S0
    BY <1>2
<1>5. ASSUME NEW c \in Callers, Step(c) PROVE S0'
  <2> c = c0
      OBVIOUS
  <2>1. CASE StartQuery(c)
      BY <1>4, <2>1 DEF StartQuery
  <2>2. CASE GetConn(c)
      BY <1>4, <2>2 DEF GetConn
  <2>3. CASE ConnectOK(c)
      BY <1>4, <2>3 DEF ConnectOK
  <2>4. CASE Tick(c)
      BY <1>4, <2>4 DEF Tick
  <2>5. CASE QueryOK(c)
      BY <1>4, <2>5 DEF QueryOK
  <2>6. CASE Close(c)
      BY <1>4, <2>6 DEF Close, closeHiveConnection
  <2>7. CASE CloseFinal(c)
      BY <1>4, <2>7 DEF CloseFinal, closeHiveConnection
  <2>8. ASSUME NEW e \in Errors, ConnectFail(c, e) PROVE S0'
      BY <1>4, <2>8 DEF ConnectFail, Errors
  <2>9. ASSUME NEW e \in Errors, QueryErr(c, e) PROVE S0'
      BY <1>4, <2>9 DEF QueryErr, Errors
  <2>10. QED
      BY <1>5, <2>1, <2>2, <2>3, <2>4, <2>5, <2>6, <2>7, <2>8, <2>9 DEF Step
<1>6. ASSUME NEW i \in ConnIds, Break(i) PROVE S0'
    BY <1>4, <1>6 DEF Break
<1>7. ASSUME Stop PROVE S0'
    BY <1>4, <1>7 DEF Stop
<1>8. ASSUME UNCHANGED vars PROVE S0'
    BY <1>4, <1>8 DEF vars
<1>9. S0'
    BY <1>5, <1>6, <1>7, <1>8 DEF Next
<1>10. QED
    BY <1>1, <1>3, <1>9

\* The Hive client's state stays well typed for every number of callers and
\* every bound; in particular Query's counter never passes maxRetries.
THEOREM TypeCorrect == Spec => []TypeOK
<1>1. Spec => []IInv
    BY IInvInit, IInvStep, PTL DEF Spec
<1>2. QED
    BY <1>1, PTL DEF IInv, TypeInv

\* No connection leaks, for every number of concurrent callers: a
\* connection is open only while it is q.hiveConn, because newHiveConn runs
\* under q.mu only while q.hiveConn is nil and closeHiveConnection closes
\* the connection it drops.
THEOREM NoLeak == Spec => []NoLeakedConnection
<1>1. Spec => []IInv
    BY IInvInit, IInvStep, PTL DEF Spec
<1>2. QED
    BY <1>1, PTL DEF IInv

\* With one caller at a time, as spec section 4.2 asks of Query's callers,
\* Query closes only connections the network broke: a pipe error comes only
\* from a broken connection (or from newHiveConn while q.hiveConn is nil), and
\* no other caller can swap q.hiveConn between hiveConn.Query and
\* closeHiveConnection.  With two callers the run hive_close_race shows that
\* this fails.
THEOREM SerialCloseOnlyBroken ==
    ASSUME NEW c0, Callers = {c0}
    PROVE  Spec => []OnlyBrokenConnectionsClosed
<1>1. Spec => []SInv
    BY SInvInit, SInvStep, PTL DEF Spec
<1>2. QED
    BY <1>1, PTL DEF SInv, SerialInv

=============================================================================
