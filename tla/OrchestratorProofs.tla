------------------------ MODULE OrchestratorProofs ------------------------
(***************************************************************************)
(* Proofs about Orchestrator: the type invariant and the startup order of  *)
(* Run hold for every set of kinds, every threadiness and every wait       *)
(* ceiling.                                                                *)
(***************************************************************************)
EXTENDS Orchestrator, TLAPS

\* A connect loop backs off only before its wait ceiling has passed.
Bounds ==
    /\ presto = "backoff" => prestoTicks <= MaxWaitTicks
    /\ hive = "backoff" => hiveTicks <= MaxWaitTicks

TypeInv == TypeOK /\ Bounds

\* Past g.Wait both connections are up; from the probe on the caches have
\* synced (Run leaves the cache wait for the probe only when they have).
StageInv ==
    /\ rpc \in {"prom", "cachesync", "probe", "workers", "running",
                "draining"} => presto = "ok" /\ hive = "ok"
    /\ rpc \in {"probe", "workers", "running", "draining"} => synced

IInv == TypeInv /\ StageInv /\ WorkersOnlyAfterStartup
-----------------------------------------------------------------------------

LEMMA IInvInit == Init => IInv
<1> SUFFICES ASSUME Init PROVE IInv
    OBVIOUS
<1>1. /\ rpc \in RunPCs
      /\ presto \in ConnPCs /\ prestoTicks \in 0..MaxWaitTicks + 1
      /\ hive \in ConnPCs /\ hiveTicks \in 0..MaxWaitTicks + 1
    BY OrchestratorAssumption DEF Init, RunPCs, ConnPCs
<1>2. /\ synced \in BOOLEAN /\ probeOk \in BOOLEAN
      /\ initialized \in BOOLEAN /\ queuesShut \in BOOLEAN
      /\ prestoOpen \in BOOLEAN /\ hiveOpen \in BOOLEAN
      /\ stop \in BOOLEAN
    BY DEF Init
<1>3. workers \in [Workers -> {"none", "running", "exited"}] /\ wg \in Nat
    BY DEF Init
<1>4. Bounds /\ StageInv /\ WorkersOnlyAfterStartup
    BY DEF Init, Bounds, StageInv, WorkersOnlyAfterStartup
<1>5. QED
    BY <1>1, <1>2, <1>3, <1>4 DEF IInv, TypeInv, TypeOK

LEMMA IInvStep == IInv /\ [Next]_vars => IInv'
<1> SUFFICES ASSUME IInv, [Next]_vars PROVE IInv'
    OBVIOUS
<1> USE OrchestratorAssumption
<1> USE DEF IInv, TypeInv, RunPCs, ConnPCs
<1>1. CASE StartInformers
  <2>1. TypeOK'
      BY <1>1 DEF StartInformers, TypeOK, Bounds, StageInv, WorkersOnlyAfterStartup
  <2>2. Bounds'
      BY <1>1 DEF StartInformers, TypeOK, Bounds, StageInv, WorkersOnlyAfterStartup
  <2>3. StageInv'
      BY <1>1 DEF StartInformers, TypeOK, Bounds, StageInv, WorkersOnlyAfterStartup
  <2>4. WorkersOnlyAfterStartup'
      BY <1>1 DEF StartInformers, TypeOK, Bounds, StageInv, WorkersOnlyAfterStartup
  <2>5. QED
      BY <2>1, <2>2, <2>3, <2>4
<1>2. ASSUME NEW ok \in BOOLEAN, PrestoAttempt(ok) PROVE IInv'
  <2>1. TypeOK'
      BY <1>2 DEF PrestoAttempt, TypeOK, Bounds, StageInv, WorkersOnlyAfterStartup
  <2>2. Bounds'
      BY <1>2 DEF PrestoAttempt, TypeOK, Bounds, StageInv, WorkersOnlyAfterStartup
  <2>3. StageInv'
      BY <1>2 DEF PrestoAttempt, TypeOK, Bounds, StageInv, WorkersOnlyAfterStartup
  <2>4. WorkersOnlyAfterStartup'
      BY <1>2 DEF PrestoAttempt, TypeOK, Bounds, StageInv, WorkersOnlyAfterStartup
  <2>5. QED
      BY <2>1, <2>2, <2>3, <2>4
<1>3. CASE PrestoBackoff
  <2>1. TypeOK'
      BY <1>3 DEF PrestoBackoff, TypeOK, Bounds, StageInv, WorkersOnlyAfterStartup
  <2>2. Bounds'
      BY <1>3 DEF PrestoBackoff, TypeOK, Bounds, StageInv, WorkersOnlyAfterStartup
  <2>3. StageInv'
      BY <1>3 DEF PrestoBackoff, TypeOK, Bounds, StageInv, WorkersOnlyAfterStartup
  <2>4. WorkersOnlyAfterStartup'
      BY <1>3 DEF PrestoBackoff, TypeOK, Bounds, StageInv, WorkersOnlyAfterStartup
  <2>5. QED
      BY <2>1, <2>2, <2>3, <2>4
<1>4. ASSUME NEW ok \in BOOLEAN, HiveAttempt(ok) PROVE IInv'
  <2>1. TypeOK'
      BY <1>4 DEF HiveAttempt, TypeOK, Bounds, StageInv, WorkersOnlyAfterStartup
  <2>2. Bounds'
      BY <1>4 DEF HiveAttempt, TypeOK, Bounds, StageInv, WorkersOnlyAfterStartup
  <2>3. StageInv'
      BY <1>4 DEF HiveAttempt, TypeOK, Bounds, StageInv, WorkersOnlyAfterStartup
  <2>4. WorkersOnlyAfterStartup'
      BY <1>4 DEF HiveAttempt, TypeOK, Bounds, StageInv, WorkersOnlyAfterStartup
  <2>5. QED
      BY <2>1, <2>2, <2>3, <2>4
<1>5. CASE HiveBackoff
  <2>1. TypeOK'
      BY <1>5 DEF HiveBackoff, TypeOK, Bounds, StageInv, WorkersOnlyAfterStartup
  <2>2. Bounds'
      BY <1>5 DEF HiveBackoff, TypeOK, Bounds, StageInv, WorkersOnlyAfterStartup
  <2>3. StageInv'
      BY <1>5 DEF HiveBackoff, TypeOK, Bounds, StageInv, WorkersOnlyAfterStartup
  <2>4. WorkersOnlyAfterStartup'
      BY <1>5 DEF HiveBackoff, TypeOK, Bounds, StageInv, WorkersOnlyAfterStartup
  <2>5. QED
      BY <2>1, <2>2, <2>3, <2>4
<1>6. CASE GroupWait
  <2>1. TypeOK'
      BY <1>6 DEF GroupWait, TypeOK, Bounds, StageInv, WorkersOnlyAfterStartup
  <2>2. Bounds'
      BY <1>6 DEF GroupWait, TypeOK, Bounds, StageInv, WorkersOnlyAfterStartup
  <2>3. StageInv'
      BY <1>6 DEF GroupWait, TypeOK, Bounds, StageInv, WorkersOnlyAfterStartup
  <2>4. WorkersOnlyAfterStartup'
      BY <1>6 DEF GroupWait, TypeOK, Bounds, StageInv, WorkersOnlyAfterStartup
  <2>5. QED
      BY <2>1, <2>2, <2>3, <2>4
<1>7. ASSUME NEW ok \in BOOLEAN, PromConn(ok) PROVE IInv'
  <2>1. TypeOK'
      BY <1>7 DEF PromConn, ReturnClosing, TypeOK, Bounds, StageInv, WorkersOnlyAfterStartup
  <2>2. Bounds'
      BY <1>7 DEF PromConn, ReturnClosing, TypeOK, Bounds, StageInv, WorkersOnlyAfterStartup
  <2>3. StageInv'
      BY <1>7 DEF PromConn, ReturnClosing, TypeOK, Bounds, StageInv, WorkersOnlyAfterStartup
  <2>4. WorkersOnlyAfterStartup'
      BY <1>7 DEF PromConn, ReturnClosing, TypeOK, Bounds, StageInv, WorkersOnlyAfterStartup
  <2>5. QED
      BY <2>1, <2>2, <2>3, <2>4
<1>8. CASE CachesSync
  <2>1. TypeOK'
      BY <1>8 DEF CachesSync, TypeOK, Bounds, StageInv, WorkersOnlyAfterStartup
  <2>2. Bounds'
      BY <1>8 DEF CachesSync, TypeOK, Bounds, StageInv, WorkersOnlyAfterStartup
  <2>3. StageInv'
      BY <1>8 DEF CachesSync, TypeOK, Bounds, StageInv, WorkersOnlyAfterStartup
  <2>4. WorkersOnlyAfterStartup'
      BY <1>8 DEF CachesSync, TypeOK, Bounds, StageInv, WorkersOnlyAfterStartup
  <2>5. QED
      BY <2>1, <2>2, <2>3, <2>4
<1>9. CASE WaitCacheSync
  <2>1. TypeOK'
      BY <1>9 DEF WaitCacheSync, ReturnClosing, TypeOK, Bounds, StageInv, WorkersOnlyAfterStartup
  <2>2. Bounds'
      BY <1>9 DEF WaitCacheSync, ReturnClosing, TypeOK, Bounds, StageInv, WorkersOnlyAfterStartup
  <2>3. StageInv'
      BY <1>9 DEF WaitCacheSync, ReturnClosing, TypeOK, Bounds, StageInv, WorkersOnlyAfterStartup
  <2>4. WorkersOnlyAfterStartup'
      BY <1>9 DEF WaitCacheSync, ReturnClosing, TypeOK, Bounds, StageInv, WorkersOnlyAfterStartup
  <2>5. QED
      BY <2>1, <2>2, <2>3, <2>4
<1>10. CASE ProbeAttempt
  <2>1. TypeOK'
      BY <1>10 DEF ProbeAttempt, TypeOK, Bounds, StageInv, WorkersOnlyAfterStartup
  <2>2. Bounds'
      BY <1>10 DEF ProbeAttempt, TypeOK, Bounds, StageInv, WorkersOnlyAfterStartup
  <2>3. StageInv'
      BY <1>10 DEF ProbeAttempt, TypeOK, Bounds, StageInv, WorkersOnlyAfterStartup
  <2>4. WorkersOnlyAfterStartup'
      BY <1>10 DEF ProbeAttempt, TypeOK, Bounds, StageInv, WorkersOnlyAfterStartup
  <2>5. QED
      BY <2>1, <2>2, <2>3, <2>4
<1>11. CASE ProbeStop
  <2>1. TypeOK'
      BY <1>11 DEF ProbeStop, TypeOK, Bounds, StageInv, WorkersOnlyAfterStartup
  <2>2. Bounds'
      BY <1>11 DEF ProbeStop, TypeOK, Bounds, StageInv, WorkersOnlyAfterStartup
  <2>3. StageInv'
      BY <1>11 DEF ProbeStop, TypeOK, Bounds, StageInv, WorkersOnlyAfterStartup
  <2>4. WorkersOnlyAfterStartup'
      BY <1>11 DEF ProbeStop, TypeOK, Bounds, StageInv, WorkersOnlyAfterStartup
  <2>5. QED
      BY <2>1, <2>2, <2>3, <2>4
<1>12. CASE StartWorkers
  <2>1. TypeOK'
      BY <1>12 DEF StartWorkers, TypeOK, Bounds, StageInv, WorkersOnlyAfterStartup
  <2>2. Bounds'
      BY <1>12 DEF StartWorkers, TypeOK, Bounds, StageInv, WorkersOnlyAfterStartup
  <2>3. StageInv'
      BY <1>12 DEF StartWorkers, TypeOK, Bounds, StageInv, WorkersOnlyAfterStartup
  <2>4. WorkersOnlyAfterStartup'
      BY <1>12 DEF StartWorkers, TypeOK, Bounds, StageInv, WorkersOnlyAfterStartup
  <2>5. QED
      BY <2>1, <2>2, <2>3, <2>4
<1>13. CASE AwaitStop
  <2>1. TypeOK'
      BY <1>13 DEF AwaitStop, TypeOK, Bounds, StageInv, WorkersOnlyAfterStartup
  <2>2. Bounds'
      BY <1>13 DEF AwaitStop, TypeOK, Bounds, StageInv, WorkersOnlyAfterStartup
  <2>3. StageInv'
      BY <1>13 DEF AwaitStop, TypeOK, Bounds, StageInv, WorkersOnlyAfterStartup
  <2>4. WorkersOnlyAfterStartup'
      BY <1>13 DEF AwaitStop, TypeOK, Bounds, StageInv, WorkersOnlyAfterStartup
  <2>5. QED
      BY <2>1, <2>2, <2>3, <2>4
<1>14. CASE WaitGroupWait
  <2>1. TypeOK'
      BY <1>14 DEF WaitGroupWait, ReturnClosing, TypeOK, Bounds, StageInv, WorkersOnlyAfterStartup
  <2>2. Bounds'
      BY <1>14 DEF WaitGroupWait, ReturnClosing, TypeOK, Bounds, StageInv, WorkersOnlyAfterStartup
  <2>3. StageInv'
      BY <1>14 DEF WaitGroupWait, ReturnClosing, TypeOK, Bounds, StageInv, WorkersOnlyAfterStartup
  <2>4. WorkersOnlyAfterStartup'
      BY <1>14 DEF WaitGroupWait, ReturnClosing, TypeOK, Bounds, StageInv, WorkersOnlyAfterStartup
  <2>5. QED
      BY <2>1, <2>2, <2>3, <2>4
<1>15. CASE ShutdownQueues
  <2>1. TypeOK'
      BY <1>15 DEF ShutdownQueues, TypeOK, Bounds, StageInv, WorkersOnlyAfterStartup
  <2>2. Bounds'
      BY <1>15 DEF ShutdownQueues, TypeOK, Bounds, StageInv, WorkersOnlyAfterStartup
  <2>3. StageInv'
      BY <1>15 DEF ShutdownQueues, TypeOK, Bounds, StageInv, WorkersOnlyAfterStartup
  <2>4. WorkersOnlyAfterStartup'
      BY <1>15 DEF ShutdownQueues, TypeOK, Bounds, StageInv, WorkersOnlyAfterStartup
  <2>5. QED
      BY <2>1, <2>2, <2>3, <2>4
<1>16. ASSUME NEW w \in Workers, WorkerExit(w) PROVE IInv'
  <2>1. TypeOK'
      BY <1>16 DEF WorkerExit, TypeOK, Bounds, StageInv, WorkersOnlyAfterStartup
  <2>2. Bounds'
      BY <1>16 DEF WorkerExit, TypeOK, Bounds, StageInv, WorkersOnlyAfterStartup
  <2>3. StageInv'
      BY <1>16 DEF WorkerExit, TypeOK, Bounds, StageInv, WorkersOnlyAfterStartup
  <2>4. WorkersOnlyAfterStartup'
      BY <1>16 DEF WorkerExit, TypeOK, Bounds, StageInv, WorkersOnlyAfterStartup
  <2>5. QED
      BY <2>1, <2>2, <2>3, <2>4
<1>17. CASE Stop
  <2>1. TypeOK'
      BY <1>17 DEF Stop, TypeOK, Bounds, StageInv, WorkersOnlyAfterStartup
  <2>2. Bounds'
      BY <1>17 DEF Stop, TypeOK, Bounds, StageInv, WorkersOnlyAfterStartup
  <2>3. StageInv'
      BY <1>17 DEF Stop, TypeOK, Bounds, StageInv, WorkersOnlyAfterStartup
  <2>4. WorkersOnlyAfterStartup'
      BY <1>17 DEF Stop, TypeOK, Bounds, StageInv, WorkersOnlyAfterStartup
  <2>5. QED
      BY <2>1, <2>2, <2>3, <2>4
<1>18. CASE UNCHANGED vars
  <2>1. TypeOK'
      BY <1>18 DEF vars, TypeOK, Bounds, StageInv, WorkersOnlyAfterStartup
  <2>2. Bounds'
      BY <1>18 DEF vars, TypeOK, Bounds, StageInv, WorkersOnlyAfterStartup
  <2>3. StageInv'
      BY <1>18 DEF vars, TypeOK, Bounds, StageInv, WorkersOnlyAfterStartup
  <2>4. WorkersOnlyAfterStartup'
      BY <1>18 DEF vars, TypeOK, Bounds, StageInv, WorkersOnlyAfterStartup
  <2>5. QED
      BY <2>1, <2>2, <2>3, <2>4
<1>19. QED
    BY <1>1, <1>2, <1>3, <1>4, <1>5, <1>6, <1>7, <1>8, <1>9, <1>10, <1>11, <1>12, <1>13, <1>14, <1>15, <1>16, <1>17, <1>18 DEF Next, RunStep

\* Run starts no worker before both connections are up and every informer
\* cache has synced, for every kind set, threadiness and wait ceiling,
\* whichever of the connects, the cache sync and the stop signal comes first.
THEOREM StartupOrder == Spec => []WorkersOnlyAfterStartup
<1>1. Spec => []IInv
    BY IInvInit, IInvStep, PTL DEF Spec
<1>2. QED
    BY <1>1, PTL DEF IInv

\* Run's state stays well typed; the connect loops' tick counters never
\* pass the wait ceiling by more than the final attempt.
THEOREM TypeCorrect == Spec => []TypeOK
<1>1. Spec => []IInv
    BY IInvInit, IInvStep, PTL DEF Spec
<1>2. QED
    BY <1>1, PTL DEF IInv, TypeInv
=============================================================================
