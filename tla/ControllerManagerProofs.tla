---------------------- MODULE ControllerManagerProofs ----------------------
(***************************************************************************)
(* Proofs about ControllerManager, for any number of replicas, any lease   *)
(* timing with RenewDeadline < LeaseDuration, both discovery modes, with   *)
(* and without release of the lease, processes held up or not, and any     *)
(* number of failures, except where a theorem says otherwise.              *)
(***************************************************************************)
EXTENDS ControllerManager, TLAPS

LEMMA InitTypeOK == Init => TypeOK
  BY LeaseAssumption DEF Init, TypeOK, Holders, ElectorStates, ManagerStates, CoreStates

LEMMA StopCoreType ==
  ASSUME TypeOK, NEW p \in Replicas, StopCore(p)
  PROVE  core' \in [Replicas -> CoreStates]
  BY DEF TypeOK, StopCore, CoreStates

(* What a function of the errgroup leaves behind is still of its type. *)
LEMMA ReturnsType ==
  ASSUME TypeOK, NEW p \in Replicas, NEW err,
         Returns(p, err) \/ ManagerReturns(p, err)
  PROVE  failed' \in [Replicas -> BOOLEAN] /\ canceled' \in [Replicas -> BOOLEAN]
  <1>1. failed \in [Replicas -> BOOLEAN] /\ canceled \in [Replicas -> BOOLEAN]
    BY DEF TypeOK
  <1>2. (IgnoreCanceled(err) # "nil") \in BOOLEAN
    OBVIOUS
  <1>3. (failed[p] \/ IgnoreCanceled(err) # "nil") \in BOOLEAN
        /\ (canceled[p] \/ IgnoreCanceled(err) # "nil") \in BOOLEAN
    OBVIOUS
  <1>4. failed' = [failed EXCEPT ![p] = failed[p] \/ IgnoreCanceled(err) # "nil"]
    BY DEF Returns, ManagerReturns
  <1>5. failed' \in [Replicas -> BOOLEAN]
    BY <1>1, <1>3, <1>4, Zenon
  <1>6. CASE Returns(p, err)
    <2>1. canceled' = [canceled EXCEPT ![p] = canceled[p] \/ IgnoreCanceled(err) # "nil"]
      BY <1>6 DEF Returns
    <2> QED BY <1>1, <1>3, <1>5, <2>1, Zenon
  <1>7. CASE ManagerReturns(p, err)
    <2>1. canceled' = [canceled EXCEPT ![p] = TRUE]
      BY <1>7 DEF ManagerReturns
    <2> QED BY <1>1, <1>5, <2>1, Zenon
  <1> QED BY <1>6, <1>7

LEMMA BreaksType ==
  ASSUME TypeOK, NEW p \in Replicas, Breaks(p)
  PROVE  broke' \in [Replicas -> BOOLEAN]
  BY DEF TypeOK, Breaks

LEMMA EndType ==
  ASSUME TypeOK, NEW p \in Replicas, NEW code \in {"none", "ok", "error"}, End(p, code)
  PROVE  /\ elector' \in [Replicas -> ElectorStates]
         /\ mgr' \in [Replicas -> ManagerStates]
         /\ core' \in [Replicas -> CoreStates]
         /\ workers' \in [Replicas -> SUBSET Workers]
         /\ lease' \in [holder : Holders, age : 0 .. LeaseDuration]
         /\ exit' \in [Replicas -> {"none", "ok", "error"}]
         /\ late' \subseteq Replicas
  BY DEF TypeOK, End, ElectorStates, ManagerStates, CoreStates, Holders

LEMMA ReleaseType ==
  ASSUME TypeOK, NEW p \in Replicas, Release(p)
  PROVE  lease' \in [holder : Holders, age : 0 .. LeaseDuration]
  BY LeaseAssumption DEF TypeOK, Release, Holders

LEMMA EndElectorType ==
  ASSUME TypeOK, NEW p \in Replicas, EndElector(p)
  PROVE  /\ elector' \in [Replicas -> ElectorStates]
         /\ lease' \in [holder : Holders, age : 0 .. LeaseDuration]
  BY ReleaseType DEF TypeOK, EndElector, ElectorStates

LEMMA DrainType ==
  ASSUME TypeOK, NEW p \in Replicas, NEW s \in Draining, Drain(p, s)
  PROVE  mgr' \in [Replicas -> ManagerStates] /\ core' \in [Replicas -> CoreStates]
  BY StopCoreType DEF TypeOK, Drain, Draining, ManagerStates

(* What ManagerGivesUp records of the error it returns *)
LEMMA BrokeType ==
  ASSUME TypeOK, NEW p \in Replicas, NEW err,
         broke' = [broke EXCEPT ![p] = @ \/ err = "error"]
  PROVE  broke' \in [Replicas -> BOOLEAN]
  <1>1. broke \in [Replicas -> BOOLEAN]
    BY DEF TypeOK
  <1>2. (broke[p] \/ err = "error") \in BOOLEAN
    OBVIOUS
  <1> QED BY <1>1, <1>2, Zenon

LEMMA FaultType == TypeOK /\ Fault => faults' \in Nat
  BY DEF TypeOK, Fault

(* The part of Next that belongs to one replica *)
Replica(p) ==
    \/ Boot(p) \/ Exit(p)
    \/ Worker(p) \/ Elector(p) \/ Manager(p) \/ Renew(p)
    \/ BeginCall(p) \/ EndCall(p)
    \/ Failure(p)

LEMMA NextTypeOK == TypeOK /\ [Next]_vars => TypeOK'
  <1> SUFFICES ASSUME TypeOK, [Next]_vars PROVE TypeOK'
    OBVIOUS
  <1>1. CASE UNCHANGED vars
    BY <1>1 DEF TypeOK, vars, processVars
  <1>2. CASE LeaseAges
    BY <1>2, LeaseAssumption DEF LeaseAges, TypeOK, processVars
  <1>3. ASSUME NEW p \in Replicas, Replica(p) PROVE TypeOK'
    <2>1. CASE Boot(p)
      BY <2>1 DEF Boot, TypeOK, ElectorStates, ManagerStates
    <2>2. CASE Exit(p)
      <3>1. (IF failed[p] THEN "error" ELSE "ok") \in {"none", "ok", "error"}
        OBVIOUS
      <3> QED BY <2>2, <3>1, EndType DEF Exit, TypeOK
    <2>3. CASE Worker(p)
      <3>1. PICK w \in Workers : WorkerStops(p, w)
        BY <2>3 DEF Worker
      <3>2. PICK err : Returns(p, err)
        BY <3>1 DEF WorkerStops
      <3>3. workers' \in [Replicas -> SUBSET Workers]
        BY <3>1 DEF WorkerStops, TypeOK
      <3> QED BY <3>1, <3>2, <3>3, ReturnsType DEF WorkerStops, TypeOK
    <2>4. CASE Acquire(p)
      BY <2>4, LeaseAssumption
         DEF Acquire, TypeOK, processVars, Holders, ElectorStates, ManagerStates
    <2>5. CASE StartCore(p)
      BY <2>5 DEF StartCore, TypeOK, processVars, CoreStates
    <2>6. CASE ManagerStopping(p)
      BY <2>6, DrainType DEF ManagerStopping, Draining, TypeOK, processVars
    <2>7. CASE ManagerStopped(p)
      <3>1. failed' \in [Replicas -> BOOLEAN] /\ canceled' \in [Replicas -> BOOLEAN]
        BY <2>7, ReturnsType DEF ManagerStopped
      <3> QED BY <2>7, <3>1, EndElectorType DEF ManagerStopped, TypeOK, ManagerStates
    <2>8. CASE LoseLease(p)
      BY <2>8, StopCoreType, ReturnsType, BreaksType DEF LoseLease, TypeOK, ManagerStates
    <2>9. CASE Renew(p)
      BY <2>9, LeaseAssumption DEF Renew, TypeOK, processVars, Holders
    <2>10. CASE BeginCall(p) \/ EndCall(p)
      BY <2>10 DEF BeginCall, EndCall, TypeOK, processVars, CoreStates
    <2>11. CASE BootFails(p)
      BY <2>11, FaultType, BreaksType DEF BootFails, TypeOK
    <2>12. CASE Signal(p)
      BY <2>12, FaultType DEF Signal, TypeOK
    <2>13. CASE \E w \in Workers : WorkerFails(p, w)
      <3>1. PICK w \in Workers : WorkerFails(p, w)
        BY <2>13
      <3>2. workers' \in [Replicas -> SUBSET Workers]
        BY <3>1 DEF WorkerFails, TypeOK
      <3> QED BY <3>1, <3>2, FaultType, ReturnsType, BreaksType DEF WorkerFails, TypeOK
    <2>14. CASE Crash(p)
      BY <2>14, FaultType, EndType DEF Crash, TypeOK
    <2>15. CASE RunnableFails(p)
      BY <2>15, FaultType, DrainType, BreaksType DEF RunnableFails, Draining, TypeOK
    <2>16. CASE ManagerQuits(p)
      BY <2>16, FaultType, DrainType DEF ManagerQuits, Draining, TypeOK, processVars
    <2>17. CASE ManagerGivesUp(p)
      <3>1. PICK err \in OverrunError(p) :
              /\ ManagerReturns(p, err)
              /\ broke' = [broke EXCEPT ![p] = @ \/ err = "error"]
        BY <2>17 DEF ManagerGivesUp
      <3>2. broke' \in [Replicas -> BOOLEAN]
        BY <3>1, BrokeType
      <3> QED BY <2>17, <3>1, <3>2, FaultType, EndElectorType, ReturnsType
              DEF ManagerGivesUp, TypeOK, ManagerStates
    <2>18. CASE MissRenewal(p)
      BY <2>18, FaultType, LeaseAssumption DEF MissRenewal, TypeOK, processVars
    <2>19. CASE ElectorGivesUp(p)
      BY <2>19, ReleaseType DEF ElectorGivesUp, TypeOK, processVars, ElectorStates
    <2> QED BY <1>3, <2>1, <2>2, <2>3, <2>4, <2>5, <2>6, <2>7, <2>8, <2>9, <2>10, <2>11,
               <2>12, <2>13, <2>14, <2>15, <2>16, <2>17, <2>18, <2>19
            DEF Replica, Elector, Manager, Failure
  <1> QED BY <1>1, <1>2, <1>3 DEF Next, Replica

(* The type invariant holds for any replicas, lease timing and failures. *)
THEOREM TypeCorrect == Spec => []TypeOK
  BY InitTypeOK, NextTypeOK, PTL DEF Spec

-----------------------------------------------------------------------------
(* The inductive invariant: what a replica can rely on while others act *)

(* The electors and the managers go together: a candidate waits for the lease, a leader
   has it or has lost it, and a manager that returned has ended its elector or lost. *)
ElectorsFit ==
    \A p \in Replicas :
        /\ mgr[p] = "off" <=> elector[p] = "off"
        /\ mgr[p] = "candidate" => elector[p] = "waiting"
        /\ mgr[p] = "leading" => elector[p] \in {"renewing", "lost"}
        /\ mgr[p] \in Returned => elector[p] \in {"lost", "ended"}
        /\ elector[p] = "ended" => mgr[p] \in Returned

(* An elector that renews holds the lease, and not for longer without a renewal than it
   may, unless its process is held up. *)
Holds(p) == lease.holder = p /\ lease.age <= RenewDeadline
RenewsOwnLease == \A p \in Replicas \ late : elector[p] = "renewing" => Holds(p)

(* A leader that lost its lease is still the last who had it, unless it released it, and
   others do not find it expired. *)
LeadsUnderLease ==
    \A p \in Replicas \ late : mgr[p] = "leading" =>
        \/ ReleasedEarly(p)
        \/ lease.holder = p /\ lease.age < LeaseDuration

(* Controllers run only in a replica that was elected, and calls outlive its manager only
   if that lost the lease or overran its grace period. *)
CoreElected ==
    \A p \in Replicas : core[p] # "off" =>
        /\ mgr[p] \notin {"off", "candidate"}
        /\ elector[p] \in {"renewing", "lost"} \/ mgr[p] = "overrun"
ActsAsLeader == \A p \in Replicas : Acting(p) => mgr[p] = "leading"

(* The errgroup, or the manager that is about to return to it, knows of every failure. *)
FailuresKept ==
    \A p \in Replicas :
        /\ mgr[p] # "off" => (broke[p] <=> failed[p] \/ mgr[p] = "failing")
        /\ mgr[p] = "off" => workers[p] = {}

Kept ==
    /\ ElectorsFit /\ RenewsOwnLease /\ LeadsUnderLease /\ CoreElected /\ ActsAsLeader
    /\ FailuresKept /\ ExitTellsFailure
HandoverInv == TypeOK /\ Kept

LEMMA InitHandoverInv == Init => HandoverInv
  BY InitTypeOK
     DEF Init, HandoverInv, Kept, ElectorsFit, RenewsOwnLease,
          LeadsUnderLease, ReleasedEarly, CoreElected, ActsAsLeader, FailuresKept, ExitTellsFailure, Acting,
          Returned

(* What a return to the errgroup does to the flags, point by point *)
LEMMA ReturnsEffect ==
  ASSUME TypeOK, NEW p \in Replicas, NEW err,
         Returns(p, err) \/ ManagerReturns(p, err)
  PROVE  \A q \in Replicas :
           /\ failed'[q] <=> failed[q] \/ (q = p /\ err \notin {"nil", "canceled"})
           /\ canceled[q] => canceled'[q]
           /\ ManagerReturns(p, err) => canceled'[p]
  <1> SUFFICES ASSUME NEW q \in Replicas
               PROVE  /\ failed'[q] <=> failed[q] \/ (q = p /\ err \notin {"nil", "canceled"})
                      /\ canceled[q] => canceled'[q]
                      /\ ManagerReturns(p, err) => canceled'[p]
    OBVIOUS
  <1>1. IgnoreCanceled(err) # "nil" <=> err \notin {"nil", "canceled"}
    BY DEF IgnoreCanceled
  <1>2. failed \in [Replicas -> BOOLEAN] /\ canceled \in [Replicas -> BOOLEAN]
    BY DEF TypeOK
  <1>3. failed' = [failed EXCEPT ![p] = failed[p] \/ IgnoreCanceled(err) # "nil"]
    BY DEF Returns, ManagerReturns
  <1>4. failed'[q] <=> failed[q] \/ (q = p /\ IgnoreCanceled(err) # "nil")
    BY <1>2, <1>3, Zenon
  <1>5. CASE Returns(p, err)
    <2>1. canceled' = [canceled EXCEPT ![p] = canceled[p] \/ IgnoreCanceled(err) # "nil"]
      BY <1>5 DEF Returns
    <2>2. canceled[q] => canceled'[q]
      BY <1>2, <2>1, Zenon
    <2>3. ManagerReturns(p, err) => canceled'[p]
      BY <1>2 DEF ManagerReturns
    <2> QED BY <1>1, <1>4, <2>2, <2>3
  <1>6. CASE ManagerReturns(p, err)
    <2>1. canceled' = [canceled EXCEPT ![p] = TRUE]
      BY <1>6 DEF ManagerReturns
    <2>2. canceled'[p] /\ (canceled[q] => canceled'[q])
      BY <1>2, <2>1, Zenon
    <2> QED BY <1>1, <1>4, <2>2
  <1> QED BY <1>5, <1>6

LEMMA BreaksEffect ==
  ASSUME TypeOK, NEW p \in Replicas, Breaks(p)
  PROVE  \A q \in Replicas : broke'[q] <=> broke[q] \/ q = p
  BY DEF TypeOK, Breaks

(* What a manager that stops returns *)
LEMMA CauseEffect ==
  ASSUME NEW p \in Replicas
  PROVE  /\ Cause(p) \in {"nil", "canceled", "error"}
         /\ Cause(p) = "error" <=> mgr[p] = "failing"
         /\ OverrunError(p) \subseteq {"nil", "canceled", "error"}
         /\ mgr[p] = "failing" => OverrunError(p) = {"error"}
  BY DEF Cause, OverrunError

(* The steps that leave the lease, the manager and the flags alone *)
LEMMA CallSteps ==
  ASSUME HandoverInv, NEW p \in Replicas,
         StartCore(p) \/ BeginCall(p) \/ EndCall(p)
  PROVE  Kept'
  BY DEF StartCore, CanStartCore, BeginCall, EndCall, Working, Holds, Acting, processVars, TypeOK,
         CoreStates, HandoverInv, Kept, ElectorsFit, RenewsOwnLease,
          LeadsUnderLease, ReleasedEarly, CoreElected, ActsAsLeader, FailuresKept, ExitTellsFailure

LEMMA LeaseSteps ==
  ASSUME HandoverInv,
         \/ LeaseAges
         \/ \E p \in Replicas : Acquire(p) \/ Renew(p) \/ MissRenewal(p) \/ ElectorGivesUp(p)
  PROVE  Kept'
  <1> USE LeaseAssumption, ReplicasAssumption, SettingsAssumption
      DEF Holds, Acting, processVars, TypeOK, Renewing, Draining, Returned, HandoverInv, Kept,
          ElectorsFit, RenewsOwnLease, LeadsUnderLease, ReleasedEarly, CoreElected, ActsAsLeader,
          FailuresKept, ExitTellsFailure
  <1>1. CASE LeaseAges
    BY <1>1 DEF LeaseAges
  <1>2. ASSUME NEW p \in Replicas, Acquire(p)
        PROVE  Kept'
    BY <1>2 DEF Acquire, Free
  <1>3. ASSUME NEW p \in Replicas, Renew(p) \/ MissRenewal(p)
        PROVE  Kept'
    BY <1>3 DEF Renew, MissRenewal, Free
  <1>4. ASSUME NEW p \in Replicas, ElectorGivesUp(p) PROVE Kept'
    BY <1>4 DEF ElectorGivesUp, Release
  <1> QED BY <1>1, <1>2, <1>3, <1>4

LEMMA ProcessSteps ==
  ASSUME HandoverInv, NEW p \in Replicas,
         Boot(p) \/ BootFails(p) \/ Exit(p) \/ Crash(p)
  PROVE  Kept'
  <1> USE LeaseAssumption, ReplicasAssumption
      DEF Holds, Acting, TypeOK, Draining, Returned, HandoverInv, Kept,
          ElectorsFit, RenewsOwnLease, LeadsUnderLease, ReleasedEarly, CoreElected, ActsAsLeader,
          FailuresKept, ExitTellsFailure
  <1>1. CASE Boot(p)
    BY <1>1 DEF Boot
  <1>2. CASE BootFails(p)
    BY <1>2, BreaksEffect DEF BootFails
  <1>3. CASE Exit(p)
    BY <1>3 DEF Exit, End
  <1>4. CASE Crash(p)
    BY <1>4 DEF Crash, End
  <1> QED BY <1>1, <1>2, <1>3, <1>4

LEMMA WorkerSteps ==
  ASSUME HandoverInv, NEW p \in Replicas, NEW w \in Workers,
         Signal(p) \/ WorkerFails(p, w) \/ WorkerStops(p, w)
  PROVE  Kept'
  <1> USE LeaseAssumption, ReplicasAssumption
      DEF Holds, Acting, TypeOK, Draining, Returned, HandoverInv, Kept,
          ElectorsFit, RenewsOwnLease, LeadsUnderLease, ReleasedEarly, CoreElected, ActsAsLeader,
          FailuresKept, ExitTellsFailure
  <1>1. CASE Signal(p)
    BY <1>1 DEF Signal
  <1>2. CASE WorkerFails(p, w)
    BY <1>2, ReturnsEffect, BreaksEffect DEF WorkerFails
  <1>3. CASE WorkerStops(p, w)
    <2>1. PICK err \in {"nil", "canceled"} : Returns(p, err)
      BY <1>3 DEF WorkerStops
    <2> QED BY <1>3, <2>1, ReturnsEffect DEF WorkerStops
  <1> QED BY <1>1, <1>2, <1>3

LEMMA OverrunStep ==
  ASSUME HandoverInv, NEW p \in Replicas, ManagerGivesUp(p)
  PROVE  Kept'
  <1>1. PICK err \in OverrunError(p) :
          /\ ManagerReturns(p, err)
          /\ broke' = [broke EXCEPT ![p] = @ \/ err = "error"]
    BY DEF ManagerGivesUp
  <1>2. \A q \in Replicas : broke'[q] <=> broke[q] \/ (q = p /\ err = "error")
    <2>1. broke \in [Replicas -> BOOLEAN]
      BY DEF HandoverInv, TypeOK
    <2> QED BY <1>1, <2>1, Zenon
  <1>3. \A q \in Replicas : failed'[q] <=> failed[q] \/ (q = p /\ err = "error")
    BY <1>1, ReturnsEffect, CauseEffect DEF HandoverInv
  <1>4. mgr[p] = "failing" => err = "error"
    BY <1>1, CauseEffect
  <1> QED BY <1>2, <1>3, <1>4, ReplicasAssumption
      DEF ManagerGivesUp, EndElector, Release, Renewing, Holds, Acting, TypeOK, Draining,
          Returned, HandoverInv, Kept, ElectorsFit, RenewsOwnLease, LeadsUnderLease, ReleasedEarly,
          CoreElected, ActsAsLeader, FailuresKept, ExitTellsFailure

LEMMA ManagerSteps ==
  ASSUME HandoverInv, NEW p \in Replicas,
         \/ RunnableFails(p) \/ ManagerQuits(p) \/ ManagerStopping(p)
         \/ ManagerStopped(p) \/ ManagerGivesUp(p) \/ LoseLease(p)
  PROVE  Kept'
  <1> USE LeaseAssumption, ReplicasAssumption
      DEF Holds, Acting, TypeOK, Draining, Returned, HandoverInv, Kept,
          ElectorsFit, RenewsOwnLease, LeadsUnderLease, ReleasedEarly, CoreElected, ActsAsLeader,
          FailuresKept, ExitTellsFailure
  <1>1. CASE RunnableFails(p)
    BY <1>1, BreaksEffect DEF RunnableFails, Drain, StopCore, Working, CoreStates
  <1>2. CASE ManagerQuits(p)
    BY <1>2 DEF ManagerQuits, Drain, StopCore, Working, CoreStates, processVars
  <1>3. CASE ManagerStopping(p)
    BY <1>3 DEF ManagerStopping, Drain, StopCore, Working, CoreStates, processVars
  <1>4. CASE ManagerStopped(p)
    BY <1>4, ReturnsEffect, CauseEffect DEF ManagerStopped, Drained, EndElector, Release, Renewing
  <1>5. CASE ManagerGivesUp(p)
    BY <1>5, OverrunStep
  <1>6. CASE LoseLease(p)
    BY <1>6, ReturnsEffect, BreaksEffect DEF LoseLease, Renewing, StopCore, Working, CoreStates
  <1> QED BY <1>1, <1>2, <1>3, <1>4, <1>5, <1>6

LEMMA NextHandoverInv == HandoverInv /\ [Next]_vars => HandoverInv'
  <1> SUFFICES ASSUME HandoverInv, [Next]_vars PROVE HandoverInv'
    OBVIOUS
  <1>1. TypeOK'
    BY NextTypeOK DEF HandoverInv
  <1>2. CASE UNCHANGED vars
    BY <1>1, <1>2 DEF vars, processVars, Holds, Acting, HandoverInv, Kept, ElectorsFit,
          RenewsOwnLease, LeadsUnderLease, ReleasedEarly, CoreElected, ActsAsLeader, FailuresKept, ExitTellsFailure
  <1>3. CASE LeaseAges
    BY <1>1, <1>3, LeaseSteps DEF HandoverInv
  <1>4. ASSUME NEW p \in Replicas, Replica(p) PROVE HandoverInv'
    <2>1. CASE StartCore(p) \/ BeginCall(p) \/ EndCall(p)
      BY <1>1, <2>1, CallSteps DEF HandoverInv
    <2>2. CASE Acquire(p) \/ Renew(p) \/ MissRenewal(p) \/ ElectorGivesUp(p)
      BY <1>1, <2>2, LeaseSteps DEF HandoverInv
    <2>3. CASE Boot(p) \/ BootFails(p) \/ Exit(p) \/ Crash(p)
      BY <1>1, <2>3, ProcessSteps DEF HandoverInv
    <2>4. CASE Signal(p) \/ Worker(p) \/ \E w \in Workers : WorkerFails(p, w)
      <3>1. \E w \in Workers : Signal(p) \/ WorkerFails(p, w) \/ WorkerStops(p, w)
        BY <2>4 DEF Worker, Workers
      <3> QED BY <1>1, <3>1, WorkerSteps DEF HandoverInv
    <2>5. CASE \/ RunnableFails(p) \/ ManagerQuits(p) \/ ManagerStopping(p)
               \/ ManagerStopped(p) \/ ManagerGivesUp(p) \/ LoseLease(p)
      BY <1>1, <2>5, ManagerSteps DEF HandoverInv
    <2> QED BY <1>4, <2>1, <2>2, <2>3, <2>4, <2>5 DEF Replica, Elector, Manager, Failure
  <1> QED BY <1>2, <1>3, <1>4 DEF Next, Replica

LEMMA HandoverInvariant == Spec => []HandoverInv
  BY InitHandoverInv, NextHandoverInv, PTL DEF Spec

-----------------------------------------------------------------------------
(* The theorems *)

(* applyLeaderElection, runUntilManagerStops: with any number of replicas, two that
   were not held up have calls to Zitadel under way at once only if one of them released
   its lease early, or is draining and lost its lease or overran its grace period. *)
THEOREM HandoverOrderly == Spec => []OverlapOnlyOnTheWayOut
  <1>1. HandoverInv => OverlapOnlyOnTheWayOut
    <2> SUFFICES ASSUME HandoverInv, NEW p \in Replicas \ late, NEW q \in Replicas \ late,
                        p # q, Working(p), Working(q)
                 PROVE  \E r \in {p, q} : \/ ReleasedEarly(r)
                                          \/ /\ core[r] = "draining"
                                             /\ elector[r] = "lost" \/ mgr[r] = "overrun"
      BY DEF OverlapOnlyOnTheWayOut
    <2>1. \A r \in {p, q} : elector[r] = "renewing" \/ elector[r] = "lost" \/ mgr[r] = "overrun"
      BY DEF HandoverInv, Kept, CoreElected, Working
    <2>2. \A r \in {p, q} : elector[r] = "renewing" => lease.holder = r
      BY DEF HandoverInv, Kept, RenewsOwnLease, Holds
    <2>3. \A r \in {p, q} : core[r] = "draining" \/ mgr[r] = "leading"
      BY DEF HandoverInv, Kept, ActsAsLeader, Acting, Working
    <2>4. \A r \in {p, q} : mgr[r] = "leading" => ReleasedEarly(r) \/ lease.holder = r
      BY DEF HandoverInv, Kept, LeadsUnderLease
    <2> QED BY <2>1, <2>2, <2>3, <2>4
  <1> QED BY <1>1, HandoverInvariant, PTL

(* runController: the exit code is an error exactly when something failed, in whichever
   order the manager and the workers return. *)
THEOREM ExitCodeTrue == Spec => []ExitTellsFailure
  <1>1. HandoverInv => ExitTellsFailure
    BY DEF HandoverInv, Kept
  <1> QED BY <1>1, HandoverInvariant, PTL

(* The replicas whose controllers take up work, as SingleActor sees them *)
Counts(p) == p \notin late /\ Acting(p) /\ ~ReleasedEarly(p)
Actors == {p \in Replicas : Counts(p)}

(* A leader's controllers are alone: who counts leads, and who leads holds the lease, which
   nobody else can take yet. *)
LEMMA ActorIsHolder ==
  ASSUME HandoverInv
  PROVE  \A p \in Replicas :
           Counts(p) => /\ lease.holder = p /\ lease.age < LeaseDuration
                        /\ mgr[p] = "leading"
  BY DEF Counts, HandoverInv, Kept, ActsAsLeader, LeadsUnderLease, ReleasedEarly

(* What SingleActor allows: the actors stay, the first one starts, or one stops *)
ActorsMove ==
    \/ Actors' = Actors
    \/ \E p \in Replicas : \/ Actors = {} /\ Actors' = {p}
                           \/ p \in Actors /\ Actors' = Actors \ {p}

(* A step after which nobody new counts is such a move, since at most one did before. *)
LEMMA FewerActors ==
  ASSUME HandoverInv, Actors' \subseteq Actors
  PROVE  ActorsMove
  <1>1. \A p, q \in Actors : p = q
    BY ActorIsHolder DEF Actors
  <1>2. CASE Actors = {}
    BY <1>2 DEF ActorsMove
  <1>3. ASSUME NEW p \in Actors PROVE ActorsMove
    <2>1. Actors = {p} /\ p \in Replicas
      BY <1>1, <1>3 DEF Actors
    <2> QED BY <2>1 DEF ActorsMove
  <1> QED BY <1>2, <1>3

(* Only StartCore makes a replica act. *)
LEMMA OthersStartNothing ==
  ASSUME HandoverInv, NEW p \in Replicas, Replica(p), ~StartCore(p)
  PROVE  \A q \in Replicas : Acting(q)' => Acting(q)
  <1> USE DEF Acting, HandoverInv, TypeOK
  <1>1. CASE BeginCall(p) \/ EndCall(p)
    BY <1>1 DEF BeginCall, EndCall, Working
  <1>2. CASE StopCore(p) \/ core' = [core EXCEPT ![p] = "off"] \/ core' = core
    BY <1>2 DEF StopCore
  <1> QED BY <1>1, <1>2
      DEF Replica, Elector, Manager, Failure, Worker, Boot, Exit, End, WorkerStops, Acquire,
          ManagerStopping, ManagerStopped, LoseLease, Renew, BootFails, Signal, WorkerFails,
          Crash, ElectorGivesUp, Drain, RunnableFails, ManagerQuits, ManagerGivesUp, MissRenewal,
          processVars

(* A replica that released its lease early, or whose process was held up, does not
   count again while it acts. *)
LEMMA NobodyCountsAgain ==
  ASSUME HandoverInv, [Next]_vars, NEW q \in Replicas, Acting(q), Acting(q)', Counts(q)'
  PROVE  Counts(q)
  <1> USE DEF Counts, ReleasedEarly
  <1>1. CASE UNCHANGED vars
    BY <1>1 DEF vars
  <1>2. CASE LeaseAges
    BY <1>2 DEF LeaseAges
  <1>3. ASSUME NEW p \in Replicas, Replica(p) PROVE Counts(q)
    <2>1. q \in late => q \in late'
      <3>1. CASE Exit(p) \/ Crash(p)
        BY <3>1 DEF Exit, Crash, End, Acting, HandoverInv, TypeOK
      <3>2. CASE MissRenewal(p)
        BY <3>2 DEF MissRenewal
      <3>3. CASE UNCHANGED late
        BY <3>3
      <3> QED BY <1>3, <3>1, <3>2, <3>3
          DEF Replica, Elector, Manager, Failure, Worker, Boot, WorkerStops, Acquire, StartCore,
              BeginCall, EndCall, ManagerStopping, ManagerStopped, LoseLease, Renew, BootFails,
              Signal, WorkerFails, ElectorGivesUp, RunnableFails, ManagerQuits, ManagerGivesUp
    <2>2. ~ReleasedEarly(q)' => ~ReleasedEarly(q)
      <3> USE ReplicasAssumption DEF Acting, Draining, HandoverInv, TypeOK, Kept, ActsAsLeader
      <3>1. CASE Boot(p) \/ Exit(p) \/ Crash(p)
        BY <3>1 DEF Boot, Exit, Crash, End
      <3>2. CASE ManagerStopped(p) \/ ManagerGivesUp(p)
        BY <3>2 DEF ManagerStopped, ManagerGivesUp, EndElector, Release
      <3>3. CASE ElectorGivesUp(p) \/ Acquire(p) \/ Renew(p) \/ MissRenewal(p)
        BY <3>3 DEF ElectorGivesUp, Acquire, Renew, MissRenewal, Release
      <3>4. CASE UNCHANGED <<lease, elector>>
        BY <3>4
      <3> QED BY <1>3, <3>1, <3>2, <3>3, <3>4
          DEF Replica, Elector, Manager, Failure, Worker, WorkerStops, StartCore, BeginCall,
              EndCall, ManagerStopping, LoseLease, BootFails, Signal, WorkerFails,
              RunnableFails, ManagerQuits
    <2> QED BY <2>1, <2>2
  <1> QED BY <1>1, <1>2, <1>3 DEF Next, Replica

LEMMA ActorsStep ==
  ASSUME HandoverInv, [Next]_vars
  PROVE  ActorsMove
  <1>1. ASSUME NEW p \in Replicas, StartCore(p)
        PROVE  ActorsMove
    <2>1. /\ mgr[p] = "leading" /\ core[p] = "off" /\ core' = [core EXCEPT ![p] = "idle"]
          /\ UNCHANGED <<lease, elector, late>>
      BY <1>1 DEF StartCore, CanStartCore
    <2>2. \A q \in Replicas \ {p} : Counts(q)' <=> Counts(q)
      BY <2>1 DEF Counts, Acting, ReleasedEarly, HandoverInv, TypeOK
    <2>3. CASE p \in late \/ ReleasedEarly(p)
      <3>1. ~Counts(p)'
        BY <2>1, <2>3 DEF Counts, ReleasedEarly
      <3> QED BY <2>2, <3>1, FewerActors DEF Actors
    <2>4. CASE p \notin late /\ ~ReleasedEarly(p)
      <3>1. lease.holder = p
        BY <2>1, <2>4 DEF HandoverInv, Kept, LeadsUnderLease
      <3>2. Actors = {}
        BY <2>1, <3>1, ActorIsHolder DEF Actors, Counts, Acting
      <3>3. Counts(p)'
        BY <2>1, <2>4 DEF Counts, Acting, ReleasedEarly, HandoverInv, TypeOK
      <3> QED BY <2>2, <3>2, <3>3 DEF Actors, ActorsMove
    <2> QED BY <2>3, <2>4
  <1>2. ASSUME \A q \in Replicas : Acting(q)' => Acting(q)
        PROVE  ActorsMove
    <2>1. Actors' \subseteq Actors
      BY <1>2, NobodyCountsAgain DEF Actors, Counts
    <2> QED BY <2>1, FewerActors
  <1>3. UNCHANGED vars \/ LeaseAges => \A q \in Replicas : Acting(q)' => Acting(q)
    BY DEF vars, LeaseAges, Acting
  <1> QED BY <1>1, <1>2, <1>3, OthersStartNothing DEF Next, Replica

(* docs/architecture.md, "Leadership coordination": any number of replicas, with or without
   the release, implement SingleActor: the controllers take up work in one replica at a
   time, whatever crashes, fails or misses renewals.  A process held up past the time the
   election gives it does not count, nor does one that released its lease early. *)
THEOREM ElectedActsAlone == Spec => OneActorAtATime
  <1>1. Init => Leadership!Init
    BY DEF Init, Leadership!Init, Acting
  <1>2. HandoverInv /\ [Next]_vars =>
          [Leadership!Next]_({p \in Replicas \ late : Acting(p) /\ ~ReleasedEarly(p)})
    BY ActorsStep DEF ActorsMove, Leadership!Next, Leadership!Start, Leadership!Stop, Actors,
       Counts
  <1> QED BY <1>1, <1>2, HandoverInvariant, PTL DEF Spec, OneActorAtATime, Leadership!Spec

=============================================================================
