------------------------- MODULE ControllerManager -------------------------
(***************************************************************************)
(* The controller command (cmd/controller/controller.go) as replicas of    *)
(* one deployment, with leader election enabled.  A process runs a main    *)
(* manager, which takes part in the election, and workers beside it, all   *)
(* in one errgroup; the core control plane manager, with most of the       *)
(* controllers that write to Zitadel, is a runnable of the main manager,   *)
(* which runs ServiceAccountController itself, also once it leads: core    *)
(* stands for both.                                                        *)
(*                                                                         *)
(* The manager is controller-runtime's and the elector in it client-go's,  *)
(* known by how the command uses them.  The elector renews the lease every *)
(* RetryPeriod (a tick) and gives up after RenewDeadline without success;  *)
(* it then releases the lease, if asked to, before the manager hears of    *)
(* the loss and stops without a grace period.  Others take the lease       *)
(* LeaseDuration after the last renewal they saw.  A manager that is       *)
(* stopped waits for its runnables, for a grace period, and ends its       *)
(* elector after that; a lease lost meanwhile is only logged.  A step of   *)
(* the lease's age is a tick without a renewal.                            *)
(***************************************************************************)
EXTENDS Naturals

CONSTANTS
    Replicas,
    MiloDiscovery,    \* discovery mode milo, else single
    LeaseDuration, RenewDeadline,
    ReleaseOnCancel,
    MaxFaults         \* bound on failures, missed renewals and signals

\* Holders of the lease that are no replica
ASSUME ReplicasAssumption == "nobody" \notin Replicas /\ "former" \notin Replicas
ASSUME LeaseAssumption ==
    /\ LeaseDuration \in Nat /\ RenewDeadline \in Nat
    /\ 0 < RenewDeadline /\ RenewDeadline < LeaseDuration
ASSUME SettingsAssumption ==
    /\ MiloDiscovery \in BOOLEAN /\ ReleaseOnCancel \in BOOLEAN
    /\ MaxFaults \in Nat

VARIABLES
    lease,      \* who holds it and since how many ticks it was not renewed
    elector,    \* the leader elector of each replica
    mgr,        \* the main manager of each replica
    core,       \* the core control plane manager of each replica
    workers,    \* the workers that have not returned
    canceled,   \* the context of the errgroup is canceled
    failed,     \* the errgroup has an error
    broke,      \* history: something failed in this process
    exit,       \* how the last process ended
    late,       \* history: the replicas whose process was held up past the time the
                \* election gives it
    faults

processVars == <<workers, canceled, failed, broke, exit>>
vars == <<lease, elector, mgr, core, processVars, late, faults>>

-----------------------------------------------------------------------------
(* Data *)

\* initializeClusterDiscovery: the clusters and the discovery manager that run
\* beside the main manager
Workers == {"deploymentCluster", "coreControlPlaneCluster"}
              \cup (IF MiloDiscovery THEN {"discoveryManager"} ELSE {})

\* A process that ended leaves its identity in the lease: "former".
Holders == Replicas \cup {"nobody", "former"}
ElectorStates == {"off", "waiting", "renewing", "lost", "ended"}
\* stopping, quitting and failing: the manager waits for its runnables because its
\* context is canceled, a runnable returned context.Canceled, or one failed; overrun:
\* it returned without them
ManagerStates == {"off", "candidate", "leading", "stopping", "quitting", "failing",
                  "stopped", "overrun"}
Draining == {"stopping", "quitting", "failing"}
Returned == {"stopped", "overrun"}
\* busy and draining: a reconcile is in the middle of a call, in the latter case
\* under a canceled context
CoreStates == {"off", "idle", "busy", "draining"}

TypeOK ==
    /\ lease \in [holder : Holders, age : 0 .. LeaseDuration]
    /\ elector \in [Replicas -> ElectorStates]
    /\ mgr \in [Replicas -> ManagerStates]
    /\ core \in [Replicas -> CoreStates]
    /\ workers \in [Replicas -> SUBSET Workers]
    /\ canceled \in [Replicas -> BOOLEAN]
    /\ failed \in [Replicas -> BOOLEAN]
    /\ broke \in [Replicas -> BOOLEAN]
    /\ exit \in [Replicas -> {"none", "ok", "error"}]
    /\ late \subseteq Replicas
    /\ faults \in Nat

Init ==
    /\ lease = [holder |-> "nobody", age |-> 0]
    /\ elector = [p \in Replicas |-> "off"]
    /\ mgr = [p \in Replicas |-> "off"]
    /\ core = [p \in Replicas |-> "off"]
    /\ workers = [p \in Replicas |-> {}]
    /\ canceled = [p \in Replicas |-> FALSE]
    /\ failed = [p \in Replicas |-> FALSE]
    /\ broke = [p \in Replicas |-> FALSE]
    /\ exit = [p \in Replicas |-> "none"]
    /\ late = {}
    /\ faults = 0

Fault == faults < MaxFaults /\ faults' = faults + 1

\* The controllers of p take up work; they have a call to Zitadel under way
Acting(p) == core[p] \in {"idle", "busy"}
Working(p) == core[p] \in {"busy", "draining"}

\* The elector renews the lease from when it has it until the manager has stopped.
Renewing(p) == elector[p] = "renewing" /\ lease.holder = p

-----------------------------------------------------------------------------
(* runUntilManagerStops *)

\* Every error is reported
IgnoreCanceled_Not(err) == err
IgnoreCanceled(err) == IF err = "canceled" THEN "nil" ELSE err

\* A function of the errgroup returns err: an error cancels the others.
Returns(p, err) ==
    /\ failed' = [failed EXCEPT ![p] = @ \/ IgnoreCanceled(err) # "nil"]
    /\ canceled' = [canceled EXCEPT ![p] = @ \/ IgnoreCanceled(err) # "nil"]
Breaks(p) == broke' = [broke EXCEPT ![p] = TRUE]

\* The manager's function cancels the others even when it returns no error.
\* Without the deferred cancel:
ManagerReturns_NoCancel(p, err) ==
    /\ failed' = [failed EXCEPT ![p] = @ \/ IgnoreCanceled(err) # "nil"]
    /\ canceled' = [canceled EXCEPT ![p] = @ \/ IgnoreCanceled(err) # "nil"]
ManagerReturns(p, err) ==
    /\ failed' = [failed EXCEPT ![p] = @ \/ IgnoreCanceled(err) # "nil"]
    /\ canceled' = [canceled EXCEPT ![p] = TRUE]

\* runController: all parts are built, then run; the kubelet starts it again
\* whenever it has ended.
Boot(p) ==
    /\ mgr[p] = "off"
    /\ mgr' = [mgr EXCEPT ![p] = "candidate"]
    /\ elector' = [elector EXCEPT ![p] = "waiting"]
    /\ workers' = [workers EXCEPT ![p] = Workers]
    /\ canceled' = [canceled EXCEPT ![p] = FALSE]
    /\ failed' = [failed EXCEPT ![p] = FALSE]
    /\ broke' = [broke EXCEPT ![p] = FALSE]
    /\ exit' = [exit EXCEPT ![p] = "none"]
    /\ UNCHANGED <<lease, core, late, faults>>

\* A part cannot be built: os.Exit(1)
BootFails(p) ==
    /\ mgr[p] = "off"
    /\ Fault
    /\ Breaks(p)
    /\ exit' = [exit EXCEPT ![p] = "error"]
    /\ UNCHANGED <<lease, elector, mgr, core, workers, canceled, failed, late>>

\* SIGTERM cancels the context of the whole process.
Signal(p) ==
    /\ mgr[p] # "off"
    /\ ~canceled[p]
    /\ Fault
    /\ canceled' = [canceled EXCEPT ![p] = TRUE]
    /\ UNCHANGED <<lease, elector, mgr, core, workers, failed, broke, exit, late>>

WorkerFails(p, w) ==
    /\ w \in workers[p]
    /\ Fault
    /\ workers' = [workers EXCEPT ![p] = @ \ {w}]
    /\ Returns(p, "error")
    /\ Breaks(p)
    /\ UNCHANGED <<lease, elector, mgr, core, exit, late>>

WorkerStops(p, w) ==
    /\ w \in workers[p]
    /\ canceled[p]
    /\ workers' = [workers EXCEPT ![p] = @ \ {w}]
    /\ \E err \in {"nil", "canceled"} : Returns(p, err)
    /\ UNCHANGED <<lease, elector, mgr, core, broke, exit, late, faults>>

\* A process that ends takes its controllers with it.
End(p, code) ==
    /\ elector' = [elector EXCEPT ![p] = "off"]
    /\ mgr' = [mgr EXCEPT ![p] = "off"]
    /\ core' = [core EXCEPT ![p] = "off"]
    /\ workers' = [workers EXCEPT ![p] = {}]
    /\ lease' = [lease EXCEPT !.holder = IF @ = p THEN "former" ELSE @]
    /\ exit' = [exit EXCEPT ![p] = code]
    /\ late' = late \ {p}

\* g.Wait returns once the manager and all workers have
Exit(p) ==
    /\ mgr[p] \in Returned
    /\ workers[p] = {}
    /\ End(p, IF failed[p] THEN "error" ELSE "ok")
    /\ UNCHANGED <<canceled, failed, broke, faults>>

Crash(p) ==
    /\ mgr[p] # "off"
    /\ Fault
    /\ End(p, "none")
    /\ UNCHANGED <<canceled, failed, broke>>

-----------------------------------------------------------------------------
(* The leader elector *)

Free == lease.holder = "nobody" \/ lease.age = LeaseDuration

\* The elector runs on while the manager stops, but only a candidate starts to lead.
Acquire(p) ==
    /\ elector[p] = "waiting"
    /\ Free
    /\ lease' = [holder |-> p, age |-> 0]
    /\ elector' = [elector EXCEPT ![p] = "renewing"]
    /\ mgr' = [mgr EXCEPT ![p] = IF @ = "candidate" THEN "leading" ELSE @]
    /\ UNCHANGED <<core, processVars, late, faults>>

\* A tick without a renewal.  An elector gives up at RenewDeadline, unless its process
\* is held up: then it may even let the lease expire.
MissRenewal(p) ==
    /\ Renewing(p)
    /\ lease.age < LeaseDuration
    /\ Fault
    /\ lease' = [lease EXCEPT !.age = @ + 1]
    /\ late' = IF lease.age < RenewDeadline THEN late ELSE late \cup {p}
    /\ UNCHANGED <<elector, mgr, core, processVars>>

\* An elector that comes late takes its lease again while nobody else has it.
Renew(p) ==
    /\ elector[p] = "renewing"
    /\ lease.holder = p \/ Free
    /\ lease' = [holder |-> p, age |-> 0]
    /\ UNCHANGED <<elector, mgr, core, processVars, late, faults>>

\* The call that releases the lease may fail.
Release(p) ==
    \/ UNCHANGED lease
    \/ ReleaseOnCancel /\ Renewing(p) /\ lease' = [holder |-> "nobody", age |-> 0]

ElectorGivesUp(p) ==
    /\ elector[p] = "renewing"
    /\ lease.holder # p \/ lease.age >= RenewDeadline
    /\ elector' = [elector EXCEPT ![p] = "lost"]
    /\ Release(p)
    /\ UNCHANGED <<mgr, core, processVars, late, faults>>

EndElector(p) ==
    /\ elector' = [elector EXCEPT ![p] = IF @ = "lost" THEN @ ELSE "ended"]
    /\ Release(p)

\* Nobody renews the lease any more.  A manager stops before its lost lease expires,
\* unless its process is held up.
LeaseAges ==
    /\ lease.holder # "nobody"
    /\ \A p \in Replicas : ~Renewing(p)
    /\ lease.age < LeaseDuration
    /\ lease' = [lease EXCEPT !.age = @ + 1]
    /\ late' = late \cup {p \in Replicas : /\ lease.age + 1 = LeaseDuration
                                         /\ mgr[p] = "leading" /\ lease.holder = p}
    /\ UNCHANGED <<elector, mgr, core, processVars, faults>>

-----------------------------------------------------------------------------
(* The main manager and the core control plane manager under it *)

\* The election is not waited for; the core manager takes part in the election itself
CanStartCore_Unelected(p) == mgr[p] \in {"candidate", "leading"}
CanStartCore_OwnElection(p) == mgr[p] = "leading" /\ Free
\* coreControlPlaneRunnable.Start waits for Elected
CanStartCore(p) == mgr[p] = "leading"
StartCore(p) ==
    /\ CanStartCore(p)
    /\ core[p] = "off"
    /\ core' = [core EXCEPT ![p] = "idle"]
    /\ UNCHANGED <<lease, elector, mgr, processVars, late, faults>>

\* A reconcile or a sweep begins a call, and the call ends.
BeginCall(p) ==
    /\ core[p] = "idle"
    /\ core' = [core EXCEPT ![p] = "busy"]
    /\ UNCHANGED <<lease, elector, mgr, processVars, late, faults>>

EndCall(p) ==
    /\ Working(p)
    /\ core' = [core EXCEPT ![p] = IF @ = "busy" THEN "idle" ELSE "off"]
    /\ UNCHANGED <<lease, elector, mgr, processVars, late, faults>>

\* The context of the core manager is canceled with that of the main manager's
\* runnables.
StopCore(p) == core' = [core EXCEPT ![p] = IF Working(p) THEN "draining" ELSE "off"]

\* The manager begins to stop: its runnables are canceled and waited for.
Drain(p, s) ==
    /\ mgr[p] \in {"candidate", "leading"}
    /\ mgr' = [mgr EXCEPT ![p] = s]
    /\ StopCore(p)

\* The core manager, a controller or the cluster provider (Engage) fails.
RunnableFails(p) ==
    /\ Drain(p, "failing")
    /\ Fault
    /\ Breaks(p)
    /\ UNCHANGED <<lease, elector, workers, canceled, failed, exit, late>>

\* The manager ends although nobody asked it to: a runnable returned
\* context.Canceled, which ignoreCanceled drops.
ManagerQuits(p) ==
    /\ Drain(p, "quitting")
    /\ Fault
    /\ UNCHANGED <<lease, elector, processVars, late>>

ManagerStopping(p) ==
    /\ canceled[p]
    /\ Drain(p, "stopping")
    /\ UNCHANGED <<lease, elector, processVars, late, faults>>

\* What the manager stops with
Cause(p) ==
    CASE mgr[p] = "failing"  -> "error"
      [] mgr[p] = "quitting" -> "canceled"
      [] OTHER               -> "nil"

\* The lease is released while a call is still under way
Drained_Early(p) == TRUE
Drained(p) == core[p] = "off"
ManagerStopped(p) ==
    /\ mgr[p] \in Draining
    /\ Drained(p)
    /\ mgr' = [mgr EXCEPT ![p] = "stopped"]
    /\ EndElector(p)
    /\ ManagerReturns(p, Cause(p))
    /\ UNCHANGED <<core, workers, broke, exit, late, faults>>

\* A grace period that ends too early is an error unless the lease was lost meanwhile
\* (the loss sets the grace period to none).  The error is joined to the cause, and a
\* cause that is context.Canceled makes ignoreCanceled drop both.
OverrunError(p) ==
    CASE mgr[p] = "quitting" -> {"canceled"}
      [] elector[p] = "lost" -> {Cause(p), "error"}
      [] OTHER -> {"error"}

\* The grace period ends before the call does.
ManagerGivesUp(p) ==
    /\ mgr[p] \in Draining
    /\ core[p] = "draining"
    /\ Fault
    /\ mgr' = [mgr EXCEPT ![p] = "overrun"]
    /\ EndElector(p)
    /\ \E err \in OverrunError(p) :
        /\ ManagerReturns(p, err)
        /\ broke' = [broke EXCEPT ![p] = @ \/ err = "error"]
    /\ UNCHANGED <<core, workers, exit, late>>

\* "leader election lost": the manager returns without waiting for its runnables.
LoseLease(p) ==
    /\ elector[p] = "lost"
    /\ mgr[p] = "leading"
    /\ mgr' = [mgr EXCEPT ![p] = "stopped"]
    /\ StopCore(p)
    /\ ManagerReturns(p, "error")
    /\ Breaks(p)
    /\ UNCHANGED <<lease, elector, workers, exit, late, faults>>

\* The goroutines of a process: the workers, the elector, and the main manager
Worker(p) == \E w \in Workers : WorkerStops(p, w)
Elector(p) == Acquire(p) \/ ElectorGivesUp(p)
Manager(p) ==
    \/ StartCore(p)
    \/ ManagerStopping(p)
    \/ ManagerStopped(p)
    \/ LoseLease(p)

Failure(p) ==
    \/ BootFails(p)
    \/ Signal(p)
    \/ \E w \in Workers : WorkerFails(p, w)
    \/ Crash(p)
    \/ RunnableFails(p)
    \/ ManagerQuits(p)
    \/ ManagerGivesUp(p)
    \/ MissRenewal(p)

Next ==
    \/ \E p \in Replicas :
        \/ Boot(p) \/ Exit(p)
        \/ Worker(p) \/ Elector(p) \/ Manager(p) \/ Renew(p)
        \/ BeginCall(p) \/ EndCall(p)
        \/ Failure(p)
    \/ LeaseAges

Spec == Init /\ [][Next]_vars

\* The kubelet starts ended processes, a canceled part returns, a call ends (the
\* clients have timeouts), candidates retry, electors give up, and time passes.
Fairness ==
    /\ \A p \in Replicas :
        /\ WF_vars(Boot(p)) /\ WF_vars(Exit(p)) /\ WF_vars(EndCall(p))
        /\ WF_vars(Worker(p)) /\ WF_vars(Elector(p)) /\ WF_vars(Manager(p))
    /\ WF_vars(LeaseAges)
FairSpec == Spec /\ Fairness

-----------------------------------------------------------------------------
(* Properties *)

\* An elector that gives up releases the lease, if asked to, before its manager hears of
\* the loss: until then that replica's controllers still act.
ReleasedEarly(p) == elector[p] = "lost" /\ lease.holder # p

Leadership == INSTANCE SingleActor
    WITH actors <- {p \in Replicas \ late : Acting(p) /\ ~ReleasedEarly(p)}

\* docs/architecture.md: the manager "becomes the single active instance"; the core
\* manager "starts only after the main manager has established leadership, and stops
\* if leadership is lost".  So the controllers take up work in one replica at a time,
\* whatever fails, crashes or cannot renew.  A process that is held up past the time the
\* election gives it does not count, nor does one that released its lease early.
OneActorAtATime == Leadership!Spec

\* The comment of applyLeaderElection calls the release of the lease safe "because
\* runUntilManagerStops ends the process once the manager stops".  Two replicas that
\* were not held up have calls under way at once only when one of them released its
\* lease early, or has stopped its controllers and lost its lease or overran its grace
\* period.  An orderly handover never overlaps.
OverlapOnlyOnTheWayOut ==
    \A p, q \in Replicas \ late :
        p # q /\ Working(p) /\ Working(q) =>
            \E r \in {p, q} : \/ ReleasedEarly(r)
                              \/ /\ core[r] = "draining"
                                 /\ elector[r] = "lost" \/ mgr[r] = "overrun"

\* The exit code of runController reports a failure whenever there was one, and a
\* shutdown signal alone is none, in whichever order the parts return.
ExitTellsFailure ==
    \A p \in Replicas : mgr[p] = "off" /\ exit[p] # "none" => (exit[p] = "error" <=> broke[p])

\* runUntilManagerStops: when the manager stops, a worker fails, the lease is lost or a
\* signal comes, the process ends, so that it can start again as a candidate.
ProcessEnds ==
    \A p \in Replicas :
        canceled[p] \/ mgr[p] \in Returned \/ elector[p] = "lost" ~> mgr[p] = "off"

\* Some replica takes up the controllers' work again after every failure.
LeaderReturns == []<>(\E p \in Replicas : Acting(p))

=============================================================================
