-------------------------- MODULE ServiceAccounts --------------------------
(***************************************************************************)
(* ServiceAccountController and ProjectController                          *)
(* (internal/controller/serviceaccount_controller.go, project_controller   *)
(* .go) for one project: each ServiceAccount (SA) of the project control   *)
(* plane owns a machine user of Zitadel, whose ID is the SA's UID, in the  *)
(* Zitadel organization of the project.                                    *)
(*                                                                         *)
(* The two controllers run in the same process, on different control       *)
(* planes, and do not know of each other.  Every remote call is a step.    *)
(* fresh is lost when the resource changes after a reconcile read it: its  *)
(* Update then conflicts.                                                  *)
(***************************************************************************)
EXTENDS Naturals

CONSTANTS
    SAs,         \* UIDs of the project's ServiceAccounts
    Held,        \* SAs on which other controllers put a finalizer of their own
    MaxChanges,  \* bound on changes and deletions made by operators
    MaxFaults    \* bound on failed calls and restarts

ASSUME HeldAssumption == Held \subseteq SAs
ASSUME BoundsAssumption == MaxChanges \in Nat /\ MaxFaults \in Nat

VARIABLES
    org,      \* the project's organization exists in Zitadel
    zuser,    \* the machine user of each SA in Zitadel
    sa,       \* the SA resources
    queue,    \* SAs in the work queue
    rec,      \* the reconcile in progress for each SA
    project,  \* the Project resource
    pqueued,  \* the Project is in its work queue
    prec,     \* the reconcile in progress for the Project
    changes, faults

zitadelVars == <<org, zuser>>
saVars      == <<sa, queue, rec>>
projectVars == <<project, pqueued, prec>>
vars == <<zitadelVars, saVars, projectVars, changes, faults>>

-----------------------------------------------------------------------------
(* Data *)

Phases == {"never", "live", "deleting", "gone"}
SpecStates == {"Active", "Inactive"}
Accounts == {"none", "active", "inactive"}

\* fin is this provider's finalizer, held any other; status "" is not set yet
ServiceAccount == [phase : Phases, fin : BOOLEAN, held : BOOLEAN,
                   spec : SpecStates, status : SpecStates \cup {""}]
NoServiceAccount == [phase |-> "never", fin |-> FALSE, held |-> FALSE,
                     spec |-> "Active", status |-> ""]
DeletedServiceAccount == [NoServiceAccount EXCEPT !.phase = "gone"]

\* spec, status and deleting are the copy of the SA the reconcile works on
Steps == {"idle", "addFinalizer", "finalizeGet", "finalizeDelete", "removeFinalizer",
          "getOrg", "createOrg", "getUser", "createUser", "setState", "updateStatus"}
Reconciles == [pc : Steps, fresh : BOOLEAN, spec : SpecStates,
               status : SpecStates \cup {""}, deleting : BOOLEAN]
NotReconciling == [pc |-> "idle", fresh |-> FALSE, spec |-> "Active", status |-> "",
                   deleting |-> FALSE]

Project == [phase : Phases, fin : BOOLEAN]
ProjectSteps == {"idle", "addFinalizer", "deleteOrg", "removeFinalizer"}
ProjectReconciles == [pc : ProjectSteps, fresh : BOOLEAN]
NotReconcilingProject == [pc |-> "idle", fresh |-> FALSE]

TypeOK ==
    /\ org \in BOOLEAN
    /\ zuser \in [SAs -> Accounts]
    /\ sa \in [SAs -> ServiceAccount]
    /\ queue \in SUBSET SAs
    /\ rec \in [SAs -> Reconciles]
    /\ project \in Project
    /\ pqueued \in BOOLEAN
    /\ prec \in ProjectReconciles
    /\ changes \in Nat
    /\ faults \in Nat

Init ==
    /\ org = FALSE
    /\ zuser = [s \in SAs |-> "none"]
    /\ sa = [s \in SAs |-> NoServiceAccount]
    /\ queue = {}
    /\ rec = [s \in SAs |-> NotReconciling]
    /\ project = [phase |-> "live", fin |-> FALSE]
    /\ pqueued = TRUE
    /\ prec = NotReconcilingProject
    /\ changes = 0
    /\ faults = 0

Fault == faults < MaxFaults /\ faults' = faults + 1
NoFault == UNCHANGED faults
Change == changes < MaxChanges /\ changes' = changes + 1

\* A write by anyone but the SA's reconcile
WriteSA(s, new) ==
    /\ sa' = [sa EXCEPT ![s] = new]
    /\ queue' = queue \cup {s}
    /\ rec' = [rec EXCEPT ![s].fresh = FALSE]

WriteProject(new) ==
    /\ project' = new
    /\ pqueued' = TRUE
    /\ prec' = [prec EXCEPT !.fresh = FALSE]

-----------------------------------------------------------------------------
(* Operators of the project and other controllers (outside this code) *)

\* An SA that is created Inactive is one that is changed before it is read.
CreateSA(s) ==
    /\ sa[s].phase = "never"
    /\ project.phase = "live"
    /\ WriteSA(s, [NoServiceAccount EXCEPT !.phase = "live", !.held = s \in Held])
    /\ UNCHANGED <<zitadelVars, projectVars, changes, faults>>

\* spec.state flips, or something the provider does not look at changes
ChangeSA(s, state) ==
    /\ sa[s].phase = "live"
    /\ Change
    /\ WriteSA(s, [sa[s] EXCEPT !.spec = state])
    /\ UNCHANGED <<zitadelVars, projectVars, faults>>

DeleteSA(s) ==
    /\ sa[s].phase = "live"
    /\ Change
    /\ WriteSA(s, IF sa[s].fin \/ sa[s].held THEN [sa[s] EXCEPT !.phase = "deleting"]
                                              ELSE DeletedServiceAccount)
    /\ UNCHANGED <<zitadelVars, projectVars, faults>>

\* The other finalizer of an SA that is being deleted is removed.
ReleaseSA(s) ==
    /\ sa[s].phase = "deleting"
    /\ sa[s].held
    /\ WriteSA(s, IF sa[s].fin THEN [sa[s] EXCEPT !.held = FALSE] ELSE DeletedServiceAccount)
    /\ UNCHANGED <<zitadelVars, projectVars, changes, faults>>

DeleteProject ==
    /\ project.phase = "live"
    /\ Change
    /\ WriteProject([project EXCEPT !.phase = IF project.fin THEN "deleting" ELSE "gone"])
    /\ UNCHANGED <<zitadelVars, saVars, faults>>

Environment(s) ==
    \/ CreateSA(s)
    \/ \E state \in SpecStates : ChangeSA(s, state)
    \/ DeleteSA(s)
    \/ ReleaseSA(s)

-----------------------------------------------------------------------------
(* ServiceAccountController *)

Goto(s, pc) == rec' = [rec EXCEPT ![s].pc = pc] /\ UNCHANGED queue
EndRec(s) == rec' = [rec EXCEPT ![s] = NotReconciling]
\* An error, or the watch event of the reconcile's own write
Requeue(s) == EndRec(s) /\ queue' = queue \cup {s}
\* The error is swallowed
Fails_Forgets(s) == EndRec(s) /\ UNCHANGED queue /\ Fault
\* A failed call: an error, which the work queue retries
Fails(s) == Requeue(s) /\ Fault

\* The finalizer is never registered
FirstStep_NoFinalizer(a) ==
    IF a.phase = "deleting" /\ a.fin THEN "finalizeGet" ELSE "getOrg"
\* What Finalizers.Finalize does with the SA that was read
FirstStep(a) ==
    CASE a.phase = "live" /\ ~a.fin    -> "addFinalizer"
      [] a.phase = "deleting" /\ a.fin -> "finalizeGet"
      [] OTHER                         -> "getOrg"

\* Reconcile: GetCluster, which fails once the project is gone, and Get the SA
ReconcileGet(s) ==
    /\ s \in queue
    /\ rec[s].pc = "idle"
    /\ \/ project.phase = "gone" /\ UNCHANGED <<queue, rec>>
       \/ /\ project.phase # "gone"
          /\ queue' = queue \ {s}
          /\ rec' = [rec EXCEPT ![s] =
                IF sa[s].phase \in {"never", "gone"} THEN NotReconciling
                ELSE [pc |-> FirstStep(sa[s]), fresh |-> TRUE, spec |-> sa[s].spec,
                      status |-> sa[s].status, deleting |-> sa[s].phase = "deleting"]]
    /\ UNCHANGED <<zitadelVars, sa, projectVars, changes, faults>>

\* Client.Update with the finalizer added or removed
AddFinalizer(s) ==
    /\ rec[s].pc = "addFinalizer"
    /\ \/ /\ rec[s].fresh
          /\ sa' = [sa EXCEPT ![s].fin = TRUE]
          /\ Requeue(s)
          /\ NoFault
       \/ ~rec[s].fresh /\ Requeue(s) /\ NoFault /\ UNCHANGED sa
       \/ Fails(s) /\ UNCHANGED sa
    /\ UNCHANGED <<zitadelVars, projectVars, changes>>

RemoveFinalizer(s) ==
    /\ rec[s].pc = "removeFinalizer"
    /\ \/ /\ rec[s].fresh
          /\ sa' = [sa EXCEPT ![s] = IF @.held THEN [@ EXCEPT !.fin = FALSE] ELSE DeletedServiceAccount]
          /\ Requeue(s)
          /\ NoFault
       \/ ~rec[s].fresh /\ Requeue(s) /\ NoFault /\ UNCHANGED sa
       \/ Fails(s) /\ UNCHANGED sa
    /\ UNCHANGED <<zitadelVars, projectVars, changes>>

\* serviceAccountFinalizer.Finalize: GetUserByID, then DeleteUser, for which
\* NotFound is success.  A call that fails may have taken effect.
FinalizeGet(s) ==
    /\ rec[s].pc = "finalizeGet"
    /\ \/ Goto(s, IF zuser[s] = "none" THEN "removeFinalizer" ELSE "finalizeDelete") /\ NoFault
       \/ Fails(s)
    /\ UNCHANGED <<zitadelVars, sa, projectVars, changes>>

FinalizeDelete(s) ==
    /\ rec[s].pc = "finalizeDelete"
    /\ \/ zuser' = [zuser EXCEPT ![s] = "none"] /\ Goto(s, "removeFinalizer") /\ NoFault
       \/ zuser' \in {zuser, [zuser EXCEPT ![s] = "none"]} /\ Fails(s)
    /\ UNCHANGED <<org, sa, projectVars, changes>>

\* GetOrganization, and CreateOrganizationWithID when there is none.  Creating one
\* that another reconcile has created meanwhile is an error.
GetOrg(s) ==
    /\ rec[s].pc = "getOrg"
    /\ \/ Goto(s, IF org THEN "getUser" ELSE "createOrg") /\ NoFault
       \/ Fails(s)
    /\ UNCHANGED <<zitadelVars, sa, projectVars, changes>>

CreateOrg(s) ==
    /\ rec[s].pc = "createOrg"
    /\ \/ ~org /\ org' = TRUE /\ Goto(s, "getUser") /\ NoFault
       \/ org /\ Requeue(s) /\ NoFault /\ UNCHANGED org
       \/ org' \in {org, TRUE} /\ Fails(s)
    /\ UNCHANGED <<zuser, sa, projectVars, changes>>

\* After the account: align its state, stop if the SA is being deleted, else
\* update the status
AfterState(r) == IF r.deleting THEN "idle" ELSE "updateStatus"
AfterUser(r) == IF r.status # r.spec THEN "setState" ELSE AfterState(r)
GoOn(s, pc) ==
    /\ rec' = [rec EXCEPT ![s] = IF pc = "idle" THEN NotReconciling ELSE [@ EXCEPT !.pc = pc]]
    /\ UNCHANGED queue

\* GetUserByID, and AddMachineUserInOrganization when there is none
GetUser(s) ==
    /\ rec[s].pc = "getUser"
    /\ \/ zuser[s] = "none" /\ Goto(s, "createUser") /\ NoFault
       \/ zuser[s] # "none" /\ GoOn(s, AfterUser(rec[s])) /\ NoFault
       \/ Fails(s)
    /\ UNCHANGED <<zitadelVars, sa, projectVars, changes>>

CreateUser(s) ==
    /\ rec[s].pc = "createUser"
    /\ \/ org /\ zuser' = [zuser EXCEPT ![s] = "active"] /\ GoOn(s, AfterUser(rec[s])) /\ NoFault
       \/ ~org /\ Requeue(s) /\ NoFault /\ UNCHANGED zuser
       \/ zuser' \in {zuser, IF org THEN [zuser EXCEPT ![s] = "active"] ELSE zuser} /\ Fails(s)
    /\ UNCHANGED <<org, sa, projectVars, changes>>

\* updateServiceAccountState: a new account is active already; otherwise
\* ReactivateUser or DeactivateUser.  Zitadel refuses a user that is in the
\* wanted state already; the client takes a missing one for success.
\* The account's state is not looked at when it is to be active
Skips_Active(r) == r.spec = "Active"
Skips(r) == r.spec = "Active" /\ r.status = ""
Source(state) == IF state = "Active" THEN "inactive" ELSE "active"
Target(state) == IF state = "Active" THEN "active" ELSE "inactive"
SetState(s) ==
    /\ rec[s].pc = "setState"
    /\ LET moved == [zuser EXCEPT ![s] = Target(rec[s].spec)]
           movable == zuser[s] = Source(rec[s].spec) IN
       \/ /\ Skips(rec[s]) \/ zuser[s] = "none"
          /\ GoOn(s, AfterState(rec[s]))
          /\ UNCHANGED zuser
          /\ NoFault
       \/ /\ ~Skips(rec[s]) /\ movable
          /\ zuser' = moved
          /\ GoOn(s, AfterState(rec[s]))
          /\ NoFault
       \/ /\ ~Skips(rec[s]) /\ zuser[s] = Target(rec[s].spec)
          /\ UNCHANGED zuser
          /\ Requeue(s)
          /\ NoFault
       \/ /\ ~Skips(rec[s])
          /\ zuser' \in {zuser, IF movable THEN moved ELSE zuser}
          /\ Fails(s)
    /\ UNCHANGED <<org, sa, projectVars, changes>>

\* setServiceAccountReadyStatus and Status().Update
UpdateStatus(s) ==
    /\ rec[s].pc = "updateStatus"
    /\ \/ /\ rec[s].fresh
          /\ sa' = [sa EXCEPT ![s].status = rec[s].spec]
          /\ IF sa[s].status = rec[s].spec THEN EndRec(s) /\ UNCHANGED queue ELSE Requeue(s)
          /\ NoFault
       \/ ~rec[s].fresh /\ Requeue(s) /\ NoFault /\ UNCHANGED sa
       \/ Fails(s) /\ UNCHANGED sa
    /\ UNCHANGED <<zitadelVars, projectVars, changes>>

ServiceAccountController(s) ==
    \/ ReconcileGet(s)
    \/ AddFinalizer(s)
    \/ FinalizeGet(s)
    \/ FinalizeDelete(s)
    \/ RemoveFinalizer(s)
    \/ GetOrg(s)
    \/ CreateOrg(s)
    \/ GetUser(s)
    \/ CreateUser(s)
    \/ SetState(s)
    \/ UpdateStatus(s)

-----------------------------------------------------------------------------
(* ProjectController *)

EndProject == prec' = NotReconcilingProject
RequeueProject == EndProject /\ pqueued' = TRUE

ProjectGet ==
    /\ pqueued
    /\ prec.pc = "idle"
    /\ pqueued' = FALSE
    /\ prec' = CASE project.phase = "live" /\ ~project.fin ->
                      [pc |-> "addFinalizer", fresh |-> TRUE]
                 [] project.phase = "deleting" /\ project.fin ->
                      [pc |-> "deleteOrg", fresh |-> TRUE]
                 [] OTHER -> NotReconcilingProject
    /\ UNCHANGED <<zitadelVars, saVars, project, changes, faults>>

\* projectFinalizer.Finalize: DeleteOrganization, for which NotFound is success;
\* Zitadel removes the users of the organization with it.
DeleteOrg ==
    /\ prec.pc = "deleteOrg"
    /\ \/ /\ org' = FALSE
          /\ zuser' = [s \in SAs |-> "none"]
          /\ prec' = [prec EXCEPT !.pc = "removeFinalizer"]
          /\ UNCHANGED pqueued
          /\ NoFault
       \/ /\ \/ UNCHANGED zitadelVars
             \/ org' = FALSE /\ zuser' = [s \in SAs |-> "none"]
          /\ RequeueProject
          /\ Fault
    /\ UNCHANGED <<saVars, project, changes>>

\* Client.Update of the finalizers.  NotFound ends the reconcile, a conflict is
\* tried again after a second, any other error with backoff.
UpdateProject(pc, new) ==
    /\ prec.pc = pc
    /\ \/ prec.fresh /\ project' = new /\ RequeueProject /\ NoFault
       \/ /\ ~prec.fresh /\ UNCHANGED project
          /\ EndProject
          /\ pqueued' = (pqueued \/ project.phase # "gone")
          /\ NoFault
       \/ UNCHANGED project /\ RequeueProject /\ Fault
    /\ UNCHANGED <<zitadelVars, saVars, changes>>

AddProjectFinalizer == UpdateProject("addFinalizer", [project EXCEPT !.fin = TRUE])
RemoveProjectFinalizer == UpdateProject("removeFinalizer", [phase |-> "gone", fin |-> FALSE])

ProjectController == ProjectGet \/ DeleteOrg \/ AddProjectFinalizer \/ RemoveProjectFinalizer

-----------------------------------------------------------------------------
(* The controller process stops and another one takes over. *)
Restart ==
    /\ Fault
    /\ rec' = [s \in SAs |-> NotReconciling]
    /\ queue' = {s \in SAs : sa[s].phase \in {"live", "deleting"}}
    /\ prec' = NotReconcilingProject
    /\ pqueued' = (project.phase \in {"live", "deleting"})
    /\ UNCHANGED <<zitadelVars, sa, project, changes>>

Next ==
    \/ \E s \in SAs : Environment(s) \/ ServiceAccountController(s)
    \/ DeleteProject
    \/ ProjectController
    \/ Restart

Spec == Init /\ [][Next]_vars

\* The manager keeps its workers going; operators are not obliged to anything.
Fairness == (\A s \in SAs : WF_vars(ServiceAccountController(s))) /\ WF_vars(ProjectController)
FairSpec == Spec /\ Fairness

-----------------------------------------------------------------------------
(* Properties *)

\* No machine user is leaked: one exists in Zitadel only while its SA carries the
\* finalizer that will delete it, whatever failed or conflicted (Reconcile adds the
\* finalizer first and Finalize removes the user before the finalizer).  The one way out
\* is an SA that another finalizer keeps: Reconcile looks at the deletion timestamp only
\* after it has created the machine user again.
AccountHeldByFinalizer ==
    \A s \in SAs : zuser[s] # "none" =>
        sa[s].fin \/ (s \in Held /\ sa[s].phase \in {"deleting", "gone"})

\* architecture.md: "deletes machine users on delete".  An SA that is being deleted
\* goes away, whatever fails on the way, and leaves no machine user behind.
DeletionCompletes ==
    \A s \in SAs \ Held : sa[s].phase = "deleting" ~>
        (sa[s].phase = "gone" /\ zuser[s] = "none") \/ project.phase = "gone"

\* architecture.md: "Creates machine users in Zitadel on create".
AccountProvisioned ==
    \A s \in SAs : sa[s].phase = "live" ~>
        zuser[s] # "none" \/ sa[s].phase # "live" \/ project.phase # "live"

\* updateServiceAccountState is followed by the status update that records it: while no
\* call fails and nobody writes to an SA that is being reconciled, spec.state reaches both
\* Zitadel and the status, in whichever order the two accounts are served.  (Otherwise the
\* retry repeats a call that Zitadel refuses, and the status stays behind for good.)
Undisturbed == faults = 0 /\ \A s \in SAs : rec[s].pc # "idle" => rec[s].fresh
StateFollowsSpec ==
    []Undisturbed => \A s \in SAs :
        sa[s].phase = "live" ~>
            \/ sa[s].status = sa[s].spec /\ zuser[s] = Target(sa[s].spec)
            \/ sa[s].phase # "live"
            \/ project.phase # "live"

=============================================================================
