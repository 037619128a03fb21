--------------------------- MODULE PlatformAccess ---------------------------
(***************************************************************************)
(* PlatformAccessController (internal/controller/platformaccess_controller *)
(* .go): aligns the state of one Zitadel user with the spec.state of its   *)
(* PlatformAccess resource (PA).  Only Suspended wants the user inactive.  *)
(*                                                                         *)
(* The controller reads the PA from its informer cache.  The watch brings  *)
(* every version of the PA to the cache, in order and late, and enqueues   *)
(* the PA for each; the status patch carries no resourceVersion, so it is  *)
(* applied to the PA as it is by then.  The work queue runs one reconcile  *)
(* of the PA at a time.                                                    *)
(***************************************************************************)
EXTENDS Naturals, Sequences

CONSTANTS
    States,      \* values of spec.state
    MaxChanges,  \* bound on changes made by operators and by the user
    MaxFaults    \* bound on failed calls and restarts

ASSUME StatesAssumption == "Suspended" \in States /\ "none" \notin States
ASSUME BoundsAssumption == MaxChanges \in Nat /\ MaxFaults \in Nat

VARIABLES
    zstate,  \* state of the user in Zitadel; "none" when it has no such user
    userCR,  \* the User resource exists
    pa,      \* the PA in the API server
    cache,   \* the PA in the informer cache
    events,  \* versions of the PA the watch has yet to bring
    queued,  \* the PA is in the work queue
    rec,     \* the reconcile in progress
    changes, \* changes so far
    faults,  \* failures so far
    astray   \* history: the user was moved, or lost while deactivated, and since
             \* then no sync has seen it in place and no condition says so

external == <<zstate, userCR, changes>>
vars == <<zstate, userCR, pa, cache, events, queued, rec, changes, faults, astray>>

-----------------------------------------------------------------------------
(* Data *)

ZitadelStates == {"none", "initial", "active", "inactive", "locked"}

\* ZitadelReadyCondition: absent, True with the state it stands for, or False
Conditions == [status : {"True"}, reason : States]
              \cup [status : {"False"}, reason : {"ZitadelUserNotFound", "SyncFailed",
                                                  "WaitingForUserState"}]
              \cup {[status |-> "absent", reason |-> "none"]}
NoCondition == [status |-> "absent", reason |-> "none"]
Ready(state) == [status |-> "True", reason |-> state]
NotReady(reason) == [status |-> "False", reason |-> reason]

\* spec "none": the PA does not exist
Versions == [spec : States \cup {"none"}, cond : Conditions]
NoPA == [spec |-> "none", cond |-> NoCondition]

\* obj is the copy the reconcile works on, outcome what ensureZitadelUserState
\* returned: ok, waiting, notFound (an error IsNotFound recognises) or failed
Outcomes == {"ok", "waiting", "notFound", "failed"}
Reconciles == [pc : {"idle", "getUser", "getZitadel", "reactivate", "deactivate", "patch"},
               obj : Versions, outcome : Outcomes]
NotReconciling == [pc |-> "idle", obj |-> NoPA, outcome |-> "ok"]

TypeOK ==
    /\ zstate \in ZitadelStates
    /\ userCR \in BOOLEAN
    /\ pa \in Versions
    /\ cache \in Versions
    /\ events \in Seq(Versions)
    /\ queued \in BOOLEAN
    /\ rec \in Reconciles
    /\ changes \in Nat
    /\ faults \in Nat
    /\ astray \in BOOLEAN

Init ==
    /\ zstate \in {"none", "initial", "active"}
    /\ userCR \in BOOLEAN
    /\ pa = NoPA
    /\ cache = NoPA
    /\ events = <<>>
    /\ queued = FALSE
    /\ rec = NotReconciling
    /\ changes = 0
    /\ faults = 0
    /\ astray = FALSE

Fault == faults < MaxFaults /\ faults' = faults + 1
NoFault == UNCHANGED faults
Change == changes < MaxChanges /\ changes' = changes + 1

WritePA(version) ==
    /\ pa' = version
    /\ events' = Append(events, version)

-----------------------------------------------------------------------------
(* Operators of milo, Zitadel and its user (outside this code) *)

\* An operator creates the PA, moves it to another state or deletes it.
ChangeSpec(state) ==
    /\ Change
    /\ state # pa.spec
    /\ WritePA(IF state = "none" THEN NoPA ELSE [pa EXCEPT !.spec = state])
    /\ UNCHANGED <<zstate, userCR, cache, queued, rec, faults, astray>>

\* The User resource is created or deleted by its own controllers.
ChangeUserCR ==
    /\ Change
    /\ userCR' = ~userCR
    /\ UNCHANGED <<zstate, pa, cache, events, queued, rec, faults, astray>>

\* The user registers or is repaired, finishes the set-up of its credentials, is
\* locked out or unlocked, or disappears, whatever its state.  A user that comes back
\* is not deactivated.  Nobody else deactivates or reactivates it.
ZitadelMoves == {<<"none", "initial">>, <<"none", "active">>, <<"initial", "active">>,
                 <<"active", "locked">>, <<"locked", "active">>}
                \cup (ZitadelStates \ {"none"}) \X {"none"}
ChangeZitadel(state) ==
    /\ Change
    /\ <<zstate, state>> \in ZitadelMoves
    /\ zstate' = state
    /\ astray' = (astray \/ zstate = "inactive")
    /\ UNCHANGED <<userCR, pa, cache, events, queued, rec, faults>>

\* The watch brings the next version to the cache and enqueues the PA.
Deliver ==
    /\ events # <<>>
    /\ cache' = Head(events)
    /\ events' = Tail(events)
    /\ queued' = TRUE
    /\ UNCHANGED <<external, pa, rec, faults, astray>>

-----------------------------------------------------------------------------
(* PlatformAccessController *)

ExpectActive(state) == state # "Suspended"
\* Any True condition counts as in sync
StateChanged_AnyReady(v) == v.cond.status # "True"
StateChanged(v) ==
    \/ v.cond.status # "True"
    \/ v.cond.reason # v.spec

\* Reconcile: Get the PA from the cache; nothing to do when it is gone
ReconcileGet ==
    /\ queued
    /\ rec.pc = "idle"
    /\ queued' = FALSE
    /\ rec' = IF cache.spec = "none" THEN NotReconciling
              ELSE [pc |-> "getUser", obj |-> cache, outcome |-> "ok"]
    /\ UNCHANGED <<external, pa, cache, events, faults, astray>>

EndRec(requeue) == rec' = NotReconciling /\ queued' = (queued \/ requeue)

\* Get the User resource; a missing one is an error, and errors are retried
GetUserCR ==
    /\ rec.pc = "getUser"
    /\ \/ /\ userCR
          /\ rec' = [rec EXCEPT !.pc = IF StateChanged(rec.obj) THEN "getZitadel" ELSE "patch"]
          /\ UNCHANGED queued
          /\ NoFault
       \/ ~userCR /\ EndRec(TRUE) /\ NoFault
       \/ EndRec(TRUE) /\ Fault
    /\ UNCHANGED <<external, pa, cache, events, astray>>

Outcome(o) ==
    /\ rec' = [rec EXCEPT !.pc = "patch", !.outcome = o]
    /\ astray' = (o # "ok" /\ (astray \/ zstate' # zstate))

\* A user in the wrong state is waited for as if it were aligned
WaitOutcome_Aligned == "ok"
WaitOutcome == "waiting"

\* ensureZitadelUserState: read the state, then call only what Zitadel accepts
EnsureZitadelUserState ==
    /\ rec.pc = "getZitadel"
    /\ UNCHANGED <<external, pa, cache, events, queued>>
    /\ LET active == ExpectActive(rec.obj.spec) IN
       \/ /\ zstate = "none"
          /\ Outcome("notFound")
          /\ NoFault
       \/ /\ zstate = (IF active THEN "active" ELSE "inactive")
          /\ Outcome("ok")
          /\ NoFault
       \/ /\ zstate = (IF active THEN "inactive" ELSE "active")
          /\ rec' = [rec EXCEPT !.pc = IF active THEN "reactivate" ELSE "deactivate"]
          /\ UNCHANGED astray
          /\ NoFault
       \/ /\ zstate \in {"initial", "locked"}
          /\ Outcome(WaitOutcome)
          /\ NoFault
       \/ Outcome("failed") /\ Fault

\* One Zitadel call.  Zitadel refuses it when the user has left the source state
\* meanwhile; a call that fails may have taken effect.
CallZitadel(pc, source, target) ==
    /\ rec.pc = pc
    /\ \/ /\ zstate = source
          /\ zstate' = target
          /\ Outcome("ok")
          /\ NoFault
       \/ /\ zstate # source
          /\ UNCHANGED zstate
          /\ Outcome(IF zstate = "none" THEN "notFound" ELSE "failed")
          /\ NoFault
       \/ /\ zstate' \in {zstate, IF zstate = source THEN target ELSE zstate}
          /\ Outcome("failed")
          /\ Fault
    /\ UNCHANGED <<userCR, changes, pa, cache, events, queued>>

ReactivateUser == CallZitadel("reactivate", "inactive", "active")
DeactivateUser == CallZitadel("deactivate", "active", "inactive")

\* updateStatusConditions
NewCondition ==
    CASE rec.outcome = "notFound" -> NotReady("ZitadelUserNotFound")
      [] rec.outcome = "failed"   -> NotReady("SyncFailed")
      [] rec.outcome = "waiting"  -> NotReady("WaitingForUserState")
      [] rec.outcome = "ok"       -> Ready(rec.obj.spec)

\* Only errors are tried again
RequeueAfter_ErrorsOnly == rec.outcome \in {"notFound", "failed"}
\* An error is retried with backoff; the two waits are retried after 30s.
RequeueAfter == rec.outcome # "ok"

\* A sync is done and its status patch is not
PatchDue == rec.pc = "patch" /\ rec.outcome = "ok" /\ StateChanged(rec.obj)

\* Patch the status when it differs from the copy that was read, and return.  A PA
\* that is gone by now, or a failed call, is an error.
PatchStatus ==
    /\ rec.pc = "patch"
    /\ \/ /\ NewCondition = rec.obj.cond
          /\ EndRec(RequeueAfter)
          /\ UNCHANGED <<pa, events, astray>>
          /\ NoFault
       \/ /\ NewCondition # rec.obj.cond
          /\ pa.spec # "none"
          /\ IF pa.cond = NewCondition THEN UNCHANGED <<pa, events>>
                                       ELSE WritePA([pa EXCEPT !.cond = NewCondition])
          /\ EndRec(RequeueAfter)
          /\ astray' = (astray /\ rec.outcome = "ok")
          /\ NoFault
       \/ /\ NewCondition # rec.obj.cond
          /\ \/ pa.spec = "none" /\ UNCHANGED astray /\ NoFault
             \/ astray' = (astray \/ PatchDue) /\ Fault
          /\ EndRec(TRUE)
          /\ UNCHANGED <<pa, events>>
    /\ UNCHANGED <<external, cache>>

PlatformAccessController ==
    \/ ReconcileGet
    \/ GetUserCR
    \/ EnsureZitadelUserState
    \/ ReactivateUser
    \/ DeactivateUser
    \/ PatchStatus

\* The controller process stops and another one takes over: its informer lists
\* the PA as it is and enqueues it.
Restart ==
    /\ Fault
    /\ rec' = NotReconciling
    /\ cache' = pa
    /\ events' = <<>>
    /\ queued' = (pa.spec # "none")
    /\ astray' = (astray \/ PatchDue)
    /\ UNCHANGED <<external, pa>>

Next ==
    \/ \E state \in States \cup {"none"} : ChangeSpec(state)
    \/ ChangeUserCR
    \/ \E state \in ZitadelStates : ChangeZitadel(state)
    \/ Deliver
    \/ PlatformAccessController
    \/ Restart

Spec == Init /\ [][Next]_vars

\* The manager keeps its watch and its workers going; the rest is not obliged.
Fairness == WF_vars(Deliver) /\ WF_vars(PlatformAccessController)
FairSpec == Spec /\ Fairness

-----------------------------------------------------------------------------
(* Properties *)

Aligned(state) == zstate = (IF ExpectActive(state) THEN "active" ELSE "inactive")
Syncable == pa.spec # "none" /\ userCR /\ zstate \in {"active", "inactive"}

\* The condition never rests on an outdated sync: when it claims the present spec.state
\* and the user is not in that state, either the controller is between the call that
\* moved the user and the patch that takes the claim back, or the user was led astray:
\* lost while it was deactivated and come back active, or moved by a reconcile that
\* then failed or stopped before its patch (Reconcile, stateChanged).
ReadyIsTrueOrPending ==
    Syncable /\ pa.cond = Ready(pa.spec) /\ ~Aligned(pa.spec) => PatchDue \/ astray

\* Runbook: a sync that had to wait or failed "keeps polling and self-resolves":
\* once the changes stop, the condition of a user that can be synced becomes True
\* for the present spec.state and stays so, whatever failed on the way.
StatusSettles == <>[](Syncable => pa.cond = Ready(pa.spec))

\* The user ends in the wanted state, however late the cache is and however often
\* spec.state and the user move while a reconcile is under way, whatever reads and calls
\* fail, unless it was led astray and no sync has brought it back (Reconcile,
\* ensureZitadelUserState, stateChanged).
AlignedUnlessAstray == <>[](Syncable => Aligned(pa.spec) \/ astray)

=============================================================================
