------------------------ MODULE PlatformAccessProofs ------------------------
(***************************************************************************)
(* Proofs about PlatformAccess, for any set of states with Suspended in it *)
(* and any number of changes and failures.                                 *)
(***************************************************************************)
EXTENDS PlatformAccess, TLAPS

-----------------------------------------------------------------------------
(* The inductive invariant *)

\* The user is on the side of spec.state.  The user itself cannot leave it but by being
\* lost while it is deactivated: a locked, an unfinished or a missing user is on the active
\* side, and nobody else deactivates or reactivates.
Settled(state) == IF ExpectActive(state) THEN zstate # "inactive" ELSE zstate = "inactive"

\* A PA that is gone has no condition left.
GoneIsBlank == pa.spec = "none" => pa.cond = NoCondition

\* A reconcile that goes on works on a PA.
CopyExists == rec.pc # "idle" => rec.obj.spec # "none"

\* The two Zitadel calls are made only for a copy whose state changed, and in its direction.
CallsAreDue ==
    /\ rec.pc \in {"getZitadel", "reactivate", "deactivate"} => StateChanged(rec.obj)
    /\ rec.pc = "reactivate" => ExpectActive(rec.obj.spec)
    /\ rec.pc = "deactivate" => ~ExpectActive(rec.obj.spec)

\* What the condition claims is so, or else what the patch under way will claim, as long
\* as the user is not astray.
ClaimsSettled ==
    /\ pa.cond.status = "True" /\ ~PatchDue => Settled(pa.cond.reason)
    /\ PatchDue => Settled(rec.obj.spec)

SyncInv == TypeOK /\ GoneIsBlank /\ CopyExists /\ CallsAreDue /\ (~astray => ClaimsSettled)

-----------------------------------------------------------------------------
(* Types *)

LEMMA ConditionFacts ==
  /\ NoCondition \in Conditions /\ NoCondition.status = "absent"
  /\ \A x \in States : Ready(x) \in Conditions /\ Ready(x).status = "True" /\ Ready(x).reason = x
  /\ \A x \in {"ZitadelUserNotFound", "SyncFailed", "WaitingForUserState"} :
        NotReady(x) \in Conditions /\ NotReady(x).status = "False"
  BY DEF NoCondition, Ready, NotReady, Conditions

LEMMA RecordFacts ==
  /\ NoPA \in Versions /\ NoPA.spec = "none" /\ NoPA.cond = NoCondition
  /\ NotReconciling \in Reconciles /\ NotReconciling.pc = "idle"
  <1>1. NoPA \in Versions /\ NoPA.spec = "none" /\ NoPA.cond = NoCondition
    BY ConditionFacts DEF NoPA, Versions
  <1>2. NotReconciling \in Reconciles /\ NotReconciling.pc = "idle"
    BY <1>1 DEF NotReconciling, Reconciles, Outcomes
  <1> QED BY <1>1, <1>2

\* updateStatusConditions: ok alone makes the condition True
LEMMA NewConditionFacts ==
  ASSUME TypeOK, CopyExists, rec.pc = "patch"
  PROVE  /\ NewCondition \in Conditions
         /\ rec.outcome = "ok" => NewCondition = Ready(rec.obj.spec) /\ rec.obj.spec \in States
         /\ rec.outcome # "ok" => NewCondition.status = "False"
  <1>1. rec.obj.spec \in States /\ rec.outcome \in Outcomes
    BY DEF TypeOK, CopyExists, Reconciles, Versions
  <1>2. CASE rec.outcome = "ok"
    BY <1>1, <1>2, ConditionFacts DEF NewCondition
  <1>3. CASE rec.outcome = "notFound"
    BY <1>3, ConditionFacts DEF NewCondition
  <1>4. CASE rec.outcome = "failed"
    BY <1>4, ConditionFacts DEF NewCondition
  <1>5. CASE rec.outcome = "waiting"
    BY <1>5, ConditionFacts DEF NewCondition
  <1> QED BY <1>1, <1>2, <1>3, <1>4, <1>5 DEF Outcomes

LEMMA WriteType ==
  ASSUME TypeOK, NEW v \in Versions, WritePA(v)
  PROVE  pa' \in Versions /\ pa' = v /\ events' \in Seq(Versions)
  BY DEF TypeOK, WritePA

LEMMA OutcomeFacts ==
  ASSUME TypeOK, NEW o \in Outcomes, Outcome(o)
  PROVE  /\ rec' \in Reconciles /\ rec'.pc = "patch" /\ rec'.obj = rec.obj /\ rec'.outcome = o
         /\ astray' \in BOOLEAN /\ (astray' <=> o # "ok" /\ (astray \/ zstate' # zstate))
  <1>1. rec' \in Reconciles /\ rec'.pc = "patch" /\ rec'.obj = rec.obj /\ rec'.outcome = o
    BY DEF TypeOK, Outcome, Reconciles
  <1>2. astray' \in BOOLEAN /\ (astray' <=> o # "ok" /\ (astray \/ zstate' # zstate))
    BY DEF TypeOK, Outcome
  <1> QED BY <1>1, <1>2

LEMMA GotoFacts ==
  ASSUME TypeOK, NEW pc \in {"getZitadel", "reactivate", "deactivate", "patch"},
         rec' = [rec EXCEPT !.pc = pc]
  PROVE  rec' \in Reconciles /\ rec'.pc = pc /\ rec'.obj = rec.obj /\ rec'.outcome = rec.outcome
  BY DEF TypeOK, Reconciles

LEMMA EndRecFacts ==
  ASSUME TypeOK, NEW b \in BOOLEAN, EndRec(b)
  PROVE  rec' \in Reconciles /\ rec'.pc = "idle" /\ queued' \in BOOLEAN
  BY RecordFacts DEF TypeOK, EndRec

LEMMA FaultFacts ==
  ASSUME TypeOK, Fault \/ NoFault
  PROVE  faults' \in Nat
  BY DEF TypeOK, Fault, NoFault

-----------------------------------------------------------------------------
(* Every step preserves it *)

\* A reconcile that ends, or has not called Zitadel yet, leaves the claims as they are
LEMMA ClaimsKept ==
  ASSUME ClaimsSettled, zstate' = zstate, pa' = pa, ~PatchDue, ~PatchDue'
  PROVE  ClaimsSettled'
  BY DEF ClaimsSettled, Settled

LEMMA ChangeSpecStep ==
  ASSUME SyncInv, NEW state \in States \cup {"none"}, ChangeSpec(state)
  PROVE  SyncInv'
  <1>1. TypeOK /\ changes' \in Nat
    BY DEF SyncInv, TypeOK, ChangeSpec, Change
  <1> DEFINE v == IF state = "none" THEN NoPA ELSE [pa EXCEPT !.spec = state]
  <1>2. /\ v \in Versions /\ v.cond \in {pa.cond, NoCondition}
        /\ v.spec = "none" => v.cond = NoCondition
    BY <1>1, RecordFacts DEF TypeOK, Versions
  <1>3. WritePA(v)
    BY DEF ChangeSpec
  <1> HIDE DEF v
  <1>4. pa' = v /\ pa' \in Versions /\ events' \in Seq(Versions)
    BY <1>1, <1>2, <1>3, WriteType
  <1>5. UNCHANGED <<zstate, userCR, cache, queued, rec, faults, astray>>
    BY DEF ChangeSpec
  <1>6. TypeOK'
    BY <1>1, <1>4, <1>5 DEF TypeOK
  <1>7. ~astray' => ClaimsSettled'
    BY <1>2, <1>4, <1>5, ConditionFacts
       DEF SyncInv, ClaimsSettled, Settled, PatchDue, StateChanged
  <1> QED BY <1>2, <1>4, <1>5, <1>6, <1>7
          DEF SyncInv, GoneIsBlank, CopyExists, CallsAreDue, StateChanged

\* The environment moves the user, but not across, unless it leads it astray.
LEMMA ChangeZitadelStep ==
  ASSUME SyncInv, NEW state \in ZitadelStates, ChangeZitadel(state)
  PROVE  SyncInv'
  <1>1. UNCHANGED <<userCR, pa, cache, events, queued, rec, faults>> /\ zstate' = state
    BY DEF ChangeZitadel
  <1>2. changes' \in Nat /\ astray' \in BOOLEAN
    BY DEF SyncInv, TypeOK, ChangeZitadel, Change
  <1>3. TypeOK'
    BY <1>1, <1>2 DEF SyncInv, TypeOK
  <1>4. zstate' # "inactive"
    BY DEF ChangeZitadel, ZitadelMoves
  <1>5. ~astray' => ~astray /\ zstate # "inactive"
    BY DEF ChangeZitadel
  <1> QED BY <1>1, <1>3, <1>4, <1>5 DEF SyncInv, GoneIsBlank, CopyExists, CallsAreDue,
                                  ClaimsSettled, Settled, PatchDue, StateChanged

LEMMA ReconcileGetStep ==
  ASSUME SyncInv, ReconcileGet
  PROVE  SyncInv'
  <1>1. /\ UNCHANGED <<zstate, userCR, changes, pa, cache, events, faults, astray>>
        /\ queued' = FALSE /\ rec.pc = "idle"
    BY DEF ReconcileGet, external
  <1>2. cache \in Versions
    BY DEF SyncInv, TypeOK
  <1>3. rec' \in Reconciles /\ rec'.pc \in {"idle", "getUser"} /\ (rec'.pc = "getUser" => rec'.obj.spec # "none")
    BY <1>2, RecordFacts DEF ReconcileGet, Reconciles, Outcomes
  <1>4. ~PatchDue /\ ~PatchDue'
    BY <1>1, <1>3 DEF PatchDue
  <1>5. ~astray' => ClaimsSettled'
    BY <1>1, <1>4, ClaimsKept DEF SyncInv
  <1> QED BY <1>1, <1>3, <1>5 DEF SyncInv, TypeOK, GoneIsBlank, CopyExists, CallsAreDue

LEMMA GetUserCRStep ==
  ASSUME SyncInv, GetUserCR
  PROVE  SyncInv'
  <1>1. TypeOK /\ rec.pc = "getUser" /\ UNCHANGED <<zstate, userCR, changes, pa, cache, events, astray>>
    BY DEF SyncInv, GetUserCR, external
  <1>2. faults' \in Nat
    BY <1>1, FaultFacts DEF GetUserCR
  <1>3. CASE EndRec(TRUE)
    <2>1. rec' \in Reconciles /\ rec'.pc = "idle" /\ queued' \in BOOLEAN
      BY <1>1, <1>3, EndRecFacts
    <2>2. ~astray' => ClaimsSettled'
      BY <1>1, <1>2, <2>1, ClaimsKept DEF SyncInv, PatchDue
    <2> QED BY <1>1, <1>2, <2>1, <2>2 DEF SyncInv, TypeOK, GoneIsBlank, CopyExists, CallsAreDue
  <1>4. CASE UNCHANGED queued /\ rec' = [rec EXCEPT !.pc = IF StateChanged(rec.obj) THEN "getZitadel" ELSE "patch"]
    <2>1. /\ rec' \in Reconciles /\ rec'.obj = rec.obj
          /\ rec'.pc = IF StateChanged(rec.obj) THEN "getZitadel" ELSE "patch"
      BY <1>1, <1>4, GotoFacts
    <2>2. ~PatchDue /\ ~PatchDue'
      BY <1>1, <2>1 DEF PatchDue
    <2>3. ~astray' => ClaimsSettled'
      BY <1>1, <1>2, <2>2, ClaimsKept DEF SyncInv
    <2>4. CopyExists' /\ CallsAreDue'
      BY <1>1, <2>1 DEF SyncInv, CopyExists, CallsAreDue, StateChanged
    <2> QED BY <1>1, <1>2, <1>4, <2>1, <2>3, <2>4 DEF SyncInv, TypeOK, GoneIsBlank
  <1> QED BY <1>3, <1>4 DEF GetUserCR

\* What is known after an outcome: the user is in place when it is ok.
LEMMA OutcomeStep ==
  ASSUME SyncInv, rec.pc \in {"getZitadel", "reactivate", "deactivate"},
         NEW o \in Outcomes, Outcome(o), Fault \/ NoFault,
         UNCHANGED <<userCR, changes, pa, cache, events, queued>>, zstate' \in ZitadelStates,
         o = "ok" => Settled(rec.obj.spec)'
  PROVE  SyncInv'
  <1>1. TypeOK
    BY DEF SyncInv
  <1>2. /\ rec' \in Reconciles /\ rec'.pc = "patch" /\ rec'.obj = rec.obj /\ rec'.outcome = o
        /\ astray' \in BOOLEAN /\ (astray' <=> o # "ok" /\ (astray \/ zstate' # zstate))
    BY <1>1, OutcomeFacts
  <1>3. faults' \in Nat
    BY <1>1, FaultFacts
  <1>4. ~PatchDue /\ StateChanged(rec.obj)
    BY DEF SyncInv, CallsAreDue, PatchDue
  <1>5. PatchDue' <=> o = "ok"
    BY <1>2, <1>4 DEF PatchDue, StateChanged
  <1>6. ~astray' => ClaimsSettled'
    <2>1. CASE o = "ok"
      BY <1>5, <2>1 DEF ClaimsSettled
    <2>2. CASE o # "ok"
      BY <1>2, <1>4, <1>5, <2>2, ClaimsKept DEF SyncInv
    <2> QED BY <2>1, <2>2
  <1>7. TypeOK'
    BY <1>1, <1>2, <1>3 DEF TypeOK
  <1> QED BY <1>2, <1>6, <1>7 DEF SyncInv, GoneIsBlank, CopyExists, CallsAreDue

LEMMA EnsureZitadelUserStateStep ==
  ASSUME SyncInv, EnsureZitadelUserState
  PROVE  SyncInv'
  <1>1. /\ TypeOK /\ rec.pc = "getZitadel" /\ zstate' = zstate /\ zstate' \in ZitadelStates
        /\ UNCHANGED <<userCR, changes, pa, cache, events, queued>>
    BY DEF SyncInv, EnsureZitadelUserState, external, TypeOK
  <1>2. CASE Outcome("notFound") /\ NoFault
    BY <1>1, <1>2, OutcomeStep DEF Outcomes
  <1>3. CASE Outcome(WaitOutcome) /\ NoFault
    BY <1>1, <1>3, OutcomeStep DEF Outcomes, WaitOutcome
  <1>4. CASE Outcome("failed") /\ Fault
    BY <1>1, <1>4, OutcomeStep DEF Outcomes
  <1>5. CASE zstate = (IF ExpectActive(rec.obj.spec) THEN "active" ELSE "inactive") /\ Outcome("ok") /\ NoFault
    <2>1. Settled(rec.obj.spec)'
      <3>1. rec'.obj = rec.obj
        BY <1>1, <1>5, OutcomeFacts DEF Outcomes
      <3> QED BY <1>1, <1>5, <3>1 DEF Settled, ExpectActive
    <2> QED BY <1>1, <1>5, <2>1, OutcomeStep DEF Outcomes
  <1>6. CASE /\ rec' = [rec EXCEPT !.pc = IF ExpectActive(rec.obj.spec) THEN "reactivate" ELSE "deactivate"]
             /\ UNCHANGED astray /\ NoFault
    <2>1. /\ rec' \in Reconciles /\ rec'.obj = rec.obj
          /\ rec'.pc = IF ExpectActive(rec.obj.spec) THEN "reactivate" ELSE "deactivate"
      BY <1>1, <1>6, GotoFacts
    <2>2. ~PatchDue /\ ~PatchDue' /\ faults' = faults /\ astray' = astray
      BY <1>1, <1>6, <2>1 DEF PatchDue, NoFault
    <2>3. ~astray' => ClaimsSettled'
      BY <1>1, <2>2, ClaimsKept DEF SyncInv
    <2>4. CopyExists' /\ CallsAreDue'
      BY <1>1, <2>1 DEF SyncInv, CopyExists, CallsAreDue, StateChanged, ExpectActive
    <2> QED BY <1>1, <2>1, <2>2, <2>3, <2>4 DEF SyncInv, TypeOK, GoneIsBlank
  <1> QED BY <1>2, <1>3, <1>4, <1>5, <1>6 DEF EnsureZitadelUserState

LEMMA CallZitadelStep ==
  ASSUME SyncInv, NEW pc, NEW source, NEW target,
         <<pc, source, target>> \in {<<"reactivate", "inactive", "active">>,
                                      <<"deactivate", "active", "inactive">>},
         CallZitadel(pc, source, target)
  PROVE  SyncInv'
  <1>1. /\ rec.pc = pc /\ rec.pc \in {"reactivate", "deactivate"} /\ target \in {"active", "inactive"}
        /\ UNCHANGED <<userCR, changes, pa, cache, events, queued>> /\ zstate \in ZitadelStates /\ TypeOK
    BY DEF SyncInv, CallZitadel, TypeOK
  <1>2. target \in ZitadelStates
    BY <1>1 DEF ZitadelStates
  <1>3. CASE zstate' = target /\ Outcome("ok") /\ NoFault
    <2>1. rec'.obj = rec.obj
      BY <1>1, <1>3, OutcomeFacts DEF Outcomes
    <2>2. target = IF ExpectActive(rec.obj.spec) THEN "active" ELSE "inactive"
      BY <1>1 DEF SyncInv, CallsAreDue
    <2>3. Settled(rec.obj.spec)'
      BY <1>3, <2>1, <2>2 DEF Settled, ExpectActive
    <2> QED BY <1>1, <1>2, <1>3, <2>3, OutcomeStep DEF Outcomes
  <1>4. CASE zstate' = zstate /\ Outcome(IF zstate = "none" THEN "notFound" ELSE "failed") /\ NoFault
    <2> DEFINE o == IF zstate = "none" THEN "notFound" ELSE "failed"
    <2>1. o \in Outcomes /\ o # "ok" /\ Outcome(o)
      BY <1>4 DEF Outcomes
    <2> HIDE DEF o
    <2> QED BY <1>1, <1>4, <2>1, OutcomeStep
  <1>5. CASE zstate' \in {zstate, IF zstate = source THEN target ELSE zstate} /\ Outcome("failed") /\ Fault
    <2>1. zstate' \in ZitadelStates
      BY <1>1, <1>2, <1>5
    <2> QED BY <1>1, <1>5, <2>1, OutcomeStep DEF Outcomes
  <1> QED BY <1>3, <1>4, <1>5 DEF CallZitadel

LEMMA PatchStatusStep ==
  ASSUME SyncInv, PatchStatus
  PROVE  SyncInv'
  <1>1. /\ TypeOK /\ CopyExists /\ rec.pc = "patch" /\ UNCHANGED <<zstate, userCR, changes, cache>>
    BY DEF SyncInv, PatchStatus, external
  <1>2. faults' \in Nat
    BY <1>1, FaultFacts DEF PatchStatus
  <1>3. rec' \in Reconciles /\ rec'.pc = "idle" /\ queued' \in BOOLEAN
    BY <1>1, EndRecFacts DEF PatchStatus, RequeueAfter
  <1>3a. astray' \in BOOLEAN
    BY <1>1 DEF PatchStatus, TypeOK
  <1>4. /\ NewCondition \in Conditions
        /\ rec.outcome = "ok" => NewCondition = Ready(rec.obj.spec) /\ rec.obj.spec \in States
        /\ rec.outcome # "ok" => NewCondition.status = "False"
    BY <1>1, NewConditionFacts
  <1>5. ~PatchDue' /\ CopyExists' /\ CallsAreDue'
    BY <1>3 DEF PatchDue, CopyExists, CallsAreDue
  <1>6. rec.outcome = "ok" => NewCondition.status = "True" /\ NewCondition.reason = rec.obj.spec
    BY <1>4, ConditionFacts
  <1>7. PatchDue <=> rec.outcome = "ok" /\ NewCondition # rec.obj.cond
    <2>1. rec.obj.cond \in Conditions
      BY <1>1 DEF TypeOK, Reconciles, Versions
    <2>2. rec.outcome = "ok" => (StateChanged(rec.obj) <=> rec.obj.cond # Ready(rec.obj.spec))
      BY <1>4, <2>1 DEF StateChanged, Conditions, Ready
    <2> QED BY <1>1, <1>4, <2>2 DEF PatchDue
  <1>8. CASE /\ pa' = pa /\ events' = events
             /\ \/ NewCondition = rec.obj.cond /\ UNCHANGED astray
                \/ pa.cond = NewCondition /\ astray' = (astray /\ rec.outcome = "ok")
                \/ pa.spec = "none" /\ UNCHANGED astray
                \/ astray' = (astray \/ PatchDue)
    <2>1. ~astray' => ClaimsSettled'
      <3> SUFFICES ASSUME ~astray', pa.cond.status = "True" PROVE Settled(pa.cond.reason)
        BY <1>1, <1>5, <1>8 DEF ClaimsSettled, Settled
      <3>1. pa.spec # "none"
        BY <1>1, ConditionFacts DEF SyncInv, GoneIsBlank
      <3>2. ~astray /\ ~(PatchDue /\ pa.cond # NewCondition)
        <4>1. CASE NewCondition = rec.obj.cond /\ UNCHANGED astray
          BY <1>7, <4>1
        <4>2. CASE pa.cond = NewCondition /\ astray' = (astray /\ rec.outcome = "ok")
          <5>1. rec.outcome = "ok"
            BY <1>4, <4>2
          <5> QED BY <4>2, <5>1
        <4>3. CASE astray' = (astray \/ PatchDue)
          BY <4>3
        <4> QED BY <1>8, <3>1, <4>1, <4>2, <4>3
      <3>3. ClaimsSettled
        BY <3>2 DEF SyncInv
      <3> QED BY <1>6, <1>7, <3>2, <3>3 DEF ClaimsSettled
    <2> QED BY <1>1, <1>2, <1>3, <1>3a, <1>5, <1>8, <2>1 DEF SyncInv, TypeOK, GoneIsBlank
  <1>9. CASE /\ pa.spec # "none" /\ NewCondition # rec.obj.cond
             /\ WritePA([pa EXCEPT !.cond = NewCondition])
             /\ astray' = (astray /\ rec.outcome = "ok")
    <2> DEFINE v == [pa EXCEPT !.cond = NewCondition]
    <2>1. v \in Versions /\ v.spec = pa.spec /\ v.cond = NewCondition
      BY <1>1, <1>4 DEF TypeOK, Versions
    <2>2. WritePA(v)
      BY <1>9
    <2> HIDE DEF v
    <2>3. pa' = v /\ pa' \in Versions /\ events' \in Seq(Versions)
      BY <1>1, <2>1, <2>2, WriteType
    <2>4. ~astray' => ClaimsSettled'
      <3> SUFFICES ASSUME ~astray', NewCondition.status = "True" PROVE Settled(NewCondition.reason)
        BY <1>1, <1>5, <2>1, <2>3 DEF ClaimsSettled, Settled
      <3>1. rec.outcome = "ok" /\ PatchDue /\ NewCondition.reason = rec.obj.spec
        BY <1>4, <1>6, <1>7, <1>9
      <3>2. ~astray
        BY <1>9, <3>1
      <3> QED BY <3>1, <3>2 DEF SyncInv, ClaimsSettled
    <2> QED BY <1>1, <1>2, <1>3, <1>3a, <1>5, <1>9, <2>1, <2>3, <2>4 DEF SyncInv, TypeOK, GoneIsBlank
  <1> QED BY <1>8, <1>9 DEF PatchStatus

LEMMA RestartStep ==
  ASSUME SyncInv, Restart
  PROVE  SyncInv'
  <1>1. TypeOK /\ faults' \in Nat /\ astray' \in BOOLEAN
    BY DEF SyncInv, Restart, Fault, TypeOK
  <1>2. rec' \in Reconciles /\ rec'.pc = "idle"
    BY RecordFacts DEF Restart
  <1>3. UNCHANGED <<zstate, userCR, changes, pa>> /\ cache' = pa /\ events' = <<>> /\ queued' \in BOOLEAN
    BY DEF Restart, external
  <1>4. <<>> \in Seq(Versions)
    OBVIOUS
  <1>5. ~astray' => ~astray /\ ~PatchDue /\ ~PatchDue'
    BY <1>2 DEF Restart, PatchDue
  <1>6. ~astray' => ClaimsSettled'
    BY <1>3, <1>5, ClaimsKept DEF SyncInv
  <1> QED BY <1>1, <1>2, <1>3, <1>4, <1>6 DEF SyncInv, TypeOK, GoneIsBlank, CopyExists, CallsAreDue

LEMMA SyncInvariant == Spec => []SyncInv
  <1>1. Init => SyncInv
    <2> SUFFICES ASSUME Init PROVE SyncInv
      OBVIOUS
    <2>1. TypeOK
      <3>1. <<>> \in Seq(Versions) /\ zstate \in ZitadelStates
        BY DEF Init, ZitadelStates
      <3> QED BY <3>1, RecordFacts DEF Init, TypeOK
    <2>2. pa.cond.status = "absent" /\ rec.pc = "idle" /\ pa.cond = NoCondition
      BY RecordFacts, ConditionFacts DEF Init
    <2> QED BY <2>1, <2>2 DEF SyncInv, GoneIsBlank, CopyExists, CallsAreDue, ClaimsSettled, PatchDue
  <1>2. ASSUME SyncInv, [Next]_vars PROVE SyncInv'
    <2>1. CASE UNCHANGED <<zstate, pa, rec, astray>> /\ TypeOK'
      BY <1>2, <2>1 DEF SyncInv, GoneIsBlank, CopyExists, CallsAreDue, ClaimsSettled, Settled,
                        PatchDue, StateChanged
    <2>2. CASE UNCHANGED vars
      BY <1>2, <2>1, <2>2 DEF vars, SyncInv, TypeOK
    <2>3. CASE ChangeUserCR
      BY <1>2, <2>1, <2>3 DEF ChangeUserCR, Change, SyncInv, TypeOK
    <2>4. CASE Deliver
      BY <1>2, <2>1, <2>4 DEF Deliver, external, SyncInv, TypeOK
    <2>5. CASE PlatformAccessController
      BY <1>2, <2>5, ReconcileGetStep, GetUserCRStep, EnsureZitadelUserStateStep, CallZitadelStep,
         PatchStatusStep DEF PlatformAccessController, ReactivateUser, DeactivateUser
    <2> QED BY <1>2, <2>2, <2>3, <2>4, <2>5, ChangeSpecStep, ChangeZitadelStep, RestartStep DEF Next
  <1> QED BY <1>1, <1>2, PTL DEF Spec

-----------------------------------------------------------------------------
(* The theorems *)

(* The type invariant holds for any states and bounds. *)
THEOREM TypeCorrect == Spec => []TypeOK
  <1>1. SyncInv => TypeOK
    BY DEF SyncInv
  <1> QED BY <1>1, SyncInvariant, PTL

(* Reconcile, ensureZitadelUserState: however late the cache is, however often spec.state
   and the user move and whatever calls fail, a True condition for the present spec.state is
   false of the user only until the patch that is under way, or after the user was led
   astray: lost while deactivated, or moved by a reconcile that did not get to its patch. *)
THEOREM ReadyIsKept == Spec => []ReadyIsTrueOrPending
  <1>1. SyncInv => ReadyIsTrueOrPending
    <2> SUFFICES ASSUME SyncInv, ~astray, Syncable, pa.cond = Ready(pa.spec), ~PatchDue
                 PROVE  Aligned(pa.spec)
      BY DEF ReadyIsTrueOrPending
    <2>1. pa.spec \in States
      BY DEF Syncable, SyncInv, TypeOK, Versions
    <2>2. Settled(pa.spec)
      BY <2>1, ConditionFacts DEF SyncInv, ClaimsSettled
    <2> QED BY <2>2 DEF Settled, Aligned, Syncable
  <1> QED BY <1>1, SyncInvariant, PTL

=============================================================================
