----------------------- MODULE ServiceAccountsProofs -----------------------
(***************************************************************************)
(* Proofs about ServiceAccounts, for any number of ServiceAccounts, changes *)
(* and failures, and any of them held by other finalizers.                 *)
(***************************************************************************)
EXTENDS ServiceAccounts, TLAPS

-----------------------------------------------------------------------------
(* Types *)

LEMMA DataTypes ==
  /\ NoServiceAccount \in ServiceAccount /\ DeletedServiceAccount \in ServiceAccount
  /\ NotReconciling \in Reconciles /\ NotReconcilingProject \in ProjectReconciles
  BY DEF NoServiceAccount, DeletedServiceAccount, ServiceAccount, NotReconciling, Reconciles,
         NotReconcilingProject, ProjectReconciles, Phases, SpecStates, Steps, ProjectSteps

NewSA(s) == [NoServiceAccount EXCEPT !.phase = "live", !.held = s \in Held]

LEMMA NewSAType ==
  ASSUME NEW s
  PROVE  /\ NewSA(s) \in ServiceAccount /\ NewSA(s).phase = "live" /\ ~NewSA(s).fin
         /\ NewSA(s).held = (s \in Held)
  <1> DEFINE held == s \in Held
  <1>1. held \in BOOLEAN
    OBVIOUS
  <1> HIDE DEF held
  <1> DEFINE new == [NoServiceAccount EXCEPT !.phase = "live", !.held = held]
  <1>2. new \in ServiceAccount /\ new.phase = "live" /\ ~new.fin /\ new.held = held
    BY <1>1 DEF NoServiceAccount, ServiceAccount, Phases, SpecStates
  <1> QED BY <1>2 DEF NewSA, held

LEMMA InitTypeOK == Init => TypeOK
  <1> SUFFICES ASSUME Init PROVE TypeOK
    OBVIOUS
  <1>1. project \in Project
    BY DEF Init, Project, Phases
  <1> QED BY <1>1, DataTypes DEF Init, TypeOK, Accounts

LEMMA WriteSAType ==
  ASSUME TypeOK, NEW s \in SAs, NEW new \in ServiceAccount, WriteSA(s, new)
  PROVE  sa' \in [SAs -> ServiceAccount] /\ queue' \in SUBSET SAs /\ rec' \in [SAs -> Reconciles]
  BY DEF TypeOK, WriteSA, Reconciles

(* What a reconcile does with its own record: it goes to another step, or ends. *)
Moves(s) ==
    /\ \/ \E pc \in Steps : rec' = [rec EXCEPT ![s] = [@ EXCEPT !.pc = pc]]
       \/ rec' = [rec EXCEPT ![s] = NotReconciling]
    /\ queue' \in {queue, queue \cup {s}}

LEMMA MovesType ==
  ASSUME TypeOK, NEW s \in SAs, Moves(s)
  PROVE  queue' \in SUBSET SAs /\ rec' \in [SAs -> Reconciles]
  <1>1. rec \in [SAs -> Reconciles] /\ queue \in SUBSET SAs
    BY DEF TypeOK
  <1>2. queue' \in SUBSET SAs
    BY <1>1 DEF Moves
  <1>3. CASE rec' = [rec EXCEPT ![s] = NotReconciling]
    BY <1>1, <1>2, <1>3, DataTypes
  <1>4. ASSUME NEW pc \in Steps, rec' = [rec EXCEPT ![s] = [@ EXCEPT !.pc = pc]]
        PROVE  rec' \in [SAs -> Reconciles]
    <2>1. [rec[s] EXCEPT !.pc = pc] \in Reconciles
      BY <1>1 DEF Reconciles
    <2> QED BY <1>1, <1>4, <2>1
  <1> QED BY <1>2, <1>3, <1>4 DEF Moves

LEMMA FaultType ==
  ASSUME TypeOK, Fault \/ NoFault
  PROVE  faults' \in Nat
  BY DEF TypeOK, Fault, NoFault

LEMMA EnvironmentTypeOK ==
  ASSUME TypeOK, NEW s \in SAs, Environment(s)
  PROVE  TypeOK'
  <1>1. sa[s] \in ServiceAccount
    BY DEF TypeOK
  <1>2. PICK new \in ServiceAccount : WriteSA(s, new)
    <2>1. CASE CreateSA(s)
      BY <2>1, NewSAType DEF CreateSA, NewSA
    <2>2. ASSUME NEW state \in SpecStates, ChangeSA(s, state)
          PROVE  \E new \in ServiceAccount : WriteSA(s, new)
      <3>1. [sa[s] EXCEPT !.spec = state] \in ServiceAccount
        BY <1>1 DEF ServiceAccount
      <3> QED BY <2>2, <3>1 DEF ChangeSA
    <2>3. CASE DeleteSA(s)
      <3>1. [sa[s] EXCEPT !.phase = "deleting"] \in ServiceAccount
        BY <1>1 DEF ServiceAccount, Phases
      <3> QED BY <2>3, <3>1, DataTypes DEF DeleteSA
    <2>4. CASE ReleaseSA(s)
      <3>1. [sa[s] EXCEPT !.held = FALSE] \in ServiceAccount
        BY <1>1 DEF ServiceAccount
      <3> QED BY <2>4, <3>1, DataTypes DEF ReleaseSA
    <2> QED BY <2>1, <2>2, <2>3, <2>4 DEF Environment
  <1>3. /\ UNCHANGED <<org, zuser, project, pqueued, prec, faults>>
        /\ changes' \in {changes, changes + 1}
    BY DEF Environment, CreateSA, ChangeSA, DeleteSA, ReleaseSA, Change, zitadelVars, projectVars
  <1> QED BY <1>2, <1>3, WriteSAType DEF TypeOK

LEMMA ControllerMoves ==
  ASSUME TypeOK, NEW s \in SAs, ServiceAccountController(s), ~ReconcileGet(s)
  PROVE  Moves(s) /\ (Fault \/ NoFault)
  <1> USE DEF Moves, Steps, Requeue, EndRec, Goto, Fails
  <1>1. CASE AddFinalizer(s) \/ RemoveFinalizer(s)
    BY <1>1 DEF AddFinalizer, RemoveFinalizer
  <1>2. CASE FinalizeGet(s) \/ FinalizeDelete(s)
    BY <1>2 DEF FinalizeGet, FinalizeDelete
  <1>3. CASE GetOrg(s) \/ CreateOrg(s)
    BY <1>3 DEF GetOrg, CreateOrg
  <1>4. ASSUME NEW pc \in Steps, GoOn(s, pc) PROVE Moves(s)
    BY <1>4 DEF GoOn
  <1>5. AfterUser(rec[s]) \in Steps /\ AfterState(rec[s]) \in Steps
    BY DEF AfterUser, AfterState
  <1>6. CASE GetUser(s) \/ CreateUser(s)
    BY <1>4, <1>5, <1>6 DEF GetUser, CreateUser
  <1>7. CASE SetState(s)
    BY <1>4, <1>5, <1>7 DEF SetState
  <1>8. CASE UpdateStatus(s)
    BY <1>8 DEF UpdateStatus
  <1> QED BY <1>1, <1>2, <1>3, <1>6, <1>7, <1>8 DEF ServiceAccountController

(* The stores after a step of the controller *)
LEMMA ControllerWrites ==
  ASSUME TypeOK, NEW s \in SAs, ServiceAccountController(s)
  PROVE  /\ org' \in BOOLEAN
         /\ \E a \in Accounts : zuser' \in {zuser, [zuser EXCEPT ![s] = a]}
         /\ \E new \in ServiceAccount : sa' \in {sa, [sa EXCEPT ![s] = new]}
         /\ UNCHANGED <<project, pqueued, prec, changes>>
  <1>1. sa[s] \in ServiceAccount /\ rec[s] \in Reconciles /\ org \in BOOLEAN
    BY DEF TypeOK
  <1>2. org' \in BOOLEAN
    BY <1>1 DEF ServiceAccountController, ReconcileGet, AddFinalizer, FinalizeGet, FinalizeDelete,
           RemoveFinalizer, GetOrg, CreateOrg, GetUser, CreateUser, SetState, UpdateStatus,
           zitadelVars
  <1>3. UNCHANGED <<project, pqueued, prec, changes>>
    BY DEF ServiceAccountController, ReconcileGet, AddFinalizer, FinalizeGet, FinalizeDelete,
           RemoveFinalizer, GetOrg, CreateOrg, GetUser, CreateUser, SetState, UpdateStatus,
           projectVars
  <1>4. \E a \in Accounts : zuser' \in {zuser, [zuser EXCEPT ![s] = a]}
    <2>1. CASE ReconcileGet(s) \/ AddFinalizer(s) \/ RemoveFinalizer(s) \/ FinalizeGet(s)
               \/ GetOrg(s) \/ CreateOrg(s) \/ GetUser(s) \/ UpdateStatus(s)
      BY <2>1 DEF ReconcileGet, AddFinalizer, RemoveFinalizer, FinalizeGet, GetOrg, CreateOrg,
                  GetUser, UpdateStatus, zitadelVars, Accounts
    <2>2. CASE FinalizeDelete(s)
      BY <2>2 DEF FinalizeDelete, Accounts
    <2>3. CASE CreateUser(s)
      BY <2>3 DEF CreateUser, Accounts
    <2>4. CASE SetState(s)
      BY <2>4 DEF SetState, Target, Accounts
    <2> QED BY <2>1, <2>2, <2>3, <2>4 DEF ServiceAccountController
  <1>5. \E new \in ServiceAccount : sa' \in {sa, [sa EXCEPT ![s] = new]}
    <2>1. CASE AddFinalizer(s)
      <3>1. [sa[s] EXCEPT !.fin = TRUE] \in ServiceAccount
        BY <1>1 DEF ServiceAccount
      <3> QED BY <2>1, <3>1 DEF AddFinalizer
    <2>2. CASE RemoveFinalizer(s)
      <3>1. [sa[s] EXCEPT !.fin = FALSE] \in ServiceAccount
        BY <1>1 DEF ServiceAccount
      <3> QED BY <2>2, <3>1, DataTypes DEF RemoveFinalizer
    <2>3. CASE UpdateStatus(s)
      <3>1. [sa[s] EXCEPT !.status = rec[s].spec] \in ServiceAccount
        BY <1>1 DEF ServiceAccount, Reconciles
      <3> QED BY <2>3, <3>1 DEF UpdateStatus
    <2>4. CASE UNCHANGED sa
      BY <1>1, <2>4
    <2> QED BY <2>1, <2>2, <2>3, <2>4
            DEF ServiceAccountController, ReconcileGet, FinalizeGet, FinalizeDelete, GetOrg,
                CreateOrg, GetUser, CreateUser, SetState
  <1> QED BY <1>2, <1>3, <1>4, <1>5

LEMMA ReconcileGetType ==
  ASSUME TypeOK, NEW s \in SAs, ReconcileGet(s)
  PROVE  queue' \in SUBSET SAs /\ rec' \in [SAs -> Reconciles]
  <1>1. sa[s] \in ServiceAccount
    BY DEF TypeOK
  <1>2. [pc |-> FirstStep(sa[s]), fresh |-> TRUE, spec |-> sa[s].spec, status |-> sa[s].status,
         deleting |-> sa[s].phase = "deleting"] \in Reconciles
    BY <1>1 DEF Reconciles, ServiceAccount, FirstStep, Steps
  <1> QED BY <1>2, DataTypes DEF ReconcileGet, TypeOK

LEMMA NextTypeOK == TypeOK /\ [Next]_vars => TypeOK'
  <1> SUFFICES ASSUME TypeOK, [Next]_vars PROVE TypeOK'
    OBVIOUS
  <1>1. ASSUME NEW s \in SAs, ServiceAccountController(s) PROVE TypeOK'
    <2>1. queue' \in SUBSET SAs /\ rec' \in [SAs -> Reconciles] /\ faults' \in Nat
      <3>1. CASE ReconcileGet(s)
        BY <3>1, ReconcileGetType DEF ReconcileGet, TypeOK
      <3>2. CASE ~ReconcileGet(s)
        BY <1>1, <3>2, ControllerMoves, MovesType, FaultType
      <3> QED BY <3>1, <3>2
    <2>2. zuser' \in [SAs -> Accounts]
      <3>1. PICK a \in Accounts : zuser' \in {zuser, [zuser EXCEPT ![s] = a]}
        BY <1>1, ControllerWrites
      <3> QED BY <3>1 DEF TypeOK
    <2>3. sa' \in [SAs -> ServiceAccount]
      <3>1. PICK new \in ServiceAccount : sa' \in {sa, [sa EXCEPT ![s] = new]}
        BY <1>1, ControllerWrites
      <3> QED BY <3>1 DEF TypeOK
    <2> QED BY <1>1, <2>1, <2>2, <2>3, ControllerWrites DEF TypeOK
  <1>2. CASE DeleteProject
    <2>1. project' \in Project /\ prec' \in ProjectReconciles /\ changes' \in Nat
      <3>1. PICK phase \in Phases : project' = [project EXCEPT !.phase = phase]
        BY <1>2 DEF DeleteProject, WriteProject, Phases
      <3>2. project' \in Project
        BY <3>1 DEF TypeOK, Project
      <3>3. prec' \in ProjectReconciles
        BY <1>2 DEF DeleteProject, WriteProject, TypeOK, ProjectReconciles
      <3>4. changes' \in Nat
        BY <1>2 DEF DeleteProject, Change, TypeOK
      <3> QED BY <3>2, <3>3, <3>4
    <2> QED BY <1>2, <2>1 DEF DeleteProject, WriteProject, TypeOK, zitadelVars, saVars
  <1>3. CASE ProjectController
    <2>1. /\ project' \in Project /\ prec' \in ProjectReconciles /\ pqueued' \in BOOLEAN
          /\ faults' \in Nat
      <3>1. CASE ProjectGet
        <4>1. /\ [pc |-> "addFinalizer", fresh |-> TRUE] \in ProjectReconciles
              /\ [pc |-> "deleteOrg", fresh |-> TRUE] \in ProjectReconciles
          BY DEF ProjectReconciles, ProjectSteps
        <4> QED BY <3>1, <4>1, DataTypes DEF ProjectGet, TypeOK
      <3>2. CASE DeleteOrg
        <4>1. [prec EXCEPT !.pc = "removeFinalizer"] \in ProjectReconciles
          BY DEF TypeOK, ProjectReconciles, ProjectSteps
        <4> QED BY <3>2, <4>1, DataTypes, FaultType
                DEF DeleteOrg, RequeueProject, EndProject, TypeOK
      <3>3. ASSUME NEW pc, NEW new \in Project, UpdateProject(pc, new)
            PROVE  /\ project' \in Project /\ prec' \in ProjectReconciles /\ pqueued' \in BOOLEAN
                   /\ faults' \in Nat
        BY <3>3, DataTypes, FaultType DEF UpdateProject, RequeueProject, EndProject, TypeOK
      <3>4. /\ [project EXCEPT !.fin = TRUE] \in Project
            /\ [phase |-> "gone", fin |-> FALSE] \in Project
        BY DEF TypeOK, Project, Phases
      <3> QED BY <1>3, <3>1, <3>2, <3>3, <3>4
              DEF ProjectController, AddProjectFinalizer, RemoveProjectFinalizer
    <2>2. UNCHANGED <<sa, queue, rec, changes>>
      BY <1>3 DEF ProjectController, ProjectGet, DeleteOrg, AddProjectFinalizer,
                  RemoveProjectFinalizer, UpdateProject, saVars
    <2>3. org' \in BOOLEAN /\ zuser' \in [SAs -> Accounts]
      BY <1>3 DEF ProjectController, ProjectGet, DeleteOrg, AddProjectFinalizer,
                  RemoveProjectFinalizer, UpdateProject, zitadelVars, TypeOK, Accounts
    <2> QED BY <2>1, <2>2, <2>3 DEF TypeOK
  <1>4. CASE Restart
    BY <1>4, DataTypes, FaultType DEF Restart, TypeOK, zitadelVars
  <1>5. CASE UNCHANGED vars
    BY <1>5 DEF vars, zitadelVars, saVars, projectVars, TypeOK
  <1> QED BY <1>1, <1>2, <1>3, <1>4, <1>5, EnvironmentTypeOK DEF Next

(* The type invariant holds for any ServiceAccounts and bounds. *)
THEOREM TypeCorrect == Spec => []TypeOK
  BY InitTypeOK, NextTypeOK, PTL DEF Spec

-----------------------------------------------------------------------------
(* The inductive invariant *)

(* A machine user may exist under the SA. *)
Covered(s) == sa[s].fin \/ (s \in Held /\ sa[s].phase \in {"deleting", "gone"})

(* What the API server makes sure of *)
ResourceSound ==
    \A s \in SAs :
        /\ sa[s].held => s \in Held
        /\ sa[s].phase = "deleting" => sa[s].fin \/ sa[s].held
        /\ sa[s].phase = "never" => ~sa[s].fin

(* What a reconcile knows in each phase: it is about to add the finalizer to an SA that is
   still there, it gets as far as the organization and the account only for an SA that is
   covered, and it removes the finalizer once the account is gone. *)
Provisioning == {"getOrg", "createOrg", "getUser", "createUser", "setState", "updateStatus"}
ReconcileSound ==
    \A s \in SAs :
        /\ rec[s].pc = "addFinalizer" /\ rec[s].fresh => sa[s].phase = "live"
        /\ rec[s].pc \in Provisioning => Covered(s)
        /\ rec[s].pc = "removeFinalizer" => zuser[s] = "none"

AccountInv == TypeOK /\ ResourceSound /\ ReconcileSound /\ AccountHeldByFinalizer

LEMMA InitAccountInv == Init => AccountInv
  <1> SUFFICES ASSUME Init PROVE AccountInv
    OBVIOUS
  <1>1. \A s \in SAs : sa[s] = NoServiceAccount /\ rec[s] = NotReconciling /\ zuser[s] = "none"
    BY DEF Init
  <1>1a. /\ NoServiceAccount.phase = "never" /\ ~NoServiceAccount.fin /\ ~NoServiceAccount.held
        /\ NotReconciling.pc = "idle"
    BY DEF NoServiceAccount, NotReconciling
  <1>2. ResourceSound
    BY <1>1, <1>1a DEF ResourceSound
  <1>3. ReconcileSound
    BY <1>1, <1>1a DEF ReconcileSound, Provisioning
  <1>4. AccountHeldByFinalizer
    BY <1>1 DEF AccountHeldByFinalizer
  <1> QED BY <1>2, <1>3, <1>4, InitTypeOK DEF AccountInv

(* A write by somebody else that does not uncover an SA *)
LEMMA WriteSASound ==
  ASSUME AccountInv, NEW s \in SAs, NEW new \in ServiceAccount, WriteSA(s, new), UNCHANGED zuser,
         new.held => s \in Held,
         new.phase = "deleting" => new.fin \/ new.held,
         new.phase = "never" => ~new.fin,
         Covered(s) => new.fin \/ (s \in Held /\ new.phase \in {"deleting", "gone"})
  PROVE  ResourceSound' /\ ReconcileSound' /\ AccountHeldByFinalizer'
  <1>1. \A t \in SAs : sa'[t] = IF t = s THEN new ELSE sa[t]
    BY DEF AccountInv, TypeOK, WriteSA
  <1>2. \A t \in SAs : /\ rec'[t].pc = rec[t].pc
                       /\ rec'[t].fresh = IF t = s THEN FALSE ELSE rec[t].fresh
    BY DEF AccountInv, TypeOK, WriteSA, Reconciles
  <1>3. ResourceSound'
    BY <1>1 DEF AccountInv, ResourceSound
  <1>4. \A t \in SAs : Covered(t) => Covered(t)'
    BY <1>1 DEF Covered
  <1>5. ReconcileSound'
    BY <1>1, <1>2, <1>4 DEF AccountInv, ReconcileSound
  <1> QED BY <1>3, <1>4, <1>5 DEF AccountInv, AccountHeldByFinalizer, Covered

LEMMA EnvironmentSound ==
  ASSUME AccountInv, NEW s \in SAs, Environment(s)
  PROVE  ResourceSound' /\ ReconcileSound' /\ AccountHeldByFinalizer'
  <1>1. sa[s] \in ServiceAccount
    BY DEF AccountInv, TypeOK
  <1>2. /\ sa[s].held => s \in Held
        /\ sa[s].phase = "deleting" => sa[s].fin \/ sa[s].held
        /\ sa[s].phase = "never" => ~sa[s].fin
    BY DEF AccountInv, ResourceSound
  <1>3. UNCHANGED zuser
    BY DEF Environment, CreateSA, ChangeSA, DeleteSA, ReleaseSA, zitadelVars
  <1>4. CASE CreateSA(s)
    <2>1. WriteSA(s, NewSA(s)) /\ ~Covered(s)
      BY <1>2, <1>4 DEF CreateSA, Covered, NewSA
    <2> QED BY <1>3, <2>1, NewSAType, WriteSASound
  <1>5. ASSUME NEW state \in SpecStates, ChangeSA(s, state)
        PROVE  ResourceSound' /\ ReconcileSound' /\ AccountHeldByFinalizer'
    <2> DEFINE new == [sa[s] EXCEPT !.spec = state]
    <2>1. /\ new \in ServiceAccount
          /\ new.phase = sa[s].phase /\ new.held = sa[s].held /\ new.fin = sa[s].fin
      BY <1>1 DEF ServiceAccount
    <2>2. WriteSA(s, new)
      BY <1>5 DEF ChangeSA
    <2> HIDE DEF new
    <2> QED BY <1>2, <1>3, <2>1, <2>2, WriteSASound DEF Covered
  <1>6. CASE DeleteSA(s)
    <2> DEFINE new == IF sa[s].fin \/ sa[s].held THEN [sa[s] EXCEPT !.phase = "deleting"]
                                                 ELSE DeletedServiceAccount
    <2>1. WriteSA(s, new) /\ sa[s].phase = "live"
      BY <1>6 DEF DeleteSA
    <2>2. CASE sa[s].fin \/ sa[s].held
      <3>1. /\ new \in ServiceAccount
            /\ new.phase = "deleting" /\ new.held = sa[s].held /\ new.fin = sa[s].fin
        BY <1>1, <2>2 DEF ServiceAccount, Phases
      <3> HIDE DEF new
      <3> QED BY <1>2, <1>3, <2>1, <2>2, <3>1, WriteSASound DEF Covered
    <2>3. CASE ~(sa[s].fin \/ sa[s].held)
      <3>1. new \in ServiceAccount /\ new.phase = "gone" /\ ~new.held /\ ~new.fin
        BY <2>3, DataTypes DEF DeletedServiceAccount, NoServiceAccount
      <3> HIDE DEF new
      <3> QED BY <1>2, <1>3, <2>1, <2>3, <3>1, WriteSASound DEF Covered
    <2> QED BY <2>2, <2>3
  <1>7. CASE ReleaseSA(s)
    <2> DEFINE new == IF sa[s].fin THEN [sa[s] EXCEPT !.held = FALSE] ELSE DeletedServiceAccount
    <2>1. WriteSA(s, new) /\ sa[s].phase = "deleting" /\ sa[s].held
      BY <1>7 DEF ReleaseSA
    <2>2. CASE sa[s].fin
      <3>1. new \in ServiceAccount /\ new.phase = sa[s].phase /\ ~new.held /\ new.fin
        BY <1>1, <2>2 DEF ServiceAccount
      <3> HIDE DEF new
      <3> QED BY <1>2, <1>3, <2>1, <3>1, WriteSASound
    <2>3. CASE ~sa[s].fin
      <3>1. new \in ServiceAccount /\ new.phase = "gone" /\ ~new.held /\ ~new.fin
        BY <2>3, DataTypes DEF DeletedServiceAccount, NoServiceAccount
      <3> HIDE DEF new
      <3> QED BY <1>2, <1>3, <2>1, <3>1, WriteSASound
    <2> QED BY <2>2, <2>3
  <1> QED BY <1>4, <1>5, <1>6, <1>7 DEF Environment

(* A step of the reconcile that leaves the SA alone: the account it may create is covered,
   and it goes on only to where it knows enough. *)
LEMMA RecStepSound ==
  ASSUME AccountInv, NEW s \in SAs, NEW r \in Reconciles, NEW a \in Accounts,
         rec' = [rec EXCEPT ![s] = r], zuser' = [zuser EXCEPT ![s] = a], UNCHANGED sa,
         r.pc = "addFinalizer" /\ r.fresh => sa[s].phase = "live",
         r.pc \in Provisioning => Covered(s),
         r.pc = "removeFinalizer" => a = "none",
         a # "none" => Covered(s)
  PROVE  ResourceSound' /\ ReconcileSound' /\ AccountHeldByFinalizer'
  <1>1. \A t \in SAs : /\ rec'[t] = IF t = s THEN r ELSE rec[t]
                       /\ zuser'[t] = IF t = s THEN a ELSE zuser[t]
    BY DEF AccountInv, TypeOK
  <1>2. \A t \in SAs : Covered(t)' = Covered(t)
    BY DEF Covered
  <1>3. ResourceSound'
    BY DEF AccountInv, ResourceSound
  <1>4. ReconcileSound'
    BY <1>1, <1>2 DEF AccountInv, ReconcileSound
  <1>5. AccountHeldByFinalizer'
    BY <1>1, <1>2 DEF AccountInv, AccountHeldByFinalizer, Covered
  <1> QED BY <1>3, <1>4, <1>5

LEMMA ReconcileGetSound ==
  ASSUME AccountInv, NEW s \in SAs, ReconcileGet(s)
  PROVE  ResourceSound' /\ ReconcileSound' /\ AccountHeldByFinalizer'
  <1>1. /\ UNCHANGED <<sa, zuser>>
        /\ zuser \in [SAs -> Accounts] /\ sa[s] \in ServiceAccount /\ rec \in [SAs -> Reconciles]
    BY DEF ReconcileGet, zitadelVars, AccountInv, TypeOK
  <1>2. zuser' = [zuser EXCEPT ![s] = zuser[s]] /\ zuser[s] \in Accounts
    BY <1>1
  <1>3. zuser[s] # "none" => Covered(s)
    BY DEF AccountInv, AccountHeldByFinalizer, Covered
  <1>4. CASE rec' = rec
    BY <1>1, <1>4 DEF AccountInv, ResourceSound, ReconcileSound, AccountHeldByFinalizer, Covered
  <1>5. CASE rec' = [rec EXCEPT ![s] = NotReconciling]
    <2>1. NotReconciling.pc = "idle"
      BY DEF NotReconciling
    <2> QED BY <1>1, <1>2, <1>3, <1>5, <2>1, DataTypes, RecStepSound DEF Provisioning
  <1>6. CASE /\ sa[s].phase \notin {"never", "gone"}
             /\ rec' = [rec EXCEPT ![s] = [pc |-> FirstStep(sa[s]), fresh |-> TRUE,
                          spec |-> sa[s].spec, status |-> sa[s].status,
                          deleting |-> sa[s].phase = "deleting"]]
    <2> DEFINE r == [pc |-> FirstStep(sa[s]), fresh |-> TRUE, spec |-> sa[s].spec,
                     status |-> sa[s].status, deleting |-> sa[s].phase = "deleting"]
    <2>1. r \in Reconciles /\ r.pc = FirstStep(sa[s])
      BY <1>1 DEF Reconciles, ServiceAccount, FirstStep, Steps
    <2>2. sa[s].phase \in {"live", "deleting"}
      BY <1>1, <1>6 DEF ServiceAccount, Phases
    <2>3. /\ FirstStep(sa[s]) = "addFinalizer" => sa[s].phase = "live"
          /\ FirstStep(sa[s]) \in Provisioning => Covered(s)
          /\ FirstStep(sa[s]) # "removeFinalizer"
      BY <2>2 DEF FirstStep, Provisioning, Covered, AccountInv, ResourceSound
    <2>4. rec' = [rec EXCEPT ![s] = r]
      BY <1>6
    <2> HIDE DEF r
    <2> QED BY <1>1, <1>2, <1>3, <2>1, <2>3, <2>4, RecStepSound
  <1> QED BY <1>4, <1>5, <1>6 DEF ReconcileGet

(* The reconcile ends, or goes on to pc. *)
LEMMA EndsOrGoesOn ==
  ASSUME AccountInv, NEW s \in SAs, NEW a \in Accounts, NEW pc \in Steps,
         \/ rec' = [rec EXCEPT ![s] = NotReconciling]
         \/ rec' = [rec EXCEPT ![s] = [@ EXCEPT !.pc = pc]],
         zuser' = [zuser EXCEPT ![s] = a], UNCHANGED sa,
         pc # "addFinalizer",
         pc \in Provisioning => Covered(s),
         pc = "removeFinalizer" => a = "none",
         a # "none" => Covered(s)
  PROVE  ResourceSound' /\ ReconcileSound' /\ AccountHeldByFinalizer'
  <1>1. CASE rec' = [rec EXCEPT ![s] = NotReconciling]
    <2>1. NotReconciling.pc = "idle"
      BY DEF NotReconciling
    <2> QED BY <1>1, <2>1, DataTypes, RecStepSound DEF Provisioning
  <1>2. CASE rec' = [rec EXCEPT ![s] = [@ EXCEPT !.pc = pc]]
    <2> DEFINE r == [rec[s] EXCEPT !.pc = pc]
    <2>1. r \in Reconciles /\ r.pc = pc
      BY DEF AccountInv, TypeOK, Reconciles
    <2>2. rec' = [rec EXCEPT ![s] = r]
      BY <1>2
    <2> HIDE DEF r
    <2> QED BY <2>1, <2>2, RecStepSound
  <1> QED BY <1>1, <1>2

(* The reconcile writes the SA, and ends. *)
LEMMA WriteAndEnd ==
  ASSUME AccountInv, NEW s \in SAs, NEW new \in ServiceAccount,
         rec' = [rec EXCEPT ![s] = NotReconciling], sa' = [sa EXCEPT ![s] = new], UNCHANGED zuser,
         new.held => s \in Held,
         new.phase = "deleting" => new.fin \/ new.held,
         new.phase = "never" => ~new.fin,
         zuser[s] = "none" \/ new.fin \/ (Covered(s) /\ new.fin = sa[s].fin /\ new.phase = sa[s].phase)
  PROVE  ResourceSound' /\ ReconcileSound' /\ AccountHeldByFinalizer'
  <1>1. \A t \in SAs : /\ sa'[t] = IF t = s THEN new ELSE sa[t]
                       /\ rec'[t] = IF t = s THEN NotReconciling ELSE rec[t]
    BY DEF AccountInv, TypeOK
  <1>2. NotReconciling.pc = "idle"
    BY DEF NotReconciling
  <1>3. ResourceSound'
    BY <1>1 DEF AccountInv, ResourceSound
  <1>4. \A t \in SAs \ {s} : Covered(t)' = Covered(t)
    BY <1>1 DEF Covered
  <1>5. ReconcileSound'
    BY <1>1, <1>2, <1>4 DEF AccountInv, ReconcileSound, Provisioning
  <1>6. AccountHeldByFinalizer'
    BY <1>1 DEF AccountInv, AccountHeldByFinalizer, Covered
  <1> QED BY <1>3, <1>5, <1>6

LEMMA UpdatesSound ==
  ASSUME AccountInv, NEW s \in SAs, AddFinalizer(s) \/ RemoveFinalizer(s) \/ UpdateStatus(s)
  PROVE  ResourceSound' /\ ReconcileSound' /\ AccountHeldByFinalizer'
  <1>1. /\ sa \in [SAs -> ServiceAccount] /\ sa[s] \in ServiceAccount /\ rec[s] \in Reconciles
        /\ zuser \in [SAs -> Accounts]
    BY DEF AccountInv, TypeOK
  <1>2. UNCHANGED zuser /\ rec' = [rec EXCEPT ![s] = NotReconciling]
    BY DEF AddFinalizer, RemoveFinalizer, UpdateStatus, Requeue, EndRec, Fails, zitadelVars
  <1>3. /\ sa[s].held => s \in Held
        /\ sa[s].phase = "deleting" => sa[s].fin \/ sa[s].held
        /\ sa[s].phase = "never" => ~sa[s].fin
    BY DEF AccountInv, ResourceSound
  <1>4. CASE UNCHANGED sa
    <2>1. sa' = [sa EXCEPT ![s] = sa[s]] /\ (zuser[s] = "none" \/ Covered(s))
      BY <1>1, <1>4 DEF AccountInv, AccountHeldByFinalizer, Covered
    <2> QED BY <1>1, <1>2, <1>3, <2>1, WriteAndEnd
  <1>5. CASE AddFinalizer(s) /\ rec[s].fresh /\ sa' = [sa EXCEPT ![s].fin = TRUE]
    <2> DEFINE new == [sa[s] EXCEPT !.fin = TRUE]
    <2>1. new \in ServiceAccount /\ new.fin /\ new.phase = sa[s].phase /\ new.held = sa[s].held
      BY <1>1 DEF ServiceAccount
    <2>2. sa[s].phase = "live"
      BY <1>5 DEF AddFinalizer, AccountInv, ReconcileSound
    <2>3. sa' = [sa EXCEPT ![s] = new]
      BY <1>5
    <2> HIDE DEF new
    <2> QED BY <1>2, <1>3, <2>1, <2>2, <2>3, WriteAndEnd
  <1>6. CASE /\ RemoveFinalizer(s)
             /\ sa' = [sa EXCEPT ![s] = IF @.held THEN [@ EXCEPT !.fin = FALSE] ELSE DeletedServiceAccount]
    <2> DEFINE new == IF sa[s].held THEN [sa[s] EXCEPT !.fin = FALSE] ELSE DeletedServiceAccount
    <2>1. /\ new \in ServiceAccount /\ (new.held => s \in Held) /\ ~new.fin
          /\ new.phase = "deleting" => new.held
      <3>1. CASE sa[s].held
        BY <1>1, <1>3, <3>1 DEF ServiceAccount
      <3>2. CASE ~sa[s].held
        BY <3>2, DataTypes DEF DeletedServiceAccount, NoServiceAccount
      <3> QED BY <3>1, <3>2
    <2>2. zuser[s] = "none"
      BY <1>6 DEF RemoveFinalizer, AccountInv, ReconcileSound
    <2>3. sa' = [sa EXCEPT ![s] = new]
      BY <1>6
    <2> HIDE DEF new
    <2> QED BY <1>2, <2>1, <2>2, <2>3, WriteAndEnd
  <1>7. CASE UpdateStatus(s) /\ sa' = [sa EXCEPT ![s].status = rec[s].spec]
    <2> DEFINE new == [sa[s] EXCEPT !.status = rec[s].spec]
    <2>1. /\ new \in ServiceAccount
          /\ new.fin = sa[s].fin /\ new.phase = sa[s].phase /\ new.held = sa[s].held
      BY <1>1 DEF ServiceAccount, Reconciles
    <2>2. Covered(s)
      BY <1>7 DEF UpdateStatus, AccountInv, ReconcileSound, Provisioning
    <2>3. sa' = [sa EXCEPT ![s] = new]
      BY <1>7
    <2> HIDE DEF new
    <2> QED BY <1>2, <1>3, <2>1, <2>2, <2>3, WriteAndEnd
  <1> QED BY <1>4, <1>5, <1>6, <1>7 DEF AddFinalizer, RemoveFinalizer, UpdateStatus

LEMMA CallsSound ==
  ASSUME AccountInv, NEW s \in SAs,
         \/ FinalizeGet(s) \/ FinalizeDelete(s) \/ GetOrg(s) \/ CreateOrg(s)
         \/ GetUser(s) \/ CreateUser(s) \/ SetState(s)
  PROVE  ResourceSound' /\ ReconcileSound' /\ AccountHeldByFinalizer'
  <1>1. /\ zuser \in [SAs -> Accounts] /\ zuser[s] \in Accounts
        /\ zuser = [zuser EXCEPT ![s] = zuser[s]]
    BY DEF AccountInv, TypeOK
  <1>2. zuser[s] # "none" => Covered(s)
    BY DEF AccountInv, AccountHeldByFinalizer, Covered
  <1>3. UNCHANGED sa
    BY DEF FinalizeGet, FinalizeDelete, GetOrg, CreateOrg, GetUser, CreateUser, SetState
  <1>4. rec[s].pc \in Provisioning => Covered(s)
    BY DEF AccountInv, ReconcileSound
  <1>5. \A r : AfterUser(r) \in {"setState", "idle", "updateStatus"}
                /\ AfterState(r) \in {"idle", "updateStatus"}
    BY DEF AfterUser, AfterState
  <1> USE DEF Goto, Fails, Requeue, EndRec
  <1>6. CASE FinalizeGet(s)
    <2> DEFINE pc == IF zuser[s] = "none" THEN "removeFinalizer" ELSE "finalizeDelete"
    <2>1. /\ \/ rec' = [rec EXCEPT ![s] = NotReconciling]
             \/ rec' = [rec EXCEPT ![s] = [@ EXCEPT !.pc = pc]]
          /\ UNCHANGED zuser
      BY <1>6 DEF FinalizeGet, zitadelVars
    <2>2. /\ pc \in Steps /\ pc # "addFinalizer" /\ pc \notin Provisioning
          /\ pc = "removeFinalizer" => zuser[s] = "none"
      BY DEF Steps, Provisioning
    <2> HIDE DEF pc
    <2> QED BY <1>1, <1>2, <1>3, <2>1, <2>2, EndsOrGoesOn
  <1>7. CASE FinalizeDelete(s)
    <2>1. \/ /\ zuser' = [zuser EXCEPT ![s] = "none"]
             /\ rec' = [rec EXCEPT ![s] = [@ EXCEPT !.pc = "removeFinalizer"]]
          \/ /\ zuser' \in {zuser, [zuser EXCEPT ![s] = "none"]}
             /\ rec' = [rec EXCEPT ![s] = NotReconciling]
      BY <1>7 DEF FinalizeDelete
    <2>2. "none" \in Accounts /\ "removeFinalizer" \in Steps /\ "idle" \in Steps
      BY DEF Accounts, Steps
    <2>3. CASE /\ zuser' = [zuser EXCEPT ![s] = "none"]
               /\ \/ rec' = [rec EXCEPT ![s] = [@ EXCEPT !.pc = "removeFinalizer"]]
                  \/ rec' = [rec EXCEPT ![s] = NotReconciling]
      BY <1>3, <2>2, <2>3, EndsOrGoesOn DEF Provisioning
    <2>4. CASE zuser' = zuser /\ rec' = [rec EXCEPT ![s] = NotReconciling]
      BY <1>1, <1>2, <1>3, <2>2, <2>4, EndsOrGoesOn DEF Provisioning
    <2> QED BY <2>1, <2>3, <2>4
  <1>8. CASE GetOrg(s) \/ CreateOrg(s) \/ GetUser(s)
    <2>1. Covered(s)
      BY <1>4, <1>8 DEF GetOrg, CreateOrg, GetUser, Provisioning
    <2>2. UNCHANGED zuser
      BY <1>8 DEF GetOrg, CreateOrg, GetUser, zitadelVars
    <2>3. PICK pc \in Provisioning :
            \/ rec' = [rec EXCEPT ![s] = NotReconciling]
            \/ rec' = [rec EXCEPT ![s] = [@ EXCEPT !.pc = pc]]
      BY <1>5, <1>8 DEF GetOrg, CreateOrg, GetUser, GoOn, Provisioning
    <2>4. pc \in Steps /\ pc # "addFinalizer" /\ pc # "removeFinalizer"
      BY DEF Steps, Provisioning
    <2> QED BY <1>1, <1>3, <2>1, <2>2, <2>3, <2>4, EndsOrGoesOn
  <1>9. CASE CreateUser(s) \/ SetState(s)
    <2>1. Covered(s)
      BY <1>4, <1>9 DEF CreateUser, SetState, Provisioning
    <2>2. PICK a \in Accounts : zuser' = [zuser EXCEPT ![s] = a]
      <3>1. Target(rec[s].spec) \in Accounts /\ "active" \in Accounts
        BY DEF Target, Accounts
      <3>2. CASE CreateUser(s)
        BY <1>1, <3>1, <3>2 DEF CreateUser
      <3>3. CASE SetState(s)
        BY <1>1, <3>1, <3>3 DEF SetState
      <3> QED BY <1>9, <3>2, <3>3
    <2>3. PICK pc \in Provisioning :
            \/ rec' = [rec EXCEPT ![s] = NotReconciling]
            \/ rec' = [rec EXCEPT ![s] = [@ EXCEPT !.pc = pc]]
      BY <1>5, <1>9 DEF CreateUser, SetState, GoOn, Provisioning
    <2>4. pc \in Steps /\ pc # "addFinalizer" /\ pc # "removeFinalizer"
      BY DEF Steps, Provisioning
    <2> QED BY <1>3, <2>1, <2>2, <2>3, <2>4, EndsOrGoesOn
  <1> QED BY <1>6, <1>7, <1>8, <1>9

LEMMA NextAccountInv == AccountInv /\ [Next]_vars => AccountInv'
  <1> SUFFICES ASSUME AccountInv, [Next]_vars PROVE AccountInv'
    OBVIOUS
  <1>1. TypeOK'
    BY NextTypeOK DEF AccountInv
  <1> SUFFICES ResourceSound' /\ ReconcileSound' /\ AccountHeldByFinalizer'
    BY <1>1 DEF AccountInv
  <1>2. ASSUME NEW s \in SAs, ServiceAccountController(s)
        PROVE  ResourceSound' /\ ReconcileSound' /\ AccountHeldByFinalizer'
    BY <1>2, ReconcileGetSound, UpdatesSound, CallsSound DEF ServiceAccountController
  <1>3. CASE DeleteProject \/ ProjectController
    <2>1. UNCHANGED <<sa, rec>> /\ (zuser' = zuser \/ zuser' = [s \in SAs |-> "none"])
      BY <1>3 DEF DeleteProject, ProjectController, ProjectGet, DeleteOrg, AddProjectFinalizer,
                  RemoveProjectFinalizer, UpdateProject, saVars, zitadelVars
    <2>2. \A s \in SAs : zuser'[s] \in {zuser[s], "none"}
      BY <2>1
    <2> QED BY <2>1, <2>2 DEF AccountInv, ResourceSound, ReconcileSound, AccountHeldByFinalizer,
                              Covered
  <1>4. CASE Restart
    <2>1. UNCHANGED <<sa, zuser>> /\ \A s \in SAs : rec'[s].pc = "idle"
      BY <1>4 DEF Restart, zitadelVars, NotReconciling
    <2> QED BY <2>1 DEF AccountInv, ResourceSound, ReconcileSound, AccountHeldByFinalizer,
                        Provisioning
  <1>5. CASE UNCHANGED vars
    BY <1>5 DEF vars, zitadelVars, saVars, AccountInv, ResourceSound, ReconcileSound,
                AccountHeldByFinalizer, Covered
  <1> QED BY <1>2, <1>3, <1>4, <1>5, EnvironmentSound DEF Next

(* serviceAccountFinalizer: a machine user exists only under an SA that carries the finalizer,
   or one another finalizer keeps, however many accounts are reconciled at once and whatever
   fails, conflicts or restarts on the way. *)
THEOREM NoAccountLeaked == Spec => []AccountHeldByFinalizer
  <1>1. AccountInv => AccountHeldByFinalizer
    BY DEF AccountInv
  <1> QED BY <1>1, InitAccountInv, NextAccountInv, PTL DEF Spec

=============================================================================
