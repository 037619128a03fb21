------------------------ MODULE UserLifecycleProofs ------------------------
(***************************************************************************)
(* Proofs about UserLifecycle, for any set of users, any page size and any *)
(* number of failures.                                                     *)
(***************************************************************************)
EXTENDS UserLifecycle, TLAPS

LEMMA InitTypeOK == Init => TypeOK
  BY DEF Init, TypeOK, UserCR, NoUser, EmailVerification, Row, Reconcile, NotReconciling,
         HookRequest, NoRequest, Sweep, NotSweeping, Collection, NotCollecting

(* A write of a well-formed User keeps the milo side well-formed. *)
LEMMA WriteUserType ==
  ASSUME TypeOK, NEW u \in Users, NEW new \in UserCR, WriteUser(u, new)
  PROVE  cr' \in [Users -> UserCR] /\ queue' \in SUBSET Users /\ rec' \in [Users -> Reconcile]
  BY DEF TypeOK, WriteUser, Reconcile

LEMMA DeleteUserCRType ==
  ASSUME TypeOK, NEW u \in Users, DeleteUserCR(u)
  PROVE  cr' \in [Users -> UserCR] /\ queue' \in SUBSET Users /\ rec' \in [Users -> Reconcile]
  <1>1. NoUser \in UserCR /\ [cr[u] EXCEPT !.phase = "deleting"] \in UserCR
    BY DEF TypeOK, UserCR, NoUser, EmailVerification
  <1>2. CASE Exists(u)
    BY <1>1, <1>2, WriteUserType DEF DeleteUserCR
  <1>3. CASE ~Exists(u)
    BY <1>3 DEF DeleteUserCR, miloVars, TypeOK
  <1> QED BY <1>2, <1>3

LEMMA EnsureUserType ==
  ASSUME TypeOK, NEW u \in Users, EnsureUser(u)
  PROVE  cr' \in [Users -> UserCR] /\ queue' \in SUBSET Users /\ rec' \in [Users -> Reconcile]
  <1>1. NewUser \in UserCR
    BY DEF UserCR, NewUser, EmailVerification
  <1>2. CASE Exists(u)
    BY <1>2 DEF EnsureUser, miloVars, TypeOK
  <1>3. CASE ~Exists(u)
    BY <1>1, <1>3, WriteUserType DEF EnsureUser
  <1> QED BY <1>2, <1>3

LEMMA SetEmailVerifiedType ==
  ASSUME TypeOK, NEW u \in Users, NEW v \in BOOLEAN, NEW a \in Nat,
         SetEmailVerified(u, v, a)
  PROVE  cr' \in [Users -> UserCR] /\ queue' \in SUBSET Users /\ rec' \in [Users -> Reconcile]
  <1>1. [cr[u] EXCEPT !.ev = Desired(v), !.of = IF v THEN a ELSE 0] \in UserCR
    BY DEF TypeOK, UserCR, EmailVerification, Desired
  <1>2. CASE Exists(u) /\ NeedsUpdate(cr[u].ev, v)
    BY <1>1, <1>2, WriteUserType DEF SetEmailVerified
  <1>3. CASE ~(Exists(u) /\ NeedsUpdate(cr[u].ev, v))
    BY <1>3 DEF SetEmailVerified, miloVars, TypeOK
  <1> QED BY <1>2, <1>3

LEMMA RowsType ==
  ASSUME TypeOK, NEW offset \in Nat
  PROVE  Rows(Page(offset)) \in SUBSET Row
  BY DEF TypeOK, Rows, Page, Present, Row, Proof

(* What a collection would have seen of a user leaves it well-formed. *)
LEMMA WitnessType ==
  ASSUME TypeOK, NEW u \in Users, NEW unproven \in BOOLEAN, NEW unlinked \in BOOLEAN,
         Witness(u, unproven, unlinked)
  PROVE  gc' \in Collection
  BY DEF TypeOK, Witness, Collection

LEMMA NotBusyType ==
  /\ NotReconciling \in Reconcile
  /\ NoRequest \in HookRequest
  /\ NotSweeping \in Sweep
  /\ NotCollecting \in Collection
  BY DEF Reconcile, NotReconciling, HookRequest, NoRequest, Sweep, NotSweeping,
         Collection, NotCollecting, EmailVerification

-----------------------------------------------------------------------------
(* Type correctness, one actor at a time *)

LEMMA EnvironmentTypeOK ==
  ASSUME TypeOK, NEW u \in Users, Environment(u)
  PROVE  TypeOK'
  <1>1. ASSUME NEW v \in BOOLEAN, NEW external \in BOOLEAN, SignUp(u, v, external)
        PROVE  TypeOK'
    <2>1. hook' \in [Users -> HookRequest]
      BY <1>1 DEF SignUp, TypeOK, HookRequest
    <2>2. idp' \in SUBSET Users /\ proved' \in SUBSET (Users \X Nat)
      BY <1>1 DEF SignUp, TypeOK
    <2>3. verified' \in [Users -> BOOLEAN] /\ address' \in [Users -> Nat]
      BY <1>1 DEF SignUp, TypeOK
    <2> QED BY <1>1, <2>1, <2>2, <2>3 DEF SignUp, TypeOK, miloVars
  <1>2. CASE VerifyEmail(u)
    <2>1. address[u] \in Nat
      BY DEF TypeOK
    <2>2. verified' \in [Users -> BOOLEAN]
      BY <1>2, Zenon DEF VerifyEmail, TypeOK
    <2>3a. mail' \in SUBSET Row
      <3>1. mail' = mail \cup {[id |-> u, verified |-> TRUE, of |-> address[u]]}
        BY <1>2 DEF VerifyEmail
      <3>2. [id |-> u, verified |-> TRUE, of |-> address[u]] \in Row
        BY <2>1 DEF Row
      <3> QED BY <3>1, <3>2 DEF TypeOK
    <2>3b. proved' \in SUBSET (Users \X Nat)
      BY <1>2, <2>1 DEF VerifyEmail, TypeOK
    <2>3. emailSteps' \in Nat
      BY <1>2 DEF VerifyEmail, TypeOK
    <2>4. UNCHANGED <<zitadel, address, idp, aged, cr, queue, rec, hook, sw, gc, doomed, faults>>
      BY <1>2 DEF VerifyEmail, miloVars
    <2> QED BY <2>2, <2>3, <2>3a, <2>3b, <2>4 DEF TypeOK
  <1>3. CASE ReplaceEmail(u)
    <2>1. address[u] + 1 \in Nat
      BY DEF TypeOK
    <2>2. verified' \in [Users -> BOOLEAN]
      BY <1>3, Zenon DEF ReplaceEmail, TypeOK
    <2>3a. mail' \in SUBSET Row
      <3>1. mail' = mail \cup {[id |-> u, verified |-> FALSE, of |-> address[u] + 1]}
        BY <1>3 DEF ReplaceEmail
      <3>2. [id |-> u, verified |-> FALSE, of |-> address[u] + 1] \in Row
        BY <2>1 DEF Row
      <3> QED BY <3>1, <3>2 DEF TypeOK
    <2>3. emailSteps' \in Nat /\ address' \in [Users -> Nat]
      BY <1>3, <2>1 DEF ReplaceEmail, TypeOK
    <2>4. UNCHANGED <<zitadel, idp, aged, cr, queue, rec, hook, sw, doomed, proved, faults>>
      BY <1>3 DEF ReplaceEmail, miloVars, history
    <2>5. gc' \in Collection
      BY <1>3, WitnessType DEF ReplaceEmail
    <2> QED BY <2>2, <2>3, <2>3a, <2>4, <2>5 DEF TypeOK
  <1>3a. CASE ChangeLinks(u)
    <2>1. gc' \in Collection
      <3>1. Witness(u, FALSE, u \in idp)
        BY <1>3a, Zenon DEF ChangeLinks
      <3> QED BY <3>1 DEF Witness, TypeOK, Collection
    <2>2. idp' \in SUBSET Users
      BY <1>3a DEF ChangeLinks, TypeOK
    <2>3. UNCHANGED <<zitadel, verified, address, aged, cr, queue, rec, hook, mail, sw, doomed,
                      proved, emailSteps, faults>>
      BY <1>3a DEF ChangeLinks, miloVars, hookVars, history
    <2> QED BY <2>1, <2>2, <2>3 DEF TypeOK
  <1>4. CASE Age(u)
    BY <1>4 DEF Age, TypeOK, miloVars, hookVars, history
  <1>5. CASE OperatorDelete(u)
    BY <1>5, DeleteUserCRType DEF OperatorDelete, TypeOK, zitadelVars, hookVars
  <1> QED BY <1>1, <1>2, <1>3, <1>3a, <1>4, <1>5 DEF Environment

LEMMA WebhooksTypeOK ==
  ASSUME TypeOK, NEW u \in Users, Webhooks(u)
  PROVE  TypeOK'
  <1>1. CASE HookCreate(u)
    BY <1>1, EnsureUserType DEF HookCreate, TypeOK, zitadelVars, history, HookRequest
  <1>2. CASE HookSeed(u)
    BY <1>2 DEF HookSeed, Proof, TypeOK, zitadelVars, miloVars, history, HookRequest
  <1>3. CASE HookSet(u)
    <2>1. hook[u].val \in BOOLEAN /\ hook[u].of \in Nat
      BY DEF TypeOK, HookRequest
    <2> QED BY <1>3, <2>1, SetEmailVerifiedType, NotBusyType
            DEF HookSet, TypeOK, zitadelVars, history
  <1>4. CASE HookAbandon(u)
    BY <1>4, NotBusyType DEF HookAbandon, TypeOK, zitadelVars, miloVars, history
  <1>5. CASE HookRedeliver(u)
    BY <1>5 DEF HookRedeliver, Fault, TypeOK, zitadelVars, miloVars, history, HookRequest
  <1>6. ASSUME NEW r \in mail, EmailEvent(r)
        PROVE  TypeOK'
    <2>1. r.id \in Users /\ EventVerified(r) \in BOOLEAN /\ r.of \in Nat
      BY DEF TypeOK, Row, EventVerified
    <2> QED BY <1>6, <2>1, SetEmailVerifiedType
            DEF EmailEvent, Fault, NoFault, TypeOK, zitadelVars, history
  <1> QED BY <1>1, <1>2, <1>3, <1>4, <1>5, <1>6 DEF Webhooks

LEMMA UserControllerTypeOK ==
  ASSUME TypeOK, NEW u \in Users, UserController(u)
  PROVE  TypeOK'
  <1> USE DEF TypeOK, hookVars, history, zitadelVars
  <1>1. CASE ReconcileGet(u)
    <2>1. rec' \in [Users -> Reconcile]
      BY <1>1 DEF ReconcileGet, Reconcile, NotReconciling
    <2> QED BY <1>1, <2>1 DEF ReconcileGet
  <1>2. CASE AddFinalizer(u)
    <2>1. [cr EXCEPT ![u].fin = TRUE] \in [Users -> UserCR]
      BY DEF UserCR
    <2>2. cr' \in [Users -> UserCR]
      BY <1>2, <2>1 DEF AddFinalizer
    <2>3. Requeue(u) /\ (Fault \/ NoFault)
      BY <1>2 DEF AddFinalizer
    <2> QED BY <1>2, <2>2, <2>3, NotBusyType DEF AddFinalizer, Requeue, EndRec, Fault, NoFault
  <1>3. CASE FinalizeGet(u)
    <2>1. [rec EXCEPT ![u].pc = AfterGetUser(u)] \in [Users -> Reconcile]
      BY DEF Reconcile, AfterGetUser
    <2> QED BY <1>3, <2>1, NotBusyType DEF FinalizeGet, SetRec, Requeue, EndRec, Fault, NoFault
  <1>4. CASE FinalizeDelete(u)
    <2>1. [rec EXCEPT ![u].pc = "removeFinalizer"] \in [Users -> Reconcile]
      BY DEF Reconcile
    <2>2. [zitadel EXCEPT ![u] = "deleted"] \in [Users -> {"never", "present", "deleted"}]
      OBVIOUS
    <2> QED BY <1>4, <2>1, <2>2, NotBusyType
            DEF FinalizeDelete, SetRec, Requeue, EndRec, Fault, NoFault
  <1>5. CASE RemoveFinalizer(u)
    <2>1. NoUser \in UserCR
      BY DEF UserCR, NoUser, EmailVerification
    <2> QED BY <1>5, <2>1, NotBusyType DEF RemoveFinalizer, Requeue, EndRec, Fault, NoFault
  <1> QED BY <1>1, <1>2, <1>3, <1>4, <1>5 DEF UserController

LEMMA UserSweeperTypeOK ==
  ASSUME TypeOK, UserSweeper
  PROVE  TypeOK'
  <1> USE DEF TypeOK, hookVars, history, zitadelVars
  <1>1. CASE SweepStart
    <2>1. sw' \in Sweep
      BY <1>1 DEF SweepStart, Sweep, NotSweeping, UserCR
    <2> QED BY <1>1, <2>1 DEF SweepStart, miloVars
  <1>2. CASE SweepList
    <2>1. sw.offset \in Nat
      BY DEF Sweep
    <2>2. Rows(Page(sw.offset)) \in SUBSET Row
      BY <2>1, RowsType
    <2>3. IsFull(Page(sw.offset)) \in BOOLEAN
      BY DEF IsFull
    <2>4. [sw EXCEPT !.pc = "rows", !.rows = Rows(Page(sw.offset)),
                     !.full = IsFull(Page(sw.offset))] \in Sweep
      BY <2>2, <2>3 DEF Sweep
    <2> QED BY <1>2, <2>4, NotBusyType DEF SweepList, miloVars, Fault, NoFault
  <1>3. CASE SweepExisting
    <2>1. PICK r \in sw.rows :
            /\ sw' = [sw EXCEPT !.rows = @ \ {r}]
            /\ \/ SetEmailVerified(r.id, r.verified, r.of)
               \/ UNCHANGED miloVars
            /\ Fault \/ NoFault
      BY <1>3 DEF SweepExisting
    <2>2. r.id \in Users /\ r.verified \in BOOLEAN /\ r.of \in Nat /\ sw' \in Sweep
      BY <2>1 DEF Sweep, Row
    <2> QED BY <1>3, <2>1, <2>2, SetEmailVerifiedType
            DEF SweepExisting, miloVars, Fault, NoFault
  <1>4. CASE SweepMissing
    <2>1. PICK r \in sw.rows :
            \/ EnsureUser(r.id) /\ sw' = [sw EXCEPT !.rows = @ \ {r}] /\ NoFault
            \/ UNCHANGED miloVars /\ sw' = NotSweeping /\ Fault
      BY <1>4 DEF SweepMissing
    <2>2. r.id \in Users /\ sw' \in Sweep
      BY <2>1, NotBusyType DEF Sweep, Row
    <2> QED BY <1>4, <2>1, <2>2, EnsureUserType DEF SweepMissing, miloVars, Fault, NoFault
  <1>5. CASE SweepNextPage
    <2>1. sw.offset + PageSize \in Nat
      BY PageSizeAssumption DEF Sweep
    <2>2. [sw EXCEPT !.pc = "list", !.offset = @ + PageSize] \in Sweep
      BY <2>1 DEF Sweep
    <2>3. sw' \in Sweep
      BY <1>5, <2>2, NotBusyType DEF SweepNextPage
    <2> QED BY <1>5, <2>3 DEF SweepNextPage, miloVars
  <1> QED BY <1>1, <1>2, <1>3, <1>4, <1>5 DEF UserSweeper

LEMMA AbandonedUserGCTypeOK ==
  ASSUME TypeOK, AbandonedUserGC
  PROVE  TypeOK'
  <1> USE DEF TypeOK, hookVars, history, zitadelVars
  <1>1. CASE CollectStart
    <2>1. gc' \in Collection
      BY <1>1 DEF CollectStart, Collection, NotCollecting
    <2> QED BY <1>1, <2>1 DEF CollectStart, miloVars
  <1>2. CASE CollectList
    <2>1. gc.offset \in Nat
      BY DEF Collection
    <2>2. Rows(Page(gc.offset)) \in SUBSET Row
      BY <2>1, RowsType
    <2>3. IsFull(Page(gc.offset)) \in BOOLEAN
      BY DEF IsFull
    <2>4. [gc EXCEPT !.pc = "rows", !.rows = Rows(Page(gc.offset)),
                     !.full = IsFull(Page(gc.offset))] \in Collection
      BY <2>2, <2>3 DEF Collection
    <2> QED BY <1>2, <2>4, NotBusyType DEF CollectList, miloVars, Fault, NoFault
  <1>3. CASE CollectExamine
    <2>1. PICK r \in gc.rows :
            /\ gc' = Collect(gc) \/ gc' = [gc EXCEPT !.rows = @ \ {r}]
            /\ Fault \/ NoFault
      BY <1>3 DEF CollectExamine
    <2>2. gc' \in Collection
      BY <2>1 DEF Collection, Collect
    <2> QED BY <1>3, <2>1, <2>2 DEF CollectExamine, miloVars, Fault, NoFault
  <1>4. CASE CollectZitadel
    <2>1. PICK r \in gc.rows :
            /\ zitadel' \in {zitadel, [zitadel EXCEPT ![r.id] = "deleted"]}
            /\ \/ gc' = [gc EXCEPT !.pc = "deleteMilo"]
               \/ gc' = [gc EXCEPT !.pc = "rows", !.rows = @ \ {r}]
            /\ Fault \/ NoFault
      BY <1>4 DEF CollectZitadel
    <2>2. r.id \in Users /\ gc.rows \ {r} \in SUBSET Row
      BY DEF Collection, Row
    <2>3. gc' \in Collection
      BY <2>1, <2>2 DEF Collection
    <2> QED BY <1>4, <2>3, <2>1, <2>2 DEF CollectZitadel, miloVars, Fault, NoFault
  <1>5. CASE CollectMilo
    <2>1. PICK r \in gc.rows :
            /\ gc' = [gc EXCEPT !.pc = "rows", !.rows = @ \ {r}]
            /\ DeleteUserCR(r.id) \/ UNCHANGED miloVars
            /\ Fault \/ NoFault
      BY <1>5 DEF CollectMilo
    <2>2. r.id \in Users /\ gc' \in Collection
      BY <2>1 DEF Collection, Row
    <2> QED BY <1>5, <2>1, <2>2, DeleteUserCRType DEF CollectMilo, miloVars, Fault, NoFault
  <1>6. CASE CollectNextPage
    <2>1. gc.offset + PageSize \in Nat
      BY PageSizeAssumption DEF Collection
    <2>2. [gc EXCEPT !.pc = "list", !.offset = @ + PageSize] \in Collection
      BY <2>1 DEF Collection
    <2>3. gc' \in Collection
      BY <1>6, <2>2, NotBusyType DEF CollectNextPage
    <2> QED BY <1>6, <2>3 DEF CollectNextPage, miloVars
  <1> QED BY <1>1, <1>2, <1>3, <1>4, <1>5, <1>6 DEF AbandonedUserGC

LEMMA NextTypeOK == TypeOK /\ [Next]_vars => TypeOK'
  <1> SUFFICES ASSUME TypeOK, [Next]_vars PROVE TypeOK'
    OBVIOUS
  <1>1. ASSUME NEW u \in Users, Environment(u) \/ Webhooks(u) \/ UserController(u)
        PROVE  TypeOK'
    BY <1>1, EnvironmentTypeOK, WebhooksTypeOK, UserControllerTypeOK
  <1>2. CASE Restart
    BY <1>2, NotBusyType DEF Restart, TypeOK, Fault, zitadelVars, hookVars, history
  <1>3. CASE UNCHANGED vars
    BY <1>3 DEF vars, TypeOK, zitadelVars, miloVars, hookVars, history
  <1> QED BY <1>1, <1>2, <1>3, UserSweeperTypeOK, AbandonedUserGCTypeOK DEF Next

(* Every reachable state is well-formed, whatever the interleaving of the     *)
(* controller, the sweepers and the webhooks.                                 *)
THEOREM TypeCorrect == Spec => []TypeOK
  BY InitTypeOK, NextTypeOK, PTL DEF Spec

-----------------------------------------------------------------------------
(* Deletion: the inductive invariant                                         *)
(*                                                                           *)
(* The two safety invariants about deletion are not inductive: they say      *)
(* nothing of a reconcile or a collection that already made its checks.      *)
(* DeletionInv adds what those checks established and why it still holds.    *)

\* Only accounts that exist in Zitadel, or did, reach the other actors.
Registered ==
    /\ \A u \in Users : Exists(u) \/ hook[u].pc = "pending" => zitadel[u] # "never"
    /\ \A r \in sw.rows : zitadel[r.id] # "never"
    /\ \A r \in gc.rows : zitadel[r.id] # "never"
    /\ \A u \in aged : zitadel[u] # "never"

\* A deleting User carries the finalizer, only its reconcile can remove it, and
\* that reconcile gets there only with the Zitadel user gone.
ReconcileSound ==
    \A u \in Users :
        /\ cr[u].fin => Exists(u)
        /\ cr[u].phase = "deleting" => cr[u].fin
        /\ rec[u].pc = "addFinalizer" /\ rec[u].fresh => cr[u].phase = "live"
        /\ rec[u].pc \in {"getUser", "deleteUser", "removeFinalizer"} => cr[u].phase = "deleting"
        /\ rec[u].pc = "removeFinalizer" => zitadel[u] = "deleted"

\* The rows of a collection and the account it is about to delete are what they were
\* at some time since it began.
CollectionSound ==
    /\ gc.cutoff \subseteq aged
    /\ gc.pc # "idle" => GCEnabled
    /\ \A u \in gc.cutoff : /\ verified[u] = FALSE => u \in gc.unproven
                            /\ u \notin idp => u \in gc.unlinked
    /\ \A r \in gc.rows : r.verified = FALSE /\ r.id \in gc.cutoff => r.id \in gc.unproven
    /\ \A r \in gc.rows : IsFirst(r, gc.rows) =>
          /\ gc.pc = "deleteZitadel" =>
                ~DryRun /\ r.id \in (gc.cutoff \cap gc.unproven \cap gc.unlinked) \ Undated
          /\ gc.pc = "deleteMilo" => zitadel[r.id] = "deleted"

DeletionInv ==
    /\ TypeOK
    /\ Registered
    /\ ReconcileSound
    /\ CollectionSound
    /\ MiloDeletedAfterZitadel

\* What AccountGoneOnlyWithCause says of one step
GoesWithCause ==
    \A u \in Users : zitadel[u] = "present" /\ zitadel'[u] = "deleted" =>
        \/ u \in doomed
        \/ /\ GCEnabled /\ ~DryRun
           /\ u \in gc.cutoff \ Undated
           /\ u \in gc.unproven \cap gc.unlinked

\* What any write by an actor other than the reconcile leaves intact.
Tame ==
    \A w \in Users :
        /\ rec'[w].pc = rec[w].pc
        /\ rec'[w].fresh => rec[w].fresh /\ cr'[w] = cr[w]
        /\ cr[w].phase = "deleting" => cr'[w].phase = "deleting"
        /\ cr'[w].fin = cr[w].fin
        /\ cr[w].fin => cr'[w].phase # "absent"
        /\ cr'[w].phase = "deleting" => cr'[w].fin

LEMMA WriteUserEffect ==
  ASSUME TypeOK, NEW u \in Users, NEW new \in UserCR, WriteUser(u, new), NEW w \in Users
  PROVE  /\ rec'[w].pc = rec[w].pc
         /\ w = u => cr'[w] = new /\ rec'[w].fresh = FALSE
         /\ w # u => cr'[w] = cr[w] /\ rec'[w] = rec[w]
  BY DEF TypeOK, WriteUser, Reconcile

LEMMA NoWriteTame ==
  ASSUME ReconcileSound, UNCHANGED miloVars
  PROVE  Tame
  BY DEF ReconcileSound, Tame, Exists, miloVars

LEMMA DeleteUserCRTame ==
  ASSUME TypeOK, ReconcileSound, NEW u \in Users, DeleteUserCR(u)
  PROVE  /\ Tame
         /\ \A w \in Users : cr'[w].phase # "absent" => Exists(w)
         /\ \A w \in Users : w # u => cr'[w] = cr[w]
  <1>1. CASE ~Exists(u)
    <2>1. UNCHANGED miloVars
      BY <1>1 DEF DeleteUserCR
    <2> QED BY <2>1, NoWriteTame DEF miloVars, Exists
  <1>2. CASE Exists(u)
    <2> DEFINE new == IF cr[u].fin THEN [cr[u] EXCEPT !.phase = "deleting"] ELSE NoUser
    <2>1. WriteUser(u, new)
      BY <1>2 DEF DeleteUserCR
    <2>2. new \in UserCR
      BY DEF TypeOK, UserCR, NoUser, EmailVerification
    <2>3. /\ new.fin = cr[u].fin
          /\ cr[u].fin => new.phase = "deleting"
          /\ ~cr[u].fin => new.phase = "absent"
      BY DEF TypeOK, UserCR, NoUser
    <2> HIDE DEF new
    <2>4. \A w \in Users :
            /\ rec'[w].pc = rec[w].pc
            /\ w = u => cr'[w] = new /\ rec'[w].fresh = FALSE
            /\ w # u => cr'[w] = cr[w] /\ rec'[w] = rec[w]
      BY <2>1, <2>2, WriteUserEffect
    <2> QED BY <1>2, <2>3, <2>4 DEF ReconcileSound, Exists, Tame
  <1> QED BY <1>1, <1>2

LEMMA EnsureUserTame ==
  ASSUME TypeOK, ReconcileSound, NEW u \in Users, EnsureUser(u)
  PROVE  /\ Tame
         /\ \A w \in Users : cr'[w].phase = "deleting" => cr[w].phase = "deleting"
         /\ \A w \in Users : w # u => cr'[w] = cr[w]
  <1>1. CASE Exists(u)
    <2>1. UNCHANGED miloVars
      BY <1>1 DEF EnsureUser
    <2> QED BY <2>1, NoWriteTame DEF miloVars
  <1>2. CASE ~Exists(u)
    <2>1. WriteUser(u, NewUser)
      BY <1>2 DEF EnsureUser
    <2>2. NewUser \in UserCR /\ NewUser.fin = FALSE /\ NewUser.phase = "live"
      BY DEF UserCR, NewUser, EmailVerification
    <2>3. \A w \in Users :
            /\ rec'[w].pc = rec[w].pc
            /\ w = u => cr'[w] = NewUser /\ rec'[w].fresh = FALSE
            /\ w # u => cr'[w] = cr[w] /\ rec'[w] = rec[w]
      BY <2>1, <2>2, WriteUserEffect
    <2>4. cr[u].fin = FALSE
      BY <1>2 DEF ReconcileSound, TypeOK, UserCR
    <2> QED BY <1>2, <2>2, <2>3, <2>4 DEF ReconcileSound, Exists, Tame
  <1> QED BY <1>1, <1>2

LEMMA SetEmailVerifiedTame ==
  ASSUME TypeOK, ReconcileSound, NEW u \in Users, NEW v \in BOOLEAN, NEW a \in Nat,
         SetEmailVerified(u, v, a)
  PROVE  Tame /\ \A w \in Users : cr'[w].phase = cr[w].phase
  <1>1. CASE ~(Exists(u) /\ NeedsUpdate(cr[u].ev, v))
    <2>1. UNCHANGED miloVars
      BY <1>1 DEF SetEmailVerified
    <2> QED BY <2>1, NoWriteTame DEF miloVars
  <1>2. CASE Exists(u) /\ NeedsUpdate(cr[u].ev, v)
    <2> DEFINE new == [cr[u] EXCEPT !.ev = Desired(v), !.of = IF v THEN a ELSE 0]
    <2>1. WriteUser(u, new)
      BY <1>2 DEF SetEmailVerified
    <2>2. new \in UserCR /\ new.fin = cr[u].fin /\ new.phase = cr[u].phase
      BY DEF TypeOK, UserCR, EmailVerification, Desired
    <2> HIDE DEF new
    <2>3. \A w \in Users :
            /\ rec'[w].pc = rec[w].pc
            /\ w = u => cr'[w] = new /\ rec'[w].fresh = FALSE
            /\ w # u => cr'[w] = cr[w] /\ rec'[w] = rec[w]
      BY <2>1, <2>2, WriteUserEffect
    <2> QED BY <1>2, <2>2, <2>3 DEF ReconcileSound, Exists, Tame
  <1> QED BY <1>1, <1>2

LEMMA TameKeepsReconcileSound ==
  ASSUME ReconcileSound, Tame, UNCHANGED zitadel
  PROVE  ReconcileSound'
  BY DEF ReconcileSound, Tame, Exists

(* A witness keeps what the collection knows, and adds to it what the step makes true. *)
LEMMA WitnessSound ==
  ASSUME TypeOK, CollectionSound, NEW u \in Users, NEW unproven \in BOOLEAN, NEW unlinked \in BOOLEAN,
         Witness(u, unproven, unlinked), UNCHANGED <<zitadel, aged>>,
         verified' \in [Users -> BOOLEAN],
         \A w \in Users : /\ w # u => verified'[w] = verified[w] /\ (w \in idp' <=> w \in idp)
                          /\ verified'[w] = FALSE => verified[w] = FALSE \/ unproven
                          /\ w \notin idp' => w \notin idp \/ unlinked
  PROVE  CollectionSound' /\ gc'.rows = gc.rows /\ gc'.pc = gc.pc
  <1>1. /\ gc'.rows = gc.rows /\ gc'.pc = gc.pc /\ gc'.cutoff = gc.cutoff
        /\ gc.unproven \subseteq gc'.unproven /\ gc.unlinked \subseteq gc'.unlinked
        /\ u \in gc.cutoff /\ unproven => u \in gc'.unproven
        /\ u \in gc.cutoff /\ unlinked => u \in gc'.unlinked
    BY DEF Witness, TypeOK, Collection
  <1>2. gc.cutoff \subseteq Users /\ \A r \in gc.rows : r.id \in Users
    BY DEF TypeOK, Collection, Row
  <1>3. \A w \in gc'.cutoff : /\ verified'[w] = FALSE => w \in gc'.unproven
                              /\ w \notin idp' => w \in gc'.unlinked
    BY <1>1, <1>2 DEF CollectionSound
  <1>4. \A r \in gc'.rows : r.verified = FALSE /\ r.id \in gc'.cutoff => r.id \in gc'.unproven
    BY <1>1 DEF CollectionSound
  <1>5. \A r \in gc'.rows : IsFirst(r, gc'.rows) => IsFirst(r, gc.rows)
    BY <1>1
  <1> QED BY <1>1, <1>3, <1>4, <1>5 DEF CollectionSound

LEMMA EnvironmentDeletion ==
  ASSUME DeletionInv, TypeOK', NEW u \in Users, Environment(u)
  PROVE  DeletionInv'
  <1> USE DEF DeletionInv
  <1>1. ASSUME NEW v \in BOOLEAN, NEW external \in BOOLEAN, SignUp(u, v, external)
        PROVE  DeletionInv'
    <2>1. /\ zitadel[u] = "never"
          /\ zitadel' = [zitadel EXCEPT ![u] = "present"]
          /\ verified' = [verified EXCEPT ![u] = v]
          /\ idp \subseteq idp' \cup {u}
          /\ hook' = [hook EXCEPT ![u].pc = "pending"]
          /\ UNCHANGED <<aged, cr, queue, rec, sw, gc, doomed>>
      BY <1>1 DEF SignUp, miloVars
    <2>2. Registered'
      BY <2>1 DEF Registered, Exists, TypeOK, Sweep, Collection, Row, HookRequest
    <2>3. ReconcileSound'
      BY <2>1 DEF ReconcileSound, Exists, TypeOK
    <2>4. u \notin gc.cutoff /\ gc.cutoff \subseteq Users /\ \A r \in gc.rows : r.id # u /\ r.id \in Users
      BY <2>1 DEF Registered, CollectionSound, TypeOK, Collection, Row
    <2>5. \A w \in gc.cutoff : verified'[w] = verified[w] /\ (w \notin idp' => w \notin idp)
      BY <2>1, <2>4 DEF TypeOK
    <2>6. \A r \in gc.rows : zitadel'[r.id] = zitadel[r.id]
      BY <2>1, <2>4 DEF TypeOK
    <2>7. CollectionSound'
      BY <2>1, <2>5, <2>6 DEF CollectionSound, IsFirst
    <2> QED BY <2>1, <2>2, <2>3, <2>7 DEF MiloDeletedAfterZitadel, TypeOK
  <1>2. CASE VerifyEmail(u)
    <2>1. /\ verified' = [verified EXCEPT ![u] = TRUE]
          /\ UNCHANGED <<zitadel, idp, aged, cr, queue, rec, hook, sw, gc, doomed>>
      BY <1>2 DEF VerifyEmail, miloVars
    <2>2. \A w \in gc.cutoff : verified'[w] = FALSE => verified[w] = FALSE
      BY <2>1 DEF TypeOK, Collection
    <2>3. CollectionSound'
      BY <2>1, <2>2 DEF CollectionSound, IsFirst
    <2> QED BY <2>1, <2>3 DEF Registered, ReconcileSound, Exists, MiloDeletedAfterZitadel
  <1>3. CASE ReplaceEmail(u) \/ ChangeLinks(u)
    <2>1. UNCHANGED <<zitadel, aged, cr, queue, rec, hook, sw, doomed>>
      BY <1>3 DEF ReplaceEmail, ChangeLinks, miloVars, hookVars, history
    <2>2. CollectionSound' /\ gc'.rows = gc.rows /\ gc'.pc = gc.pc
      <3>0. verified' \in [Users -> BOOLEAN]
        BY DEF TypeOK
      <3>1. CASE ReplaceEmail(u)
        <4>1. /\ verified' = [verified EXCEPT ![u] = FALSE] /\ idp' = idp
              /\ Witness(u, TRUE, FALSE)
          BY <3>1 DEF ReplaceEmail
        <4>2. \A w \in Users : w # u => verified'[w] = verified[w]
          BY <4>1 DEF TypeOK
        <4> QED BY <2>1, <3>0, <4>1, <4>2, WitnessSound
      <3>2. CASE ChangeLinks(u)
        <4>1. /\ verified' = verified
              /\ idp' = IF u \in idp THEN idp \ {u} ELSE idp \cup {u}
              /\ Witness(u, FALSE, u \in idp)
          BY <3>2 DEF ChangeLinks
        <4>2. \A w \in Users : /\ w # u => (w \in idp' <=> w \in idp)
                               /\ w \notin idp' => w \notin idp \/ u \in idp
          BY <4>1
        <4>3. (u \in idp) \in BOOLEAN
          OBVIOUS
        <4> QED BY <2>1, <3>0, <4>1, <4>2, <4>3, WitnessSound
      <3> QED BY <1>3, <3>1, <3>2
    <2> QED BY <2>1, <2>2 DEF Registered, ReconcileSound, Exists, MiloDeletedAfterZitadel
  <1>3a. CASE Age(u)
    <2>1. /\ aged' = aged \cup {u} /\ zitadel[u] = "present"
          /\ UNCHANGED <<zitadel, verified, idp, cr, queue, rec, hook, sw, gc, doomed>>
      BY <1>3a DEF Age, miloVars, hookVars, history
    <2> QED BY <2>1 DEF Registered, ReconcileSound, CollectionSound, Exists, IsFirst,
                        MiloDeletedAfterZitadel
  <1>4. CASE OperatorDelete(u)
    <2>1. /\ DeleteUserCR(u) /\ doomed' = doomed \cup {u}
          /\ UNCHANGED <<zitadel, verified, idp, aged, hook, sw, gc>>
      BY <1>4 DEF OperatorDelete, zitadelVars, hookVars
    <2>2. /\ Tame
          /\ \A w \in Users : cr'[w].phase # "absent" => Exists(w)
          /\ \A w \in Users : w # u => cr'[w] = cr[w]
      BY <2>1, DeleteUserCRTame
    <2>3. ReconcileSound'
      BY <2>1, <2>2, TameKeepsReconcileSound
    <2>4. Registered' /\ CollectionSound'
      BY <2>1, <2>2 DEF Registered, CollectionSound, Exists, IsFirst
    <2>5. MiloDeletedAfterZitadel'
      BY <2>1, <2>2 DEF MiloDeletedAfterZitadel
    <2> QED BY <2>3, <2>4, <2>5
  <1> QED BY <1>1, <1>2, <1>3, <1>3a, <1>4 DEF Environment

LEMMA WebhooksDeletion ==
  ASSUME DeletionInv, TypeOK', NEW u \in Users, Webhooks(u)
  PROVE  DeletionInv'
  <1> USE DEF DeletionInv
  <1>1. CASE HookCreate(u)
    <2>1. /\ hook[u].pc = "pending" /\ EnsureUser(u)
          /\ \A w \in Users : hook'[w].pc = "pending" => hook[w].pc = "pending"
          /\ UNCHANGED <<zitadel, verified, idp, aged, sw, gc, doomed>>
      BY <1>1 DEF HookCreate, zitadelVars, history, TypeOK, HookRequest
    <2>2. /\ Tame
          /\ \A w \in Users : cr'[w].phase = "deleting" => cr[w].phase = "deleting"
          /\ \A w \in Users : w # u => cr'[w] = cr[w]
      BY <2>1, EnsureUserTame
    <2>3. ReconcileSound'
      BY <2>1, <2>2, TameKeepsReconcileSound
    <2>4. Registered' /\ CollectionSound'
      BY <2>1, <2>2 DEF Registered, CollectionSound, Exists, IsFirst
    <2> QED BY <2>1, <2>2, <2>3, <2>4 DEF MiloDeletedAfterZitadel
  <1>2. CASE HookSeed(u) \/ HookAbandon(u) \/ HookRedeliver(u)
    <2>1. /\ \A w \in Users : hook'[w].pc = "pending" => hook[w].pc = "pending" \/ zitadel[w] # "never"
          /\ UNCHANGED <<zitadel, verified, idp, aged, cr, queue, rec, sw, gc, doomed>>
      BY <1>2 DEF HookSeed, HookAbandon, HookRedeliver, zitadelVars, miloVars, history, TypeOK,
                  HookRequest, NoRequest
    <2> QED BY <2>1 DEF Registered, ReconcileSound, CollectionSound, Exists, IsFirst,
                        MiloDeletedAfterZitadel
  <1>3. ASSUME NEW w \in Users, NEW v \in BOOLEAN, NEW a \in Nat, SetEmailVerified(w, v, a),
               \A x \in Users : hook'[x].pc = "pending" => hook[x].pc = "pending",
               UNCHANGED <<zitadel, verified, idp, aged, sw, gc, doomed>>
        PROVE  DeletionInv'
    <2>1. Tame /\ \A x \in Users : cr'[x].phase = cr[x].phase
      BY <1>3, SetEmailVerifiedTame
    <2>2. ReconcileSound'
      BY <1>3, <2>1, TameKeepsReconcileSound
    <2> QED BY <1>3, <2>1, <2>2 DEF Registered, CollectionSound, Exists, IsFirst,
                                    MiloDeletedAfterZitadel
  <1>4. CASE HookSet(u)
    <2>1. hook[u].val \in BOOLEAN /\ hook[u].of \in Nat
      BY DEF TypeOK, HookRequest
    <2>2. \A x \in Users : hook'[x].pc = "pending" => hook[x].pc = "pending"
      BY <1>4 DEF HookSet, TypeOK, HookRequest, NoRequest
    <2> QED BY <1>3, <1>4, <2>1, <2>2 DEF HookSet, zitadelVars, history
  <1>5. ASSUME NEW r \in mail, EmailEvent(r)
        PROVE  DeletionInv'
    <2>1. r.id \in Users /\ EventVerified(r) \in BOOLEAN /\ r.of \in Nat
      BY DEF TypeOK, Row, EventVerified
    <2> QED BY <1>3, <1>5, <2>1 DEF EmailEvent, zitadelVars, history
  <1> QED BY <1>1, <1>2, <1>4, <1>5 DEF Webhooks

LEMMA UserControllerDeletion ==
  ASSUME DeletionInv, TypeOK', NEW u \in Users, UserController(u)
  PROVE  DeletionInv' /\ \A w \in Users : cr[w].fin /\ cr'[w].phase = "absent" => zitadel[w] = "deleted"
  <1> USE DEF DeletionInv
  <1>1. CASE ReconcileGet(u) \/ FinalizeGet(u)
    <2>1. UNCHANGED <<zitadel, verified, idp, aged, cr, hook, sw, gc, doomed>>
      BY <1>1 DEF ReconcileGet, FinalizeGet, zitadelVars, hookVars, history
    <2>2. ReconcileSound'
      <3>1. CASE ReconcileGet(u)
        BY <2>1, <3>1 DEF ReconcileGet, ReconcileSound, Exists, TypeOK, Reconcile, NotReconciling
      <3>2. CASE FinalizeGet(u)
        <4>1. cr[u].phase = "deleting" /\ zitadel[u] # "never"
          BY <3>2 DEF FinalizeGet, ReconcileSound, Registered, Exists
        <4>2. zitadel[u] # "present" => zitadel[u] = "deleted"
          BY <4>1 DEF TypeOK
        <4> QED BY <2>1, <3>2, <4>1, <4>2
                DEF FinalizeGet, AfterGetUser, SetRec, Requeue, EndRec, ReconcileSound, Exists,
                    TypeOK, Reconcile, NotReconciling
      <3> QED BY <1>1, <3>1, <3>2
    <2> QED BY <2>1, <2>2 DEF Registered, ReconcileSound, CollectionSound, Exists, IsFirst,
                              MiloDeletedAfterZitadel
  <1>2. CASE AddFinalizer(u)
    <2>1. UNCHANGED <<zitadel, verified, idp, aged, hook, sw, gc, doomed>>
      BY <1>2 DEF AddFinalizer, zitadelVars, hookVars, history
    <2>2. rec' = [rec EXCEPT ![u] = NotReconciling]
      BY <1>2 DEF AddFinalizer, Requeue, EndRec
    <2>3. CASE cr' = cr
      <3>1. ReconcileSound'
        BY <2>1, <2>2, <2>3 DEF ReconcileSound, Exists, TypeOK, Reconcile, NotReconciling
      <3> QED BY <2>1, <2>3, <3>1 DEF Registered, ReconcileSound, CollectionSound, Exists, IsFirst,
                                MiloDeletedAfterZitadel
    <2>4. CASE cr' = [cr EXCEPT ![u].fin = TRUE] /\ cr[u].phase = "live"
      <3> DEFINE new == [cr[u] EXCEPT !.fin = TRUE]
      <3>1. new.fin = TRUE /\ new.phase = "live"
        BY <2>4 DEF TypeOK, UserCR
      <3>2. cr' = [cr EXCEPT ![u] = new]
        BY <2>4
      <3> HIDE DEF new
      <3>3. \A w \in Users : /\ w = u => cr'[w] = new /\ rec'[w] = NotReconciling
                             /\ w # u => cr'[w] = cr[w] /\ rec'[w] = rec[w]
        BY <2>2, <3>2 DEF TypeOK
      <3>4. \A w \in Users : cr'[w].phase = cr[w].phase
        BY <2>4, <3>1, <3>3
      <3>5. ReconcileSound'
        BY <2>1, <3>1, <3>3 DEF ReconcileSound, Exists, NotReconciling
      <3>6. Registered' /\ CollectionSound'
        BY <2>1, <3>4 DEF Registered, CollectionSound, Exists, IsFirst
      <3>7. MiloDeletedAfterZitadel'
        BY <2>1, <3>4 DEF MiloDeletedAfterZitadel
      <3>8. \A w \in Users : cr[w].fin => cr[w].phase # "absent"
        BY DEF ReconcileSound, Exists
      <3>9. \A w \in Users : cr[w].fin /\ cr'[w].phase = "absent" => zitadel[w] = "deleted"
        BY <3>4, <3>8
      <3> QED BY <3>5, <3>6, <3>7, <3>9
    <2> QED BY <1>2, <2>3, <2>4 DEF AddFinalizer, ReconcileSound
  <1>3. CASE FinalizeDelete(u)
    <2>1. UNCHANGED <<verified, idp, aged, cr, hook, sw, gc, doomed>>
      BY <1>3 DEF FinalizeDelete, hookVars, history
    <2>2. cr[u].phase = "deleting"
      BY <1>3 DEF FinalizeDelete, ReconcileSound
    <2>3. zitadel' = zitadel \/ zitadel' = [zitadel EXCEPT ![u] = "deleted"]
      BY <1>3 DEF FinalizeDelete
    <2>4. \/ rec' = [rec EXCEPT ![u] = NotReconciling]
          \/ rec' = [rec EXCEPT ![u].pc = "removeFinalizer"] /\ zitadel' = [zitadel EXCEPT ![u] = "deleted"]
      BY <1>3 DEF FinalizeDelete, Requeue, EndRec, SetRec
    <2>5. ReconcileSound'
      BY <2>1, <2>2, <2>3, <2>4 DEF ReconcileSound, Exists, TypeOK, Reconcile, NotReconciling
    <2>6. Registered' /\ CollectionSound'
      BY <2>1, <2>3 DEF Registered, CollectionSound, Exists, IsFirst, TypeOK, Sweep, Collection, Row
    <2>7. MiloDeletedAfterZitadel'
      BY <2>1, <2>2, <2>3 DEF MiloDeletedAfterZitadel, TypeOK
    <2> QED BY <2>1, <2>5, <2>6, <2>7 DEF ReconcileSound, Exists
  <1>4. CASE RemoveFinalizer(u)
    <2>1. UNCHANGED <<zitadel, verified, idp, aged, hook, sw, gc, doomed>>
      BY <1>4 DEF RemoveFinalizer, zitadelVars, hookVars, history
    <2>2. /\ rec' = [rec EXCEPT ![u] = NotReconciling]
          /\ cr' = [cr EXCEPT ![u] = NoUser] \/ cr' = cr
          /\ zitadel[u] = "deleted"
      BY <1>4 DEF RemoveFinalizer, Requeue, EndRec, ReconcileSound
    <2>3. ReconcileSound'
      BY <2>1, <2>2 DEF ReconcileSound, Exists, TypeOK, Reconcile, NotReconciling, NoUser
    <2> QED BY <2>1, <2>2, <2>3
            DEF Registered, ReconcileSound, CollectionSound, Exists, IsFirst, TypeOK, NoUser,
                MiloDeletedAfterZitadel
  <1> QED BY <1>1, <1>2, <1>3, <1>4 DEF UserController

\* A page lists users that Zitadel holds.
LEMMA RowsRegistered ==
  ASSUME NEW offset
  PROVE  \A r \in Rows(Page(offset)) : zitadel[r.id] # "never"
  BY DEF Rows, Page, Present

LEMMA UserSweeperDeletion ==
  ASSUME DeletionInv, TypeOK', UserSweeper
  PROVE  DeletionInv' /\ Tame
  <1> USE DEF DeletionInv
  <1>1. CASE SweepStart \/ SweepList \/ SweepNextPage
    <2>1. UNCHANGED <<zitadel, verified, idp, aged, miloVars, hook, gc, doomed>>
      BY <1>1 DEF SweepStart, SweepList, SweepNextPage, zitadelVars, hookVars, history
    <2>2. Tame
      BY <2>1, NoWriteTame
    <2>3. \A r \in sw'.rows : zitadel[r.id] # "never"
      <3>1. CASE sw'.rows = {}
        BY <3>1
      <3>2. CASE SweepStart \/ SweepNextPage
        <4>1. sw'.rows = {} \/ sw'.rows = sw.rows
          <5>1. CASE SweepStart
            BY <5>1 DEF SweepStart, NotSweeping
          <5>2. CASE SweepNextPage /\ sw.full
            BY <5>2 DEF SweepNextPage, TypeOK, Sweep
          <5>3. CASE SweepNextPage /\ ~sw.full
            BY <5>3 DEF SweepNextPage, NotSweeping
          <5> QED BY <3>2, <5>1, <5>2, <5>3
        <4> QED BY <3>1, <4>1 DEF Registered
      <3>3. CASE SweepList
        <4>1. sw'.rows = {} \/ sw'.rows = Rows(Page(sw.offset))
          <5>1. CASE sw' = NotSweeping
            BY <5>1 DEF NotSweeping
          <5>2. CASE sw' = [sw EXCEPT !.pc = "rows", !.rows = Rows(Page(sw.offset)),
                                      !.full = IsFull(Page(sw.offset))]
            BY <5>2 DEF TypeOK, Sweep
          <5> QED BY <3>3, <5>1, <5>2 DEF SweepList
        <4> QED BY <3>1, <4>1, RowsRegistered
      <3> QED BY <1>1, <3>2, <3>3
    <2>4. ReconcileSound'
      BY <2>1, <2>2, TameKeepsReconcileSound
    <2> QED BY <2>1, <2>2, <2>3, <2>4
            DEF Registered, CollectionSound, Exists, IsFirst, miloVars,
                MiloDeletedAfterZitadel
  <1>2. ASSUME Tame, NEW r \in sw.rows, sw'.rows \subseteq sw.rows,
               \A w \in Users : cr'[w].phase = "deleting" => cr[w].phase = "deleting",
               \A w \in Users : w # r.id => cr'[w] = cr[w],
               UNCHANGED <<zitadel, verified, idp, aged, hook, gc, doomed>>
        PROVE  DeletionInv' /\ Tame
    <2>1. ReconcileSound'
      BY <1>2, TameKeepsReconcileSound
    <2>2. Registered'
      BY <1>2 DEF Registered, Exists
    <2>3. CollectionSound'
      BY <1>2 DEF CollectionSound, IsFirst
    <2> QED BY <1>2, <2>1, <2>2, <2>3 DEF MiloDeletedAfterZitadel
  <1>3. CASE SweepExisting
    <2>1. PICK r \in sw.rows :
            /\ sw' = [sw EXCEPT !.rows = @ \ {r}]
            /\ SetEmailVerified(r.id, r.verified, r.of) \/ UNCHANGED miloVars
      BY <1>3 DEF SweepExisting
    <2>2. /\ r.id \in Users /\ r.verified \in BOOLEAN /\ r.of \in Nat
          /\ sw'.rows \subseteq sw.rows
      BY <2>1 DEF TypeOK, Sweep, Row
    <2>3. Tame /\ \A w \in Users : cr'[w].phase = cr[w].phase
      <3>1. CASE SetEmailVerified(r.id, r.verified, r.of)
        BY <2>2, <3>1, SetEmailVerifiedTame
      <3>2. CASE UNCHANGED miloVars
        BY <3>2, NoWriteTame DEF miloVars
      <3> QED BY <2>1, <3>1, <3>2
    <2>4. UNCHANGED <<zitadel, verified, idp, aged, hook, gc, doomed>>
      BY <1>3 DEF SweepExisting, zitadelVars, hookVars, history
    <2>5. ReconcileSound'
      BY <2>3, <2>4, TameKeepsReconcileSound
    <2>6. Registered' /\ CollectionSound'
      BY <2>2, <2>3, <2>4 DEF Registered, CollectionSound, Exists, IsFirst
    <2> QED BY <2>3, <2>4, <2>5, <2>6 DEF MiloDeletedAfterZitadel
  <1>4. CASE SweepMissing
    <2>1. PICK r \in sw.rows :
            /\ EnsureUser(r.id) \/ UNCHANGED miloVars
            /\ sw' = [sw EXCEPT !.rows = @ \ {r}] \/ sw' = NotSweeping
      BY <1>4 DEF SweepMissing
    <2>2. r.id \in Users /\ sw'.rows \subseteq sw.rows
      BY <2>1 DEF TypeOK, Sweep, Row, NotSweeping
    <2>3. /\ Tame
          /\ \A w \in Users : cr'[w].phase = "deleting" => cr[w].phase = "deleting"
          /\ \A w \in Users : w # r.id => cr'[w] = cr[w]
      <3>1. CASE EnsureUser(r.id)
        BY <2>2, <3>1, EnsureUserTame
      <3>2. CASE UNCHANGED miloVars
        BY <3>2, NoWriteTame DEF miloVars
      <3> QED BY <2>1, <3>1, <3>2
    <2> QED BY <1>2, <1>4, <2>2, <2>3 DEF SweepMissing, zitadelVars, hookVars, history
  <1> QED BY <1>1, <1>3, <1>4 DEF UserSweeper

\* Two first rows of a page have the same ID.
LEMMA FirstIsUnique ==
  ASSUME NEW rows \in SUBSET Row, NEW r, NEW s, IsFirst(r, rows), IsFirst(s, rows)
  PROVE  r.id = s.id
  <1>1. r.id \in Nat /\ s.id \in Nat
    BY UsersAssumption DEF IsFirst, Row
  <1>2. r.id <= s.id /\ s.id <= r.id
    BY DEF IsFirst
  <1> QED BY <1>1, <1>2

LEMMA AbandonedUserGCDeletion ==
  ASSUME DeletionInv, TypeOK', AbandonedUserGC
  PROVE  DeletionInv' /\ Tame /\ GoesWithCause
  <1> USE DEF DeletionInv
  <1>1. gc.rows \in SUBSET Row /\ gc.cutoff \subseteq aged
    BY DEF TypeOK, Collection, CollectionSound
  <1>2. CASE CollectStart \/ CollectList \/ CollectNextPage
    <2>1. UNCHANGED <<zitadel, verified, idp, aged, miloVars, hook, sw, doomed>>
      BY <1>2 DEF CollectStart, CollectList, CollectNextPage, zitadelVars, hookVars, history
    <2>2. Tame
      BY <2>1, NoWriteTame
    <2>3. ReconcileSound'
      BY <2>1, <2>2, TameKeepsReconcileSound
    <2>4. /\ \A r \in gc'.rows : zitadel[r.id] # "never"
          /\ gc'.pc \in {"idle", "list", "rows"} /\ gc'.cutoff \subseteq aged
          /\ gc'.pc # "idle" => GCEnabled
          /\ \A u \in gc'.cutoff : /\ verified[u] = FALSE => u \in gc'.unproven
                                   /\ u \notin idp => u \in gc'.unlinked
          /\ \A r \in gc'.rows : r.verified = FALSE /\ r.id \in gc'.cutoff => r.id \in gc'.unproven
      <3>1. CASE CollectStart
        BY <3>1 DEF CollectStart, NotCollecting, TypeOK
      <3>2. CASE CollectNextPage
        <4>1. CASE gc' = NotCollecting
          BY <4>1 DEF NotCollecting
        <4>2. CASE gc' = [gc EXCEPT !.pc = "list", !.offset = @ + PageSize]
          <5>1. /\ gc'.rows = gc.rows /\ gc'.pc = "list" /\ gc'.cutoff = gc.cutoff
                /\ gc'.unproven = gc.unproven /\ gc'.unlinked = gc.unlinked
            BY <4>2 DEF TypeOK, Collection
          <5> QED BY <1>1, <3>2, <5>1 DEF CollectNextPage, Registered, CollectionSound
        <4> QED BY <3>2, <4>1, <4>2 DEF CollectNextPage
      <3>3. CASE CollectList
        <4>1. CASE gc' = NotCollecting
          BY <4>1 DEF NotCollecting
        <4>2. CASE gc' = [gc EXCEPT !.pc = "rows", !.rows = Rows(Page(gc.offset)),
                                    !.full = IsFull(Page(gc.offset))]
          <5>1. /\ gc'.rows = Rows(Page(gc.offset)) /\ gc'.pc = "rows" /\ gc'.cutoff = gc.cutoff
                /\ gc'.unproven = gc.unproven /\ gc'.unlinked = gc.unlinked
            BY <4>2 DEF TypeOK, Collection
          <5>2. GCEnabled
            BY <3>3 DEF CollectList, CollectionSound
          <5>3. \A r \in Rows(Page(gc.offset)) : r.verified = verified[r.id]
            BY DEF Rows
          <5> QED BY <1>1, <5>1, <5>2, <5>3, RowsRegistered DEF CollectionSound
        <4> QED BY <3>3, <4>1, <4>2 DEF CollectList
      <3> QED BY <1>2, <3>1, <3>2, <3>3
    <2> QED BY <2>1, <2>2, <2>3, <2>4
            DEF Registered, CollectionSound, Exists, miloVars, GoesWithCause,
                MiloDeletedAfterZitadel
  <1>3. CASE CollectExamine
    <2>1. UNCHANGED <<zitadel, verified, idp, aged, miloVars, hook, sw, doomed>>
      BY <1>3 DEF CollectExamine, zitadelVars, hookVars, history
    <2>2. Tame
      BY <2>1, NoWriteTame
    <2>3. ReconcileSound'
      BY <2>1, <2>2, TameKeepsReconcileSound
    <2>4. PICK r \in gc.rows :
            /\ gc.pc = "rows"
            /\ IsFirst(r, gc.rows)
            /\ \/ gc' = [gc EXCEPT !.rows = @ \ {r}]
               \/ /\ gc' = [gc EXCEPT !.pc = "deleteZitadel"]
                  /\ IsAbandoned(r, gc.cutoff) /\ ~HasIDPLink(r.id) /\ ~DryRun
      BY <1>3 DEF CollectExamine, Collect
    <2>5. /\ gc'.rows \subseteq gc.rows /\ gc'.cutoff = gc.cutoff
          /\ gc'.unproven = gc.unproven /\ gc'.unlinked = gc.unlinked
      BY <2>4 DEF TypeOK, Collection
    <2>5a. GoesWithCause
      BY <2>1 DEF GoesWithCause
    <2>6. GCEnabled
      BY <2>4 DEF CollectionSound
    <2>7. CASE gc' = [gc EXCEPT !.rows = @ \ {r}]
      <3>1. gc'.pc = "rows"
        BY <2>4, <2>7 DEF TypeOK, Collection
      <3> QED BY <1>1, <2>1, <2>2, <2>3, <2>5, <2>5a, <2>6, <3>1
              DEF Registered, CollectionSound, Exists, miloVars,
                  MiloDeletedAfterZitadel
    <2>8. CASE /\ gc' = [gc EXCEPT !.pc = "deleteZitadel"]
               /\ IsAbandoned(r, gc.cutoff) /\ ~HasIDPLink(r.id) /\ ~DryRun
      <3>1. gc'.pc = "deleteZitadel" /\ gc'.rows = gc.rows
        BY <2>8 DEF TypeOK, Collection
      <3>2. r.id \in (gc.cutoff \cap gc.unproven \cap gc.unlinked) \ Undated
        <4>1. r.verified \in BOOLEAN
          BY <1>1 DEF Row
        <4> QED BY <1>1, <2>8, <4>1 DEF IsAbandoned, HasIDPLink, ListIDPLinks, CollectionSound
      <3>3. \A s \in gc.rows : IsFirst(s, gc.rows) => s.id = r.id
        BY <1>1, <2>4, FirstIsUnique
      <3>4. \A s \in gc'.rows : IsFirst(s, gc'.rows) => IsFirst(s, gc.rows)
        BY <3>1
      <3>5. CollectionSound'
        BY <1>1, <2>1, <2>5, <2>6, <2>8, <3>1, <3>2, <3>3, <3>4 DEF CollectionSound
      <3> QED BY <2>1, <2>2, <2>3, <2>5, <2>5a, <3>5
              DEF Registered, Exists, miloVars, MiloDeletedAfterZitadel
    <2> QED BY <2>4, <2>7, <2>8
  <1>4. CASE CollectZitadel
    <2>1. UNCHANGED <<verified, idp, aged, miloVars, hook, sw, doomed>>
      BY <1>4 DEF CollectZitadel, hookVars, history
    <2>2. Tame
      BY <2>1, NoWriteTame
    <2>3. PICK r \in gc.rows :
            /\ gc.pc = "deleteZitadel"
            /\ IsFirst(r, gc.rows)
            /\ zitadel' = zitadel \/ zitadel' = [zitadel EXCEPT ![r.id] = "deleted"]
            /\ \/ /\ gc' = [gc EXCEPT !.pc = "deleteMilo"]
                  /\ zitadel' = [zitadel EXCEPT ![r.id] = "deleted"]
               \/ gc' = [gc EXCEPT !.pc = "rows", !.rows = @ \ {r}]
      BY <1>4 DEF CollectZitadel
    <2>4. /\ r.id \in Users /\ GCEnabled /\ ~DryRun
          /\ r.id \in (gc.cutoff \cap gc.unproven \cap gc.unlinked) \ Undated
      BY <2>3 DEF CollectionSound, TypeOK, Collection, Row
    <2>5. \A w \in Users : zitadel'[w] = zitadel[w] \/ (w = r.id /\ zitadel'[w] = "deleted")
      BY <2>3, <2>4 DEF TypeOK
    <2>6. \A s \in gc.rows : s.id \in Users
      BY <1>1 DEF Row
    <2>7. /\ gc'.rows \subseteq gc.rows /\ gc'.cutoff = gc.cutoff
          /\ gc'.unproven = gc.unproven /\ gc'.unlinked = gc.unlinked
      <3>1. CASE gc' = [gc EXCEPT !.pc = "deleteMilo"]
        BY <3>1 DEF TypeOK, Collection
      <3>2. CASE gc' = [gc EXCEPT !.pc = "rows", !.rows = @ \ {r}]
        BY <3>2 DEF TypeOK, Collection
      <3> QED BY <2>3, <3>1, <3>2
    <2>8. Registered'
      BY <2>1, <2>5, <2>6, <2>7 DEF Registered, Exists, miloVars, TypeOK, Sweep, Row
    <2>9. ReconcileSound'
      BY <2>1, <2>5 DEF ReconcileSound, Exists, miloVars
    <2>10. CollectionSound'
      <3>1. CASE gc' = [gc EXCEPT !.pc = "rows", !.rows = @ \ {r}]
        <4>1. gc'.pc = "rows"
          BY <3>1 DEF TypeOK, Collection
        <4> QED BY <1>1, <2>1, <2>4, <2>7, <4>1 DEF CollectionSound
      <3>2. CASE /\ gc' = [gc EXCEPT !.pc = "deleteMilo"]
                 /\ zitadel' = [zitadel EXCEPT ![r.id] = "deleted"]
        <4>1. gc'.pc = "deleteMilo" /\ gc'.rows = gc.rows /\ zitadel'[r.id] = "deleted"
          BY <2>4, <3>2 DEF TypeOK, Collection
        <4>2. \A s \in gc.rows : IsFirst(s, gc.rows) => s.id = r.id
          BY <1>1, <2>3, FirstIsUnique
        <4>3. \A s \in gc'.rows : IsFirst(s, gc'.rows) => IsFirst(s, gc.rows)
          BY <4>1
        <4> QED BY <1>1, <2>1, <2>4, <2>7, <4>1, <4>2, <4>3 DEF CollectionSound
      <3> QED BY <2>3, <3>1, <3>2
    <2>11. MiloDeletedAfterZitadel' /\ GoesWithCause
      BY <2>1, <2>4, <2>5 DEF MiloDeletedAfterZitadel, GoesWithCause, miloVars
    <2> QED BY <2>2, <2>8, <2>9, <2>10, <2>11
  <1>5. CASE CollectMilo
    <2>1. UNCHANGED <<zitadel, verified, idp, aged, hook, sw, doomed>>
      BY <1>5 DEF CollectMilo, zitadelVars, hookVars, history
    <2>2. PICK r \in gc.rows :
            /\ gc.pc = "deleteMilo"
            /\ IsFirst(r, gc.rows)
            /\ gc' = [gc EXCEPT !.pc = "rows", !.rows = @ \ {r}]
            /\ DeleteUserCR(r.id) \/ UNCHANGED miloVars
      BY <1>5 DEF CollectMilo
    <2>3. r.id \in Users /\ zitadel[r.id] = "deleted" /\ GCEnabled
      BY <2>2 DEF CollectionSound, TypeOK, Collection, Row
    <2>4. /\ Tame
          /\ \A w \in Users : cr'[w].phase # "absent" => Exists(w)
          /\ \A w \in Users : w # r.id => cr'[w] = cr[w]
      <3>1. CASE DeleteUserCR(r.id)
        BY <2>3, <3>1, DeleteUserCRTame
      <3>2. CASE UNCHANGED miloVars
        BY <3>2, NoWriteTame DEF miloVars, Exists
      <3> QED BY <2>2, <3>1, <3>2
    <2>5. /\ gc'.rows \subseteq gc.rows /\ gc'.pc = "rows" /\ gc'.cutoff = gc.cutoff
          /\ gc'.unproven = gc.unproven /\ gc'.unlinked = gc.unlinked
      BY <2>2 DEF TypeOK, Collection
    <2>6. ReconcileSound'
      BY <2>1, <2>4, TameKeepsReconcileSound
    <2>7. Registered' /\ CollectionSound'
      BY <1>1, <2>1, <2>3, <2>4, <2>5 DEF Registered, CollectionSound, Exists
    <2>8. MiloDeletedAfterZitadel' /\ GoesWithCause
      BY <2>1, <2>3, <2>4 DEF MiloDeletedAfterZitadel, GoesWithCause
    <2> QED BY <2>4, <2>6, <2>7, <2>8
  <1> QED BY <1>2, <1>3, <1>4, <1>5 DEF AbandonedUserGC

\* The steps of Zitadel, the operators and the webhooks release no finalizer.
LEMMA OthersTame ==
  ASSUME DeletionInv, NEW u \in Users, Environment(u) \/ Webhooks(u)
  PROVE  Tame
  <1> USE DEF DeletionInv
  <1>1. CASE UNCHANGED miloVars
    BY <1>1, NoWriteTame
  <1>2. CASE OperatorDelete(u)
    BY <1>2, DeleteUserCRTame DEF OperatorDelete
  <1>3. CASE HookCreate(u)
    BY <1>3, EnsureUserTame DEF HookCreate
  <1>4. CASE HookSet(u)
    <2>1. hook[u].val \in BOOLEAN /\ hook[u].of \in Nat
      BY DEF TypeOK, HookRequest
    <2> QED BY <1>4, <2>1, SetEmailVerifiedTame DEF HookSet
  <1>5. ASSUME NEW r \in mail, EmailEvent(r)
        PROVE  Tame
    <2>1. r.id \in Users /\ EventVerified(r) \in BOOLEAN /\ r.of \in Nat
      BY DEF TypeOK, Row, EventVerified
    <2> QED BY <1>5, <2>1, SetEmailVerifiedTame DEF EmailEvent
  <1> QED BY <1>1, <1>2, <1>3, <1>4, <1>5
          DEF Environment, Webhooks, SignUp, VerifyEmail, ReplaceEmail, ChangeLinks, Age, HookSeed,
              HookAbandon, HookRedeliver

\* The controller deletes an account only for a User that an operator deleted, the
\* others delete none.
LEMMA FinalizeWithCause ==
  ASSUME DeletionInv, NEW u \in Users, Environment(u) \/ Webhooks(u) \/ UserController(u)
  PROVE  GoesWithCause
  <1> USE DEF DeletionInv
  <1>1. CASE FinalizeDelete(u)
    <2>1. zitadel' = zitadel \/ zitadel' = [zitadel EXCEPT ![u] = "deleted"]
      BY <1>1 DEF FinalizeDelete
    <2>2. cr[u].phase = "deleting"
      BY <1>1 DEF FinalizeDelete, ReconcileSound
    <2> QED BY <2>1, <2>2 DEF GoesWithCause, MiloDeletedAfterZitadel, TypeOK
  <1>2. CASE \E v, external \in BOOLEAN : SignUp(u, v, external)
    BY <1>2 DEF SignUp, GoesWithCause, TypeOK
  <1>3. CASE UNCHANGED zitadel
    BY <1>3 DEF GoesWithCause
  <1> QED BY <1>1, <1>2, <1>3
          DEF Environment, Webhooks, UserController, VerifyEmail, ReplaceEmail, ChangeLinks, Age,
              OperatorDelete, HookCreate, HookSeed, HookSet, HookAbandon, HookRedeliver, EmailEvent,
              ReconcileGet, AddFinalizer, FinalizeGet, RemoveFinalizer, zitadelVars

LEMMA RestartDeletion ==
  ASSUME DeletionInv, TypeOK', Restart
  PROVE  DeletionInv'
  <1> USE DEF DeletionInv
  <1>1. /\ UNCHANGED <<zitadel, verified, idp, aged, cr, hook, doomed>>
        /\ rec' = [u \in Users |-> NotReconciling]
        /\ sw' = NotSweeping
        /\ gc' = NotCollecting
    BY DEF Restart, zitadelVars, hookVars, history
  <1>2. Registered' /\ CollectionSound'
    BY <1>1 DEF Registered, CollectionSound, Exists, NotSweeping, NotCollecting
  <1>3. ReconcileSound'
    BY <1>1 DEF ReconcileSound, Exists, NotReconciling
  <1> QED BY <1>1, <1>2, <1>3 DEF MiloDeletedAfterZitadel

LEMMA InitDeletion ==
  ASSUME Init
  PROVE  DeletionInv
  <1>1. Registered /\ ReconcileSound
    BY DEF Init, Registered, ReconcileSound, Exists, NoUser, NoRequest, NotReconciling,
           NotSweeping, NotCollecting
  <1>2. CollectionSound
    BY DEF Init, CollectionSound, NotCollecting
  <1> QED BY <1>1, <1>2, InitTypeOK
          DEF Init, DeletionInv, MiloDeletedAfterZitadel, NoUser

\* What FinalizerReleasedLast says of one step
ReleasesLast ==
    \A u \in Users : cr[u].fin /\ cr'[u].phase = "absent" => zitadel[u] = "deleted"

LEMMA NextDeletion ==
  ASSUME DeletionInv, [Next]_vars
  PROVE  DeletionInv' /\ ReleasesLast /\ GoesWithCause
  <1>1. TypeOK'
    BY NextTypeOK DEF DeletionInv
  <1>2. ASSUME Tame
        PROVE  ReleasesLast
    BY <1>2 DEF Tame, ReleasesLast
  <1>3. ASSUME NEW u \in Users, Environment(u) \/ Webhooks(u)
        PROVE  DeletionInv' /\ ReleasesLast /\ GoesWithCause
    BY <1>1, <1>2, <1>3, EnvironmentDeletion, WebhooksDeletion, OthersTame, FinalizeWithCause
  <1>4. ASSUME NEW u \in Users, UserController(u)
        PROVE  DeletionInv' /\ ReleasesLast /\ GoesWithCause
    BY <1>1, <1>4, UserControllerDeletion, FinalizeWithCause DEF ReleasesLast
  <1>5. CASE UserSweeper
    <2>1. UNCHANGED zitadel
      BY <1>5 DEF UserSweeper, SweepStart, SweepList, SweepExisting, SweepMissing, SweepNextPage,
                  zitadelVars
    <2>2. GoesWithCause
      BY <2>1 DEF GoesWithCause
    <2> QED BY <1>1, <1>2, <1>5, <2>2, UserSweeperDeletion
  <1>6. CASE AbandonedUserGC
    BY <1>1, <1>2, <1>6, AbandonedUserGCDeletion
  <1>7. CASE Restart \/ UNCHANGED vars
    <2>1. cr' = cr /\ zitadel' = zitadel
      BY <1>7 DEF Restart, vars, miloVars, zitadelVars
    <2>2. ReleasesLast /\ GoesWithCause
      <3>1. \A w \in Users : cr[w].fin => cr[w].phase # "absent"
        BY DEF DeletionInv, ReconcileSound, Exists
      <3>2. ReleasesLast
        BY <2>1, <3>1, Zenon DEF ReleasesLast
      <3> QED BY <2>1, <3>2 DEF GoesWithCause
    <2>3. ASSUME UNCHANGED vars
          PROVE  DeletionInv'
      BY <2>3 DEF DeletionInv, vars, zitadelVars, miloVars, hookVars, history, TypeOK, Registered,
                  ReconcileSound, CollectionSound, Exists, IsFirst, MiloDeletedAfterZitadel
    <2> QED BY <1>1, <1>7, <2>2, <2>3, RestartDeletion
  <1> QED BY <1>3, <1>4, <1>5, <1>6, <1>7 DEF Next

LEMMA DeletionInvariant == Spec => []DeletionInv
  <1>1. Init => DeletionInv
    BY InitDeletion
  <1>2. DeletionInv /\ [Next]_vars => DeletionInv'
    BY NextDeletion
  <1> QED BY <1>1, <1>2, PTL DEF Spec

(* No account disappears from Zitadel without a cause that was one during the same sweep,
   although links and addresses change between the checks of the GC and its call: the
   promise of userFinalizer.Finalize and AbandonedUserGC.sweepOnce, for any number of users,
   page size, failures and restarts. *)
THEOREM DeletionSafe == Spec => AccountGoneOnlyWithCause
  <1>1. DeletionInv /\ [Next]_vars =>
          [\A u \in Users : zitadel[u] = "present" /\ zitadel'[u] = "deleted" =>
             \/ u \in doomed
             \/ /\ GCEnabled /\ ~DryRun
                /\ u \in gc.cutoff \ Undated
                /\ u \in gc.unproven \cap gc.unlinked]_vars
    BY NextDeletion DEF GoesWithCause
  <1> QED BY <1>1, DeletionInvariant, PTL DEF Spec, AccountGoneOnlyWithCause

(* AbandonedUserGC.collect: no User is being deleted unasked before its       *)
(* Zitadel user is gone, so the sweeper cannot bring it back.                 *)
THEOREM CollectionOrdered == Spec => []MiloDeletedAfterZitadel
  <1>1. DeletionInv => MiloDeletedAfterZitadel
    BY DEF DeletionInv
  <1> QED BY <1>1, DeletionInvariant, PTL

(* A User that carries the finalizer leaves milo only after its Zitadel user  *)
(* was deleted, whoever deletes the User and whatever fails on the way.       *)
THEOREM FinalizerHolds == Spec => FinalizerReleasedLast
  <1>1. DeletionInv /\ [Next]_vars =>
          [\A u \in Users : cr[u].fin /\ cr'[u].phase = "absent" => zitadel[u] = "deleted"]_vars
    BY NextDeletion DEF ReleasesLast
  <1> QED BY <1>1, DeletionInvariant, PTL DEF Spec, FinalizerReleasedLast

-----------------------------------------------------------------------------
(* The refinement of AccountRemoval *)

(* A step of AccountRemoval, or none *)
resources == [w \in Users |-> Resource(w)]
RemovalStep == Removal!Next \/ UNCHANGED <<zitadel, resources, doomed, Collectable, Condemned>>

(* The account that is condemned is the first of the page, as long as it stays so. *)
LEMMA CondemnedIs ==
  ASSUME TypeOK
  PROVE  /\ gc.pc # "deleteZitadel" => Condemned = {}
         /\ \A r \in gc.rows : gc.pc = "deleteZitadel" /\ IsFirst(r, gc.rows) => Condemned = {r.id}
  <1>1. ASSUME NEW r \in gc.rows, gc.pc = "deleteZitadel", IsFirst(r, gc.rows)
        PROVE  Condemned = {r.id}
    <2>1. gc.rows \in SUBSET Row
      BY DEF TypeOK, Collection
    <2>2. \A s \in gc.rows : IsFirst(s, gc.rows) => s.id = r.id
      BY <1>1, <2>1, FirstIsUnique
    <2> QED BY <1>1, <2>2 DEF Condemned
  <1> QED BY <1>1 DEF Condemned

LEMMA CondemnedStays ==
  ASSUME gc'.pc = gc.pc, gc'.rows = gc.rows
  PROVE  Condemned' = Condemned
  BY DEF Condemned, IsFirst

LEMMA ResourceWrite ==
  ASSUME TypeOK, NEW u \in Users, NEW new, cr' = [cr EXCEPT ![u] = new]
  PROVE  resources' = [resources EXCEPT ![u] =
                         IF new.phase = "live" /\ new.fin THEN "held" ELSE new.phase]
  <1> DEFINE kind == IF new.phase = "live" /\ new.fin THEN "held" ELSE new.phase
  <1>1. \A w \in Users : cr'[w] = IF w = u THEN new ELSE cr[w]
    BY DEF TypeOK
  <1>2. \A w \in Users : Resource(w)' = IF w = u THEN kind ELSE Resource(w)
    BY <1>1 DEF Resource
  <1> QED BY <1>2 DEF resources

LEMMA ResourceIs ==
  ASSUME TypeOK, NEW u \in Users
  PROVE  /\ resources[u] = Resource(u)
         /\ Resource(u) = IF cr[u].phase = "live" THEN IF cr[u].fin THEN "held" ELSE "live"
                                                  ELSE cr[u].phase
         /\ cr[u].phase \in {"absent", "live", "deleting"} /\ cr[u].fin \in BOOLEAN
  BY DEF resources, Resource, TypeOK, UserCR

(* EnsureUser provisions a User that is missing. *)
LEMMA EnsureUserRemoval ==
  ASSUME DeletionInv, NEW u \in Users, EnsureUser(u), zitadel[u] # "never",
         UNCHANGED <<zitadelVars, gc, doomed>>
  PROVE  RemovalStep
  <1>1. UNCHANGED <<zitadel, doomed, Collectable, Condemned>>
    BY CondemnedStays DEF zitadelVars, Collectable
  <1>2. CASE Exists(u)
    BY <1>1, <1>2 DEF EnsureUser, miloVars, RemovalStep, resources, Resource
  <1>3. CASE ~Exists(u)
    <2>1. cr' = [cr EXCEPT ![u] = NewUser] /\ NewUser.phase = "live" /\ ~NewUser.fin
      BY <1>3 DEF EnsureUser, WriteUser, NewUser
    <2>2. resources' = [resources EXCEPT ![u] = "live"]
      BY <2>1, ResourceWrite DEF DeletionInv
    <2>3. resources[u] = "absent"
      BY <1>3, ResourceIs DEF DeletionInv, Exists
    <2>4. Removal!Provision(u)
      BY <1>1, <2>2, <2>3 DEF Removal!Provision, resources
    <2> QED BY <2>4 DEF RemovalStep, Removal!Next
  <1> QED BY <1>2, <1>3

(* emailverified.Set has no part in it. *)
LEMMA SetEmailVerifiedRemoval ==
  ASSUME DeletionInv, NEW u \in Users, NEW v \in BOOLEAN, NEW a \in Nat, SetEmailVerified(u, v, a)
  PROVE  resources' = resources
  <1>1. Tame /\ \A w \in Users : cr'[w].phase = cr[w].phase
    BY SetEmailVerifiedTame DEF DeletionInv
  <1>2. \A w \in Users : Resource(w)' = Resource(w)
    BY <1>1 DEF Tame, Resource
  <1> QED BY <1>2 DEF resources

(* DeleteUserCR withdraws the User, unless it is gone or on its way. *)
LEMMA DeleteUserCRRemoval ==
  ASSUME DeletionInv, NEW u \in Users, DeleteUserCR(u)
  PROVE  \/ cr[u].phase # "live" /\ resources' = resources
         \/ /\ resources[u] \in {"live", "held"}
            /\ resources' = [resources EXCEPT ![u] = IF @ = "held" THEN "deleting" ELSE "absent"]
  <1>0. TypeOK /\ ReconcileSound
    BY DEF DeletionInv
  <1> DEFINE new == IF cr[u].fin THEN [cr[u] EXCEPT !.phase = "deleting"] ELSE NoUser
  <1>1. CASE ~Exists(u)
    BY <1>1 DEF DeleteUserCR, miloVars, resources, Resource, Exists
  <1>2. CASE Exists(u)
    <2>1. cr' = [cr EXCEPT ![u] = new]
      BY <1>2 DEF DeleteUserCR, WriteUser
    <2>2. /\ cr[u].fin => new.phase = "deleting"
          /\ ~cr[u].fin => new.phase = "absent"
      BY <1>0 DEF TypeOK, UserCR, NoUser
    <2> HIDE DEF new
    <2>3. resources' = [resources EXCEPT ![u] = new.phase]
      BY <1>0, <2>1, <2>2, ResourceIs, ResourceWrite
    <2>4. CASE cr[u].phase = "live"
      BY <1>0, <2>2, <2>3, <2>4, ResourceIs
    <2>5. CASE cr[u].phase = "deleting"
      <3>1. cr[u].fin /\ resources[u] = "deleting"
        BY <1>0, <2>5, ResourceIs DEF ReconcileSound
      <3> QED BY <2>2, <2>3, <2>5, <3>1 DEF resources
    <2> QED BY <1>0, <1>2, <2>4, <2>5, ResourceIs DEF Exists
  <1> QED BY <1>1, <1>2

(* DeleteUser of Zitadel removes an account once. *)
LEMMA DeleteAccountRemoval ==
  ASSUME DeletionInv, NEW u \in Users, zitadel[u] # "never",
         zitadel' \in {zitadel, [zitadel EXCEPT ![u] = "deleted"]},
         UNCHANGED <<idp, aged, cr, doomed>>,
         Condemned' \in {Condemned, Condemned \ {u}},
         \/ u \in Condemned
         \/ cr[u].phase = "deleting" /\ (u \in doomed \/ zitadel[u] = "deleted")
  PROVE  RemovalStep
  <1>1. zitadel \in [Users -> {"never", "present", "deleted"}] /\ TypeOK
    BY DEF DeletionInv, TypeOK
  <1>2. UNCHANGED <<resources, doomed, Collectable>>
    BY DEF resources, Resource, Collectable
  <1>3. CASE zitadel' = zitadel
    <2>1. CASE Condemned' = Condemned
      BY <1>2, <1>3, <2>1 DEF RemovalStep
    <2>2. CASE Condemned' = Condemned \ {u}
      <3>1. Removal!Spare(u)
        BY <1>2, <1>3, <2>2 DEF Removal!Spare, resources
      <3> QED BY <3>1 DEF RemovalStep, Removal!Next
    <2> QED BY <2>1, <2>2
  <1>4. CASE zitadel' # zitadel
    <2>1. zitadel[u] = "present" /\ zitadel' = [zitadel EXCEPT ![u] = "deleted"]
      BY <1>1, <1>4
    <2>2. u \in Condemned \/ (u \in doomed /\ resources[u] = "deleting")
      BY <1>1, <2>1, ResourceIs
    <2>3. Removal!Remove(u)
      BY <1>2, <2>1, <2>2 DEF Removal!Remove, resources
    <2> QED BY <2>3 DEF RemovalStep, Removal!Next
  <1> QED BY <1>3, <1>4

-----------------------------------------------------------------------------

(* An account gets past its time or is no more; or it was and stays. *)
LEMMA ExpiryRemoval ==
  ASSUME NEW u \in Users, zitadel[u] = "present", UNCHANGED <<zitadel, cr, doomed, Condemned>>,
         Collectable' \in {Collectable, Collectable \cup {u}, Collectable \ {u}}
  PROVE  RemovalStep
  <1>1. resources' = resources
    BY DEF resources, Resource
  <1>2. CASE Collectable' = Collectable
    BY <1>1, <1>2 DEF RemovalStep
  <1>3. CASE Collectable' \in {Collectable \cup {u}, Collectable \ {u}}
    <2>1. Removal!Expire(u)
      BY <1>1, <1>3 DEF Removal!Expire, resources
    <2> QED BY <2>1 DEF RemovalStep, Removal!Next
  <1> QED BY <1>2, <1>3

LEMMA EnvironmentRemoval ==
  ASSUME DeletionInv, NEW u \in Users, Environment(u)
  PROVE  RemovalStep
  <1>0. TypeOK
    BY DEF DeletionInv
  <1>1. ASSUME NEW v, NEW external, SignUp(u, v, external)
        PROVE  RemovalStep
    <2>1. /\ zitadel[u] = "never" /\ zitadel' = [zitadel EXCEPT ![u] = "present"]
          /\ idp' \in {idp \ {u}, idp \cup {u}} /\ UNCHANGED <<aged, cr, gc, doomed>>
      BY <1>1 DEF SignUp, miloVars
    <2>2. u \notin aged
      BY <2>1 DEF DeletionInv, Registered
    <2>3. Collectable' = Collectable /\ Condemned' = Condemned
      BY <2>1, <2>2, CondemnedStays DEF Collectable
    <2>4. Removal!SignUp(u)
      BY <2>1, <2>3 DEF Removal!SignUp, Resource
    <2> QED BY <2>4 DEF RemovalStep, Removal!Next
  <1>2. CASE VerifyEmail(u) \/ ReplaceEmail(u)
    <2>1. UNCHANGED <<zitadel, idp, aged, cr, doomed>>
      BY <1>2 DEF VerifyEmail, ReplaceEmail, miloVars, history
    <2>2. gc'.pc = gc.pc /\ gc'.rows = gc.rows
      BY <1>0, <1>2 DEF VerifyEmail, ReplaceEmail, Witness, TypeOK, Collection
    <2> QED BY <2>1, <2>2, CondemnedStays DEF RemovalStep, resources, Resource, Collectable
  <1>3. CASE Age(u)
    <2>1. /\ zitadel[u] = "present" /\ aged' = aged \cup {u}
          /\ UNCHANGED <<zitadel, idp, cr, gc, doomed>>
      BY <1>3 DEF Age, miloVars, history
    <2>2. Collectable' = Collectable \/ Collectable' = Collectable \cup {u}
      BY <2>1 DEF Collectable
    <2> QED BY <2>1, <2>2, CondemnedStays, ExpiryRemoval
  <1>4. CASE ChangeLinks(u)
    <2>1. /\ zitadel[u] = "present" /\ idp' \in {idp \ {u}, idp \cup {u}}
          /\ UNCHANGED <<zitadel, aged, cr, doomed>>
      BY <1>4 DEF ChangeLinks, miloVars, history
    <2>2. Collectable' \in {Collectable, Collectable \cup {u}, Collectable \ {u}}
      BY <2>1 DEF Collectable
    <2>3. gc'.pc = gc.pc /\ gc'.rows = gc.rows
      BY <1>0, <1>4 DEF ChangeLinks, Witness, TypeOK, Collection
    <2> QED BY <2>1, <2>2, <2>3, CondemnedStays, ExpiryRemoval
  <1>5. CASE OperatorDelete(u)
    <2>1. /\ cr[u].phase = "live" /\ DeleteUserCR(u) /\ doomed' = doomed \cup {u}
          /\ UNCHANGED <<zitadel, idp, aged, gc>>
      BY <1>5 DEF OperatorDelete, zitadelVars
    <2>2. Collectable' = Collectable /\ Condemned' = Condemned
      BY <2>1, CondemnedStays DEF Collectable
    <2>3. Removal!OperatorDelete(u)
      BY <2>1, <2>2, DeleteUserCRRemoval DEF Removal!OperatorDelete, Removal!Withdraw, resources
    <2> QED BY <2>3 DEF RemovalStep, Removal!Next
  <1> QED BY <1>1, <1>2, <1>3, <1>4, <1>5 DEF Environment

LEMMA WebhooksRemoval ==
  ASSUME DeletionInv, NEW u \in Users, Webhooks(u)
  PROVE  RemovalStep
  <1>1. UNCHANGED <<zitadelVars, gc, doomed>>
    BY DEF Webhooks, HookCreate, HookSeed, HookSet, HookAbandon, HookRedeliver, EmailEvent,
           history
  <1>2. UNCHANGED <<zitadel, doomed, Collectable, Condemned>>
    BY <1>1, CondemnedStays DEF zitadelVars, Collectable
  <1>3. CASE HookCreate(u)
    <2>1. EnsureUser(u) /\ zitadel[u] # "never"
      BY <1>3 DEF HookCreate, DeletionInv, Registered
    <2> QED BY <1>1, <2>1, EnsureUserRemoval
  <1>4. CASE HookSeed(u) \/ HookAbandon(u) \/ HookRedeliver(u)
    <2>1. cr' = cr
      BY <1>4 DEF HookSeed, HookAbandon, HookRedeliver, miloVars
    <2> QED BY <1>2, <2>1 DEF RemovalStep, resources, Resource
  <1>5. CASE HookSet(u)
    <2>1. /\ hook[u].val \in BOOLEAN /\ hook[u].of \in Nat
          /\ SetEmailVerified(u, hook[u].val, hook[u].of)
      BY <1>5 DEF HookSet, DeletionInv, TypeOK, HookRequest
    <2> QED BY <1>2, <2>1, SetEmailVerifiedRemoval DEF RemovalStep
  <1>6. ASSUME NEW r \in mail, r.id = u, EmailEvent(r) PROVE RemovalStep
    <2>1. r.verified \in BOOLEAN /\ r.of \in Nat /\ SetEmailVerified(u, r.verified, r.of)
      BY <1>6 DEF EmailEvent, EventVerified, DeletionInv, TypeOK, Row
    <2> QED BY <1>2, <2>1, SetEmailVerifiedRemoval DEF RemovalStep
  <1> QED BY <1>3, <1>4, <1>5, <1>6 DEF Webhooks

LEMMA UserControllerRemoval ==
  ASSUME DeletionInv, NEW u \in Users, UserController(u)
  PROVE  RemovalStep
  <1>0. TypeOK /\ ReconcileSound
    BY DEF DeletionInv
  <1>1. UNCHANGED <<idp, aged, gc, doomed, Collectable, Condemned>>
    <2>1. UNCHANGED <<idp, aged, gc, doomed, Collectable>>
      BY DEF UserController, ReconcileGet, AddFinalizer, FinalizeGet, FinalizeDelete,
             RemoveFinalizer, zitadelVars, history, Collectable
    <2> QED BY <2>1, CondemnedStays
  <1>2. CASE ReconcileGet(u) \/ FinalizeGet(u)
    <2>1. UNCHANGED <<zitadel, cr>>
      BY <1>2 DEF ReconcileGet, FinalizeGet, zitadelVars
    <2> QED BY <1>1, <2>1 DEF RemovalStep, resources, Resource
  <1>3. CASE AddFinalizer(u)
    <2>1. zitadel' = zitadel
      BY <1>3 DEF AddFinalizer, zitadelVars
    <2>2. CASE cr' = cr
      BY <1>1, <2>1, <2>2 DEF RemovalStep, resources, Resource
    <2>3. CASE cr' = [cr EXCEPT ![u].fin = TRUE] /\ rec[u].fresh
      <3> DEFINE new == [cr[u] EXCEPT !.fin = TRUE]
      <3>1. cr[u].phase = "live"
        BY <1>0, <1>3, <2>3 DEF AddFinalizer, ReconcileSound
      <3>2. cr' = [cr EXCEPT ![u] = new] /\ new.phase = "live" /\ new.fin
        BY <1>0, <2>3, <3>1 DEF TypeOK, UserCR
      <3> HIDE DEF new
      <3>3. resources' = [resources EXCEPT ![u] = "held"]
        BY <1>0, <3>2, ResourceWrite
      <3>4. CASE cr[u].fin
        <4>1. resources[u] = "held"
          BY <1>0, <3>1, <3>4, ResourceIs
        <4>2. resources' = resources
          BY <3>3, <4>1 DEF resources
        <4> QED BY <1>1, <2>1, <4>2 DEF RemovalStep
      <3>5. CASE ~cr[u].fin
        <4>1. resources[u] = "live"
          BY <1>0, <3>1, <3>5, ResourceIs
        <4>2. Removal!Hold(u)
          BY <1>1, <2>1, <3>3, <4>1 DEF Removal!Hold, resources
        <4> QED BY <4>2 DEF RemovalStep, Removal!Next
      <3> QED BY <3>4, <3>5
    <2> QED BY <1>3, <2>2, <2>3 DEF AddFinalizer
  <1>4. CASE FinalizeDelete(u)
    <2>1. zitadel' \in {zitadel, [zitadel EXCEPT ![u] = "deleted"]} /\ cr' = cr
      BY <1>4 DEF FinalizeDelete
    <2>2. cr[u].phase = "deleting"
      BY <1>0, <1>4 DEF FinalizeDelete, ReconcileSound
    <2>3. zitadel[u] # "never" /\ (u \in doomed \/ zitadel[u] = "deleted")
      BY <2>2 DEF DeletionInv, Registered, Exists, MiloDeletedAfterZitadel
    <2> QED BY <1>1, <2>1, <2>2, <2>3, DeleteAccountRemoval
  <1>5. CASE RemoveFinalizer(u)
    <2>1. zitadel' = zitadel
      BY <1>5 DEF RemoveFinalizer, zitadelVars
    <2>2. CASE cr' = cr
      BY <1>1, <2>1, <2>2 DEF RemovalStep, resources, Resource
    <2>3. CASE cr' = [cr EXCEPT ![u] = NoUser]
      <3>1. cr[u].phase = "deleting" /\ zitadel[u] = "deleted"
        BY <1>0, <1>5 DEF RemoveFinalizer, ReconcileSound
      <3>2. resources[u] = "deleting"
        BY <1>0, <3>1, ResourceIs
      <3>3. resources' = [resources EXCEPT ![u] = "absent"]
        <4>1. NoUser.phase = "absent"
          BY DEF NoUser
        <4> QED BY <1>0, <2>3, <4>1, ResourceWrite
      <3>4. Removal!Release(u)
        BY <1>1, <2>1, <3>1, <3>2, <3>3 DEF Removal!Release, resources
      <3> QED BY <3>4 DEF RemovalStep, Removal!Next
    <2> QED BY <1>5, <2>2, <2>3 DEF RemoveFinalizer
  <1> QED BY <1>2, <1>3, <1>4, <1>5 DEF UserController

LEMMA UserSweeperRemoval ==
  ASSUME DeletionInv, UserSweeper
  PROVE  RemovalStep
  <1>1. UNCHANGED <<zitadelVars, gc, doomed>>
    BY DEF UserSweeper, SweepStart, SweepList, SweepExisting, SweepMissing, SweepNextPage, history
  <1>2. UNCHANGED <<zitadel, doomed, Collectable, Condemned>>
    BY <1>1, CondemnedStays DEF zitadelVars, Collectable
  <1>3. sw.rows \subseteq Row /\ \A r \in sw.rows : zitadel[r.id] # "never"
    BY DEF DeletionInv, TypeOK, Sweep, Registered
  <1>4. CASE UNCHANGED miloVars
    BY <1>2, <1>4 DEF RemovalStep, resources, Resource, miloVars
  <1>5. ASSUME NEW r \in sw.rows, SetEmailVerified(r.id, r.verified, r.of) PROVE RemovalStep
    <2>1. r.id \in Users /\ r.verified \in BOOLEAN /\ r.of \in Nat
      BY <1>3 DEF Row
    <2> QED BY <1>2, <1>5, <2>1, SetEmailVerifiedRemoval DEF RemovalStep
  <1>6. ASSUME NEW r \in sw.rows, EnsureUser(r.id) PROVE RemovalStep
    <2>1. r.id \in Users /\ zitadel[r.id] # "never"
      BY <1>3 DEF Row
    <2> QED BY <1>1, <1>6, <2>1, EnsureUserRemoval
  <1> QED BY <1>4, <1>5, <1>6 DEF UserSweeper, SweepStart, SweepList, SweepExisting,
                                  SweepMissing, SweepNextPage

LEMMA AbandonedUserGCRemoval ==
  ASSUME DeletionInv, AbandonedUserGC
  PROVE  RemovalStep
  <1>1. UNCHANGED <<idp, aged, doomed, Collectable>>
    BY DEF AbandonedUserGC, CollectStart, CollectList, CollectExamine, CollectZitadel,
           CollectMilo, CollectNextPage, zitadelVars, history, Collectable
  <1>2. gc.rows \subseteq Row /\ \A r \in gc.rows : zitadel[r.id] # "never"
    BY DEF DeletionInv, TypeOK, Collection, Registered
  <1>2a. TypeOK /\ TypeOK'
    BY NextTypeOK DEF DeletionInv, Next
  <1>3. CASE CollectStart \/ CollectList \/ CollectNextPage
    <2>1. UNCHANGED <<zitadel, cr>>
      BY <1>3 DEF CollectStart, CollectList, CollectNextPage, zitadelVars, miloVars
    <2>2. gc.pc # "deleteZitadel" /\ gc'.pc # "deleteZitadel"
      <3>1. gc.pc \in {"idle", "list", "rows"}
        BY <1>3 DEF CollectStart, CollectList, CollectNextPage
      <3>2. CASE CollectStart
        BY <3>1, <3>2 DEF CollectStart, NotCollecting
      <3>3. CASE CollectList
        <4>1. CASE gc' = NotCollecting
          BY <3>1, <4>1 DEF NotCollecting
        <4>2. CASE gc' = [gc EXCEPT !.pc = "rows", !.rows = Rows(Page(gc.offset)),
                                    !.full = IsFull(Page(gc.offset))]
          <5>1. gc \in Collection
            BY DEF DeletionInv, TypeOK
          <5>2. gc'.pc = "rows"
            BY <4>2, <5>1 DEF Collection
          <5> QED BY <3>1, <5>2
        <4> QED BY <3>3, <4>1, <4>2 DEF CollectList
      <3>4. CASE CollectNextPage
        BY <3>1, <3>4, <1>2a DEF CollectNextPage, NotCollecting, TypeOK, Collection
      <3> QED BY <1>3, <3>2, <3>3, <3>4
    <2>3. Condemned' = Condemned
      BY <2>2 DEF Condemned
    <2> QED BY <1>1, <2>1, <2>3 DEF RemovalStep, resources, Resource
  <1>3a. CASE CollectExamine
    <2>1. UNCHANGED <<zitadel, cr>>
      BY <1>3a DEF CollectExamine, zitadelVars, miloVars
    <2>2. resources' = resources
      BY <2>1 DEF resources, Resource
    <2>3. PICK r \in gc.rows :
            /\ gc.pc = "rows"
            /\ IsFirst(r, gc.rows)
            /\ \/ gc' = [gc EXCEPT !.rows = @ \ {r}]
               \/ /\ gc' = [gc EXCEPT !.pc = "deleteZitadel"]
                  /\ IsAbandoned(r, gc.cutoff) /\ ~HasIDPLink(r.id) /\ ~DryRun
      BY <1>3a DEF CollectExamine, Collect
    <2>4. Condemned = {}
      BY <2>3 DEF Condemned
    <2>5. CASE gc' = [gc EXCEPT !.rows = @ \ {r}]
      <3>1. gc'.pc = "rows"
        BY <1>2a, <2>3, <2>5 DEF TypeOK, Collection
      <3>2. Condemned' = Condemned
        BY <2>4, <3>1 DEF Condemned
      <3> QED BY <1>1, <2>1, <2>2, <3>2 DEF RemovalStep
    <2>6. CASE /\ gc' = [gc EXCEPT !.pc = "deleteZitadel"]
               /\ IsAbandoned(r, gc.cutoff) /\ ~HasIDPLink(r.id) /\ ~DryRun
      <3>1. gc'.pc = "deleteZitadel" /\ gc'.rows = gc.rows
        BY <1>2a, <2>6 DEF TypeOK, Collection
      <3>2. Condemned' = {r.id}
        <4>1. \A s \in gc.rows : IsFirst(s, gc.rows) => s.id = r.id
          BY <1>2, <2>3, FirstIsUnique
        <4> QED BY <2>3, <3>1, <4>1 DEF Condemned, IsFirst
      <3>3. r.id \in Users /\ r.id \in Collectable
        BY <1>2, <2>3, <2>6 DEF DeletionInv, CollectionSound, Collectable, IsAbandoned, HasIDPLink,
                                ListIDPLinks, Row
      <3>4. Removal!Condemn(r.id)
        BY <1>1, <2>1, <2>2, <2>4, <3>2, <3>3 DEF Removal!Condemn, resources
      <3> QED BY <3>3, <3>4 DEF RemovalStep, Removal!Next
    <2> QED BY <2>3, <2>5, <2>6
  <1>4. CASE CollectZitadel
    <2>1. PICK r \in gc.rows :
            /\ IsFirst(r, gc.rows)
            /\ zitadel' \in {zitadel, [zitadel EXCEPT ![r.id] = "deleted"]}
            /\ \/ gc' = [gc EXCEPT !.pc = "deleteMilo"]
               \/ gc' = [gc EXCEPT !.pc = "rows", !.rows = @ \ {r}]
      BY <1>4 DEF CollectZitadel
    <2>2. r.id \in Users /\ zitadel[r.id] # "never"
      BY <1>2 DEF Row
    <2>3. Condemned = {r.id}
      BY <1>2a, <1>4, <2>1, CondemnedIs DEF CollectZitadel
    <2>4. Condemned' = {}
      <3>1. gc'.pc # "deleteZitadel"
        BY <1>2a, <2>1 DEF TypeOK, Collection
      <3> QED BY <3>1 DEF Condemned
    <2>5. cr' = cr
      BY <1>4 DEF CollectZitadel, miloVars
    <2>6. Condemned' = Condemned \ {r.id} /\ r.id \in Condemned
      BY <2>3, <2>4
    <2> QED BY <1>1, <2>1, <2>2, <2>5, <2>6, DeleteAccountRemoval
  <1>5. CASE CollectMilo
    <2>1. PICK r \in gc.rows :
            /\ IsFirst(r, gc.rows)
            /\ gc' = [gc EXCEPT !.pc = "rows", !.rows = @ \ {r}]
            /\ DeleteUserCR(r.id) \/ UNCHANGED miloVars
      BY <1>5 DEF CollectMilo
    <2>2. r.id \in Users /\ zitadel[r.id] = "deleted"
      BY <1>2, <1>5, <2>1 DEF Row, CollectMilo, DeletionInv, CollectionSound
    <2>3. zitadel' = zitadel
      BY <1>5 DEF CollectMilo, zitadelVars
    <2>3a. Condemned' = Condemned
      <3>1. gc'.pc = "rows" /\ gc.pc = "deleteMilo"
        BY <1>2a, <1>5, <2>1 DEF CollectMilo, TypeOK, Collection
      <3> QED BY <3>1 DEF Condemned
    <2>4. CASE resources' = resources
      BY <1>1, <2>3, <2>3a, <2>4 DEF RemovalStep
    <2>5. CASE UNCHANGED miloVars
      BY <2>4, <2>5 DEF miloVars, resources, Resource
    <2>6. CASE /\ resources[r.id] \in {"live", "held"}
               /\ resources' = [resources EXCEPT ![r.id] = IF @ = "held" THEN "deleting" ELSE "absent"]
      <3>1. Removal!Collect(r.id)
        BY <1>1, <2>2, <2>3, <2>3a, <2>6 DEF Removal!Collect, Removal!Withdraw, resources
      <3> QED BY <2>2, <3>1 DEF RemovalStep, Removal!Next
    <2> QED BY <2>1, <2>2, <2>4, <2>5, <2>6, DeleteUserCRRemoval
  <1> QED BY <1>3, <1>3a, <1>4, <1>5 DEF AbandonedUserGC

(* A restart forgets the collection, and so spares whom it was about to delete. *)
LEMMA RestartRemoval ==
  ASSUME DeletionInv, Restart
  PROVE  RemovalStep
  <1>1. UNCHANGED <<zitadel, idp, aged, cr, doomed>> /\ gc' = NotCollecting
    BY DEF Restart, zitadelVars, history
  <1>2. UNCHANGED <<zitadel, resources, doomed, Collectable>>
    BY <1>1 DEF resources, Resource, Collectable
  <1>3. Condemned' = {}
    BY <1>1 DEF Condemned, NotCollecting
  <1>4. CASE Condemned = {}
    BY <1>2, <1>3, <1>4 DEF RemovalStep
  <1>5. CASE Condemned # {}
    <2>1. PICK r \in gc.rows : gc.pc = "deleteZitadel" /\ IsFirst(r, gc.rows)
      BY <1>5 DEF Condemned
    <2>2. Condemned = {r.id} /\ r.id \in Users
      BY <2>1, CondemnedIs DEF DeletionInv, TypeOK, Collection, Row
    <2>3. Removal!Spare(r.id)
      BY <1>2, <1>3, <2>2 DEF Removal!Spare, resources
    <2> QED BY <2>2, <2>3 DEF RemovalStep, Removal!Next
  <1> QED BY <1>4, <1>5

LEMMA NextRemoval == DeletionInv /\ [Next]_vars => DeletionInv' /\ RemovalStep
  <1> SUFFICES ASSUME DeletionInv, [Next]_vars PROVE DeletionInv' /\ RemovalStep
    OBVIOUS
  <1>1. DeletionInv'
    BY NextDeletion
  <1>2. ASSUME NEW u \in Users, Environment(u) \/ Webhooks(u) \/ UserController(u)
        PROVE  RemovalStep
    BY <1>2, EnvironmentRemoval, WebhooksRemoval, UserControllerRemoval
  <1>3. CASE UNCHANGED vars
    <2>1. UNCHANGED <<zitadel, idp, aged, cr, gc, doomed>>
      BY <1>3 DEF vars, zitadelVars, miloVars, history
    <2>2. Condemned' = Condemned
      BY <2>1, CondemnedStays
    <2> QED BY <1>1, <2>1, <2>2 DEF RemovalStep, resources, Resource, Collectable
  <1> QED BY <1>1, <1>2, <1>3, UserSweeperRemoval, AbandonedUserGCRemoval, RestartRemoval DEF Next

(* The controllers, the sweepers, the webhooks and the operators, with any failures and
   restarts, remove accounts and their Users in the order AccountRemoval states
   (userFinalizer.Finalize, AbandonedUserGC.collect, UserSweeper.sweepOnce). *)
THEOREM RemovalOrderly == Spec => RemovedInOrder
  <1>1. Init => DeletionInv /\ Removal!Init
    <2> SUFFICES ASSUME Init PROVE DeletionInv /\ Removal!Init
      OBVIOUS
    <2>1. DeletionInv
      BY InitDeletion
    <2>2. Collectable = {} /\ Condemned = {} /\ \A u \in Users : Resource(u) = "absent"
      BY DEF Init, Collectable, Condemned, Resource, NoUser, NotCollecting
    <2> QED BY <2>1, <2>2 DEF Init, Removal!Init
  <1>2. DeletionInv /\ [Next]_vars => DeletionInv' /\ [Removal!Next]_Removal!vars
    BY NextRemoval DEF RemovalStep, Removal!vars, resources
  <1> QED BY <1>1, <1>2, PTL DEF Spec, RemovedInOrder, Removal!Spec

-----------------------------------------------------------------------------
(* Verification: every copy of a proof that is on its way to the status      *)

(* An address is verified only while its user has it, and a new one is never proven yet; the
   email events, the requests of the webhook and the rows the sweeper has yet to look at say
   verified only of addresses that were. *)
CopiesProved ==
    /\ \A u \in Users : verified[u] = TRUE => <<u, address[u]>> \in proved
    /\ \A u \in Users, a \in Nat : <<u, a>> \in proved =>
          zitadel[u] # "never" /\ a <= address[u] /\ (a = address[u] => verified[u] = TRUE)
    /\ \A r \in mail : r.verified = TRUE => <<r.id, r.of>> \in proved
    /\ \A u \in Users : hook[u].val = TRUE => <<u, hook[u].of>> \in proved
    /\ \A r \in sw.rows : r.verified = TRUE => <<r.id, r.of>> \in proved

Claims == \A u \in Users : cr[u].ev = "Verified" => <<u, cr[u].of>> \in proved

ProofInv == TypeOK /\ CopiesProved /\ Claims

(* A write that adds no Verified, and keeps what the others speak of, adds no claim. *)
Claimless == \A u \in Users : cr'[u].ev = "Verified" => cr[u].ev = "Verified" /\ cr'[u].of = cr[u].of

LEMMA NoNewClaim ==
  ASSUME Claims, proved \subseteq proved', Claimless
  PROVE  Claims'
  BY DEF Claims, Claimless

LEMMA DeleteUserCRClaims ==
  ASSUME TypeOK, NEW u \in Users, DeleteUserCR(u)
  PROVE  Claimless
  <1>1. cr \in [Users -> UserCR]
    BY DEF TypeOK
  <1> QED BY <1>1 DEF DeleteUserCR, WriteUser, miloVars, NoUser, UserCR, Claimless

LEMMA EnsureUserClaims ==
  ASSUME TypeOK, NEW u \in Users, EnsureUser(u)
  PROVE  Claimless
  <1>1. cr \in [Users -> UserCR]
    BY DEF TypeOK
  <1> QED BY <1>1 DEF EnsureUser, WriteUser, miloVars, NewUser, UserCR, Claimless

(* emailverified.Set claims what it was given. *)
LEMMA SetEmailVerifiedClaims ==
  ASSUME TypeOK, Claims, NEW u \in Users, NEW v \in BOOLEAN, NEW a \in Nat,
         v = TRUE => <<u, a>> \in proved, SetEmailVerified(u, v, a), UNCHANGED proved
  PROVE  Claims'
  <1>1. cr \in [Users -> UserCR]
    BY DEF TypeOK
  <1>2. CASE Exists(u) /\ NeedsUpdate(cr[u].ev, v)
    <2> DEFINE new == [cr[u] EXCEPT !.ev = Desired(v), !.of = IF v THEN a ELSE 0]
    <2>1. cr' = [cr EXCEPT ![u] = new]
      BY <1>2 DEF SetEmailVerified, WriteUser
    <2>2. new.ev = "Verified" => <<u, new.of>> \in proved
      BY <1>1 DEF Desired, UserCR
    <2> HIDE DEF new
    <2>3. \A w \in Users : cr'[w] = IF w = u THEN new ELSE cr[w]
      BY <1>1, <2>1
    <2> QED BY <2>2, <2>3 DEF Claims
  <1>3. CASE ~(Exists(u) /\ NeedsUpdate(cr[u].ev, v))
    BY <1>3 DEF SetEmailVerified, miloVars, Claims
  <1> QED BY <1>2, <1>3

LEMMA EnvironmentProof ==
  ASSUME ProofInv, NEW u \in Users, Environment(u)
  PROVE  CopiesProved' /\ Claims'
  <1> USE DEF ProofInv
  <1>0. /\ verified \in [Users -> BOOLEAN] /\ address \in [Users -> Nat]
        /\ zitadel \in [Users -> {"never", "present", "deleted"}]
        /\ hook \in [Users -> HookRequest]
    BY DEF TypeOK
  <1>1. ASSUME NEW v \in BOOLEAN, NEW external \in BOOLEAN, SignUp(u, v, external)
        PROVE  CopiesProved' /\ Claims'
    <2>1. /\ verified' = [verified EXCEPT ![u] = v] /\ address' = [address EXCEPT ![u] = 1]
          /\ zitadel[u] = "never" /\ zitadel' = [zitadel EXCEPT ![u] = "present"]
          /\ hook' = [hook EXCEPT ![u].pc = "pending"]
          /\ proved' = IF v THEN proved \cup {<<u, 1>>} ELSE proved
          /\ UNCHANGED <<cr, mail, sw>>
      BY <1>1 DEF SignUp, miloVars
    <2>2. \A w \in Users : hook'[w].val = hook[w].val /\ hook'[w].of = hook[w].of
      BY <1>0, <2>1 DEF HookRequest
    <2>3. \A w \in Users : verified'[w] = TRUE => <<w, address'[w]>> \in proved'
      BY <1>0, <2>1 DEF CopiesProved
    <2>4. \A w \in Users, a \in Nat : <<w, a>> \in proved' =>
            zitadel'[w] # "never" /\ a <= address'[w] /\ (a = address'[w] => verified'[w] = TRUE)
      <3> TAKE w \in Users, a \in Nat
      <3> HAVE <<w, a>> \in proved'
      <3>1. CASE w = u
        <4>1. <<w, a>> \notin proved
          BY <2>1, <3>1 DEF CopiesProved
        <4>2. a = 1 /\ v = TRUE
          BY <2>1, <4>1
        <4> QED BY <1>0, <2>1, <3>1, <4>2
      <3>2. CASE w # u
        <4>1. <<w, a>> \in proved
          BY <2>1, <3>2
        <4> QED BY <1>0, <2>1, <3>2, <4>1 DEF CopiesProved
      <3> QED BY <3>1, <3>2
    <2>5. proved \subseteq proved'
      BY <2>1
    <2> QED BY <2>1, <2>2, <2>3, <2>4, <2>5 DEF CopiesProved, Claims
  <1>2. CASE VerifyEmail(u)
    <2>1. /\ verified' = [verified EXCEPT ![u] = TRUE]
          /\ mail' = mail \cup {[id |-> u, verified |-> TRUE, of |-> address[u]]}
          /\ proved' = proved \cup {<<u, address[u]>>}
          /\ zitadel[u] = "present"
          /\ UNCHANGED <<zitadel, address, cr, hook, sw>>
      BY <1>2 DEF VerifyEmail, miloVars
    <2>2. \A w \in Users : verified'[w] = TRUE => <<w, address'[w]>> \in proved'
      BY <1>0, <2>1 DEF CopiesProved
    <2>3. \A w \in Users, a \in Nat : <<w, a>> \in proved' =>
            zitadel'[w] # "never" /\ a <= address'[w] /\ (a = address'[w] => verified'[w] = TRUE)
      BY <1>0, <2>1 DEF CopiesProved
    <2>4. \A r \in mail' : r.verified = TRUE => <<r.id, r.of>> \in proved'
      BY <2>1 DEF CopiesProved
    <2> QED BY <2>1, <2>2, <2>3, <2>4 DEF CopiesProved, Claims
  <1>3. CASE ReplaceEmail(u)
    <2>1. /\ verified' = [verified EXCEPT ![u] = FALSE]
          /\ address' = [address EXCEPT ![u] = @ + 1]
          /\ mail' = mail \cup {[id |-> u, verified |-> FALSE, of |-> address[u] + 1]}
          /\ UNCHANGED <<zitadel, cr, hook, sw, proved>>
      BY <1>3 DEF ReplaceEmail, miloVars, history
    <2>2. \A w \in Users : verified'[w] = TRUE => <<w, address'[w]>> \in proved'
      BY <1>0, <2>1 DEF CopiesProved
    <2>3. \A w \in Users, a \in Nat : <<w, a>> \in proved' =>
            zitadel'[w] # "never" /\ a <= address'[w] /\ (a = address'[w] => verified'[w] = TRUE)
      <3> TAKE w \in Users, a \in Nat
      <3> HAVE <<w, a>> \in proved'
      <3>1. /\ zitadel[w] # "never" /\ a <= address[w]
            /\ a = address[w] => verified[w] = TRUE
        BY <2>1 DEF CopiesProved
      <3>2. address'[w] = IF w = u THEN address[w] + 1 ELSE address[w]
        BY <1>0, <2>1
      <3>3. w # u => verified'[w] = verified[w]
        BY <1>0, <2>1
      <3> QED BY <1>0, <2>1, <3>1, <3>2, <3>3
    <2>4. \A r \in mail' : r.verified = TRUE => <<r.id, r.of>> \in proved'
      BY <2>1 DEF CopiesProved
    <2> QED BY <2>1, <2>2, <2>3, <2>4 DEF CopiesProved, Claims
  <1>3a. CASE ChangeLinks(u)
    BY <1>3a DEF ChangeLinks, miloVars, hookVars, history, CopiesProved, Claims
  <1>4. CASE Age(u)
    BY <1>4 DEF Age, miloVars, hookVars, history, CopiesProved, Claims
  <1>5. CASE OperatorDelete(u)
    <2>1. DeleteUserCR(u) /\ UNCHANGED <<zitadel, verified, address, hook, mail, sw, proved>>
      BY <1>5 DEF OperatorDelete, zitadelVars, hookVars
    <2> QED BY <2>1, DeleteUserCRClaims, NoNewClaim DEF CopiesProved
  <1> QED BY <1>1, <1>2, <1>3, <1>3a, <1>4, <1>5 DEF Environment

LEMMA WebhooksProof ==
  ASSUME ProofInv, NEW u \in Users, Webhooks(u)
  PROVE  CopiesProved' /\ Claims'
  <1> USE DEF ProofInv
  <1>1. hook \in [Users -> HookRequest] /\ verified \in [Users -> BOOLEAN] /\ mail \subseteq Row
    BY DEF TypeOK
  <1>2. CASE HookCreate(u)
    <2>1. EnsureUser(u) /\ UNCHANGED <<zitadel, verified, address, mail, sw, proved>>
      BY <1>2 DEF HookCreate, zitadelVars, history
    <2>2. \A w \in Users : hook'[w].val = hook[w].val /\ hook'[w].of = hook[w].of
      BY <1>1, <1>2 DEF HookCreate, HookRequest
    <2> QED BY <2>1, <2>2, EnsureUserClaims, NoNewClaim DEF CopiesProved
  <1>3. CASE HookSeed(u)
    <2>1. UNCHANGED <<zitadel, address, cr, verified, mail, sw, proved>>
      BY <1>3 DEF HookSeed, zitadelVars, miloVars, history
    <2>2. \A w \in Users : hook'[w].val = TRUE =>
            IF w = u THEN verified[u] = TRUE /\ hook'[w].of = address[u]
                     ELSE hook[w].val = TRUE /\ hook'[w].of = hook[w].of
      BY <1>1, <1>3 DEF HookSeed, HookRequest, Proof
    <2> QED BY <2>1, <2>2 DEF CopiesProved, Claims
  <1>4. CASE HookSet(u)
    <2>1. SetEmailVerified(u, hook[u].val, hook[u].of) /\ UNCHANGED <<zitadel, verified, address, mail, sw, proved>>
      BY <1>4 DEF HookSet, zitadelVars, history
    <2>2. \A w \in Users : IF w = u THEN hook'[w].val = FALSE ELSE hook'[w] = hook[w]
      BY <1>1, <1>4 DEF HookSet, HookRequest, NoRequest
    <2>3. /\ hook[u].val \in BOOLEAN /\ hook[u].of \in Nat
          /\ hook[u].val = TRUE => <<u, hook[u].of>> \in proved
      BY <1>1 DEF HookRequest, CopiesProved
    <2>4. Claims'
      BY <2>1, <2>3, SetEmailVerifiedClaims
    <2> QED BY <2>1, <2>2, <2>4 DEF CopiesProved
  <1>5. CASE HookAbandon(u) \/ HookRedeliver(u)
    <2>1. UNCHANGED <<zitadel, address, cr, verified, mail, sw, proved>>
      BY <1>5 DEF HookAbandon, HookRedeliver, zitadelVars, miloVars, history
    <2>2. \A w \in Users : hook'[w].val = TRUE => hook[w].val = TRUE /\ hook'[w].of = hook[w].of
      <3>1. CASE HookAbandon(u)
        BY <1>1, <3>1 DEF HookAbandon, HookRequest, NoRequest
      <3>2. CASE HookRedeliver(u)
        BY <1>1, <3>2 DEF HookRedeliver, HookRequest
      <3> QED BY <1>5, <3>1, <3>2
    <2> QED BY <2>1, <2>2 DEF CopiesProved, Claims
  <1>6. ASSUME NEW r \in mail, EmailEvent(r)
        PROVE  CopiesProved' /\ Claims'
    <2>1. /\ SetEmailVerified(r.id, r.verified, r.of) /\ mail' \subseteq mail
          /\ UNCHANGED <<zitadel, verified, address, hook, sw, proved>>
      BY <1>6 DEF EmailEvent, EventVerified, zitadelVars, history
    <2>2. /\ r.id \in Users /\ r.verified \in BOOLEAN /\ r.of \in Nat
          /\ r.verified = TRUE => <<r.id, r.of>> \in proved
      BY <1>1 DEF Row, CopiesProved
    <2>3. Claims'
      BY <2>1, <2>2, SetEmailVerifiedClaims
    <2> QED BY <2>1, <2>3 DEF CopiesProved
  <1> QED BY <1>2, <1>3, <1>4, <1>5, <1>6 DEF Webhooks

(* Accounts are deleted, and no proof with them. *)
LEMMA DeletedStaysKnown ==
  ASSUME CopiesProved, \A w \in Users : zitadel'[w] = zitadel[w] \/ zitadel'[w] = "deleted",
         UNCHANGED <<verified, address, hook, mail, sw, proved>>
  PROVE  CopiesProved'
  <1>1. \A w \in Users : zitadel[w] # "never" => zitadel'[w] # "never"
    OBVIOUS
  <1> QED BY <1>1 DEF CopiesProved

LEMMA UserControllerProof ==
  ASSUME ProofInv, NEW u \in Users, UserController(u)
  PROVE  CopiesProved' /\ Claims'
  <1>1. UNCHANGED <<verified, address, hook, mail, sw, proved>>
    BY DEF UserController, ReconcileGet, AddFinalizer, FinalizeGet, FinalizeDelete,
           RemoveFinalizer, zitadelVars, hookVars, history
  <1>2. /\ cr' \in {cr, [cr EXCEPT ![u].fin = TRUE], [cr EXCEPT ![u] = NoUser]}
        /\ zitadel' \in {zitadel, [zitadel EXCEPT ![u] = "deleted"]}
    BY DEF UserController, ReconcileGet, AddFinalizer, FinalizeGet, FinalizeDelete,
           RemoveFinalizer, zitadelVars
  <1>3. Claimless
    BY <1>2 DEF ProofInv, TypeOK, UserCR, NoUser, Claimless
  <1>4. \A w \in Users : zitadel'[w] = zitadel[w] \/ zitadel'[w] = "deleted"
    BY <1>2 DEF ProofInv, TypeOK
  <1> QED BY <1>1, <1>3, <1>4, NoNewClaim, DeletedStaysKnown DEF ProofInv

LEMMA UserSweeperProof ==
  ASSUME ProofInv, UserSweeper
  PROVE  CopiesProved' /\ Claims'
  <1> USE DEF ProofInv
  <1>1. UNCHANGED <<zitadel, verified, address, hook, mail, proved>>
    BY DEF UserSweeper, SweepStart, SweepList, SweepExisting, SweepMissing, SweepNextPage,
           zitadelVars, hookVars, history
  <1>2. sw \in Sweep
    BY DEF TypeOK
  <1>3. CASE SweepStart \/ SweepNextPage
    <2>1. sw'.rows \subseteq sw.rows
      <3>1. CASE SweepStart
        BY <3>1 DEF SweepStart, NotSweeping
      <3>2. CASE SweepNextPage
        <4>1. [sw EXCEPT !.pc = "list", !.offset = @ + PageSize].rows = sw.rows
          BY <1>2 DEF Sweep
        <4> QED BY <3>2, <4>1 DEF SweepNextPage, NotSweeping
      <3> QED BY <1>3, <3>1, <3>2
    <2>2. UNCHANGED cr
      BY <1>3 DEF SweepStart, SweepNextPage, miloVars
    <2> QED BY <1>1, <2>1, <2>2 DEF CopiesProved, Claims
  <1>4. CASE SweepList
    <2>1. sw'.rows \subseteq Rows(Page(sw.offset)) /\ UNCHANGED cr
      <3>1. [sw EXCEPT !.pc = "rows", !.rows = Rows(Page(sw.offset)),
                       !.full = IsFull(Page(sw.offset))].rows = Rows(Page(sw.offset))
        BY <1>2 DEF Sweep
      <3>2. NotSweeping.rows = {}
        BY DEF NotSweeping
      <3> QED BY <1>4, <3>1, <3>2 DEF SweepList, miloVars
    <2>2. \A r \in Rows(Page(sw.offset)) : r.id \in Users /\ r.verified = verified[r.id] /\
                                            (r.verified = TRUE => r.of = address[r.id])
      BY DEF Rows, Page, Present, Proof
    <2> QED BY <1>1, <2>1, <2>2 DEF CopiesProved, Claims
  <1>5. CASE SweepExisting
    <2>1. PICK r \in sw.rows :
            /\ sw' = [sw EXCEPT !.rows = @ \ {r}]
            /\ SetEmailVerified(r.id, r.verified, r.of) \/ UNCHANGED miloVars
      BY <1>5 DEF SweepExisting
    <2>2. /\ r.id \in Users /\ r.verified \in BOOLEAN /\ r.of \in Nat
          /\ r.verified = TRUE => <<r.id, r.of>> \in proved
      BY <1>2 DEF Sweep, Row, CopiesProved
    <2>3. Claims'
      <3>1. CASE SetEmailVerified(r.id, r.verified, r.of)
        BY <1>1, <2>2, <3>1, SetEmailVerifiedClaims
      <3>2. CASE UNCHANGED miloVars
        BY <1>1, <3>2 DEF miloVars, Claims
      <3> QED BY <2>1, <3>1, <3>2
    <2>4. sw'.rows \subseteq sw.rows
      BY <1>2, <2>1 DEF Sweep
    <2> QED BY <1>1, <2>3, <2>4 DEF CopiesProved
  <1>6. CASE SweepMissing
    <2>1. PICK r \in sw.rows :
            /\ sw' \in {[sw EXCEPT !.rows = @ \ {r}], NotSweeping}
            /\ EnsureUser(r.id) \/ UNCHANGED miloVars
      BY <1>6 DEF SweepMissing
    <2>2. r.id \in Users
      BY <1>2 DEF Sweep, Row
    <2>3. Claims'
      <3>1. CASE EnsureUser(r.id)
        BY <1>1, <2>2, <3>1, EnsureUserClaims, NoNewClaim
      <3>2. CASE UNCHANGED miloVars
        BY <1>1, <3>2 DEF miloVars, Claims
      <3> QED BY <2>1, <3>1, <3>2
    <2>4. sw'.rows \subseteq sw.rows
      BY <1>2, <2>1 DEF Sweep, NotSweeping
    <2> QED BY <1>1, <2>3, <2>4 DEF CopiesProved
  <1> QED BY <1>3, <1>4, <1>5, <1>6 DEF UserSweeper

LEMMA AbandonedUserGCProof ==
  ASSUME ProofInv, AbandonedUserGC
  PROVE  CopiesProved' /\ Claims'
  <1>1. UNCHANGED <<verified, address, hook, mail, sw, proved>>
    BY DEF AbandonedUserGC, CollectStart, CollectList, CollectExamine, CollectZitadel,
           CollectMilo, CollectNextPage, zitadelVars, hookVars, history
  <1>2. /\ UNCHANGED cr \/ \E r \in gc.rows : DeleteUserCR(r.id)
        /\ UNCHANGED zitadel \/ \E r \in gc.rows : zitadel' = [zitadel EXCEPT ![r.id] = "deleted"]
    BY DEF AbandonedUserGC, CollectStart, CollectList, CollectExamine, CollectZitadel,
           CollectMilo, CollectNextPage, miloVars, zitadelVars
  <1>3. \A r \in gc.rows : r.id \in Users
    BY DEF ProofInv, TypeOK, Collection, Row
  <1>4. Claimless
    BY <1>2, <1>3, DeleteUserCRClaims DEF ProofInv, Claimless
  <1>5. \A w \in Users : zitadel'[w] = zitadel[w] \/ zitadel'[w] = "deleted"
    BY <1>2 DEF ProofInv, TypeOK
  <1> QED BY <1>1, <1>4, <1>5, NoNewClaim, DeletedStaysKnown DEF ProofInv

LEMMA NextProof == ProofInv /\ [Next]_vars => ProofInv'
  <1> SUFFICES ASSUME ProofInv, [Next]_vars PROVE ProofInv'
    OBVIOUS
  <1>1. TypeOK'
    BY NextTypeOK DEF ProofInv
  <1>2. ASSUME NEW u \in Users, Environment(u) \/ Webhooks(u) \/ UserController(u)
        PROVE  CopiesProved' /\ Claims'
    BY <1>2, EnvironmentProof, WebhooksProof, UserControllerProof
  <1>3. CASE Restart
    <2>1. UNCHANGED <<zitadel, address, cr, verified, hook, mail, proved>> /\ sw' = NotSweeping
      BY <1>3 DEF Restart, zitadelVars, hookVars, history
    <2> QED BY <1>1, <2>1 DEF ProofInv, CopiesProved, Claims, NotSweeping
  <1>4. CASE UNCHANGED vars
    BY <1>1, <1>4 DEF vars, zitadelVars, miloVars, hookVars, history, ProofInv, CopiesProved,
                      Claims
  <1> QED BY <1>1, <1>2, <1>3, <1>4, UserSweeperProof, AbandonedUserGCProof DEF Next, ProofInv

(* emailverified.Set and its callers: the status says Verified only of an address that was
   proven, and of the present one only if it is, however late and in whatever order the
   events and listings arrive. *)
THEOREM ClaimsTrue == Spec => []VerifiedWasProved
  <1>1. Init => ProofInv
    <2> SUFFICES ASSUME Init PROVE CopiesProved /\ Claims
      BY InitTypeOK DEF ProofInv
    <2> QED BY DEF Init, CopiesProved, Claims, NoUser, NoRequest, NotSweeping
  <1>2. ProofInv => VerifiedWasProved
    <2> SUFFICES ASSUME ProofInv, NEW u \in Users, cr[u].ev = "Verified"
                 PROVE  <<u, cr[u].of>> \in proved /\ (cr[u].of = address[u] => verified[u])
      BY DEF VerifiedWasProved
    <2>1. cr[u].of \in Nat /\ verified[u] \in BOOLEAN
      BY DEF ProofInv, TypeOK, UserCR
    <2>2. <<u, cr[u].of>> \in proved
      BY DEF ProofInv, Claims
    <2>3. cr[u].of = address[u] => verified[u] = TRUE
      BY <2>1, <2>2 DEF ProofInv, CopiesProved
    <2> QED BY <2>2, <2>3
  <1> QED BY <1>1, <1>2, NextProof, PTL DEF Spec

=============================================================================
