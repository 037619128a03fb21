--------------------------- MODULE UserLifecycle ---------------------------
(***************************************************************************)
(* The life of a human account, kept twice: as a user of Zitadel and as a  *)
(* User resource (CR) of the milo control plane, whose name is the Zitadel *)
(* user ID.  Four actors of this repository keep the two in step:          *)
(*                                                                         *)
(*   - UserController  (internal/controller/user_controller.go)            *)
(*   - UserSweeper     (internal/controller/user_sweep.go)                 *)
(*   - AbandonedUserGC (internal/controller/abandoned_user_gc.go)          *)
(*   - the create-user-account and email webhooks of the actions server    *)
(*     (internal/httpactionsserver/server.go, email_verified.go)           *)
(*                                                                         *)
(* Every remote call is a step of its own, so the actors interleave        *)
(* between any two calls.  A call may fail; the number of failures and of  *)
(* controller restarts is bounded by MaxFaults.  The optimistic            *)
(* concurrency of the API server is kept as one bit per reconcile: fresh   *)
(* is lost when the CR changes after the reconcile read it.  Reads through *)
(* the informer cache are reads made earlier than the step that uses them. *)
(***************************************************************************)
EXTENDS Naturals, FiniteSets

CONSTANTS
    Users,         \* Zitadel user IDs; Zitadel never hands one out twice
    Nameless,      \* users for which Zitadel reports no login name
    Undated,       \* users for which Zitadel reports no creation date
    PageSize,      \* sweepPageSize
    SweepEnabled,  \* UserSweeper.Interval > 0
    GCEnabled,     \* AbandonedUserGC.Interval > 0 and Retention > 0
    DryRun,        \* AbandonedUserGC.DryRun
    Linkable,      \* users who may have links to an external identity provider
    Deletable,     \* users whose resource an operator may delete
    MaxEmailSteps, \* bound on the changes users make to their addresses
    MaxFaults      \* bound on failed calls and restarts

ASSUME UsersAssumption == Users \subseteq Nat
ASSUME SubsetsAssumption ==
    /\ Nameless \subseteq Users
    /\ Undated \subseteq Users
    /\ Linkable \subseteq Users
    /\ Deletable \subseteq Users
ASSUME PageSizeAssumption == PageSize \in Nat \ {0}
ASSUME FlagsAssumption ==
    SweepEnabled \in BOOLEAN /\ GCEnabled \in BOOLEAN /\ DryRun \in BOOLEAN
ASSUME BoundsAssumption == MaxEmailSteps \in Nat /\ MaxFaults \in Nat

VARIABLES
    zitadel,    \* what Zitadel holds under each ID: never / present / deleted
    verified,   \* Zitadel's IsEmailVerified
    address,    \* which address the user has, counted from 1
    idp,        \* users with a link to an external identity provider
    aged,       \* users created longer ago than the GC's retention
    cr,         \* the User resource of each ID
    queue,      \* UserController's work queue
    rec,        \* the reconcile in progress for each ID
    hook,       \* the create-user-account request of each ID
    mail,       \* email events on their way, in no order
    sw,         \* the sweep in progress
    gc,         \* the collection in progress
    doomed,     \* history: users whose CR an operator deleted
    proved,     \* history: the addresses that were verified, with their users
    emailSteps, \* email changes so far
    faults      \* failures so far

zitadelVars == <<zitadel, verified, address, idp, aged>>
miloVars    == <<cr, queue, rec>>
hookVars    == <<hook, mail>>
history     == <<doomed, proved>>
vars == <<zitadelVars, miloVars, hookVars, sw, gc, history, emailSteps, faults>>

-----------------------------------------------------------------------------
(* Data *)

EmailVerification == {"Unknown", "Verified", "Unverified"}
UserCR == [phase : {"absent", "live", "deleting"},
           fin   : BOOLEAN,               \* userFinalizerKey is present
           ev    : EmailVerification,     \* status.emailVerification
           of    : Nat]                   \* history: the address that Verified is said of
NoUser  == [phase |-> "absent", fin |-> FALSE, ev |-> "Unknown", of |-> 0]
\* userprovision.NewUser, as it is stored
NewUser == [phase |-> "live", fin |-> FALSE, ev |-> "Unknown", of |-> 0]
Exists(u) == cr[u].phase # "absent"

\* What a row of a ListHumanUsers page or an email event says of a user.  of is history:
\* the address it is about, for a row 0 where that is unproven.
Row == [id : Users, verified : BOOLEAN, of : Nat]
Proof(u) == IF verified[u] THEN address[u] ELSE 0

Reconcile == [pc : {"idle", "addFinalizer", "getUser", "deleteUser", "removeFinalizer"},
              fresh : BOOLEAN]
NotReconciling == [pc |-> "idle", fresh |-> FALSE]

HookRequest == [pc : {"none", "pending", "created", "seeding"},
                val : BOOLEAN, of : Nat]
NoRequest == [pc |-> "none", val |-> FALSE, of |-> 0]

\* rows is what is left of the page, full that raw = sweepPageSize (there is
\* another page), existing the listing of User resources the sweep diffs against
Sweep == [pc : {"idle", "list", "rows"},
          existing : [Users -> EmailVerification \cup {"missing"}],
          offset : Nat, full : BOOLEAN, rows : SUBSET Row]
NotSweeping == [pc |-> "idle", existing |-> [u \in Users |-> "missing"],
                offset |-> 0, full |-> FALSE, rows |-> {}]

\* cutoff is the set of users created before the sweep's cutoff time; unproven and
\* unlinked are history: who of them was so at some time since the sweep began
Collection == [pc : {"idle", "list", "rows", "deleteZitadel", "deleteMilo"},
               cutoff : SUBSET Users, unproven : SUBSET Users, unlinked : SUBSET Users,
               offset : Nat, full : BOOLEAN, rows : SUBSET Row]
NotCollecting == [pc |-> "idle", cutoff |-> {}, unproven |-> {}, unlinked |-> {},
                  offset |-> 0, full |-> FALSE, rows |-> {}]

TypeOK ==
    /\ zitadel \in [Users -> {"never", "present", "deleted"}]
    /\ verified \in [Users -> BOOLEAN]
    /\ address \in [Users -> Nat]
    /\ idp \in SUBSET Users
    /\ aged \in SUBSET Users
    /\ cr \in [Users -> UserCR]
    /\ queue \in SUBSET Users
    /\ rec \in [Users -> Reconcile]
    /\ hook \in [Users -> HookRequest]
    /\ mail \in SUBSET Row
    /\ sw \in Sweep
    /\ gc \in Collection
    /\ doomed \in SUBSET Users
    /\ proved \in SUBSET (Users \X Nat)
    /\ emailSteps \in Nat
    /\ faults \in Nat

Init ==
    /\ zitadel = [u \in Users |-> "never"]
    /\ verified = [u \in Users |-> FALSE]
    /\ address = [u \in Users |-> 0]
    /\ idp = {}
    /\ aged = {}
    /\ cr = [u \in Users |-> NoUser]
    /\ queue = {}
    /\ rec = [u \in Users |-> NotReconciling]
    /\ hook = [u \in Users |-> NoRequest]
    /\ mail = {}
    /\ sw = NotSweeping
    /\ gc = NotCollecting
    /\ doomed = {}
    /\ proved = {}
    /\ emailSteps = 0
    /\ faults = 0

-----------------------------------------------------------------------------
(* Shared operations *)

Fault == faults < MaxFaults /\ faults' = faults + 1
NoFault == UNCHANGED faults

\* A write to the CR by anyone but its reconcile: the watch enqueues it, and a
\* reconcile that already read it will find its resourceVersion outdated.
WriteUser(u, new) ==
    /\ cr' = [cr EXCEPT ![u] = new]
    /\ queue' = queue \cup {u}
    /\ rec' = [rec EXCEPT ![u].fresh = FALSE]

\* The API server removes an object at once unless a finalizer holds it.
DeleteUserCR(u) ==
    IF Exists(u)
      THEN WriteUser(u, IF cr[u].fin THEN [cr[u] EXCEPT !.phase = "deleting"] ELSE NoUser)
      ELSE UNCHANGED miloVars

\* userprovision.EnsureUser: AlreadyExists is success
EnsureUser(u) ==
    IF Exists(u) THEN UNCHANGED miloVars ELSE WriteUser(u, NewUser)

\* emailverified: Desired, NeedsUpdate and Set.  Set retries on conflict, so its
\* write takes effect on the CR as it is at that moment.
Desired(v) == IF v THEN "Verified" ELSE "Unverified"
\* Written once, never corrected
NeedsUpdate_OnlyUnknown(ev, v) == ev = "Unknown"
NeedsUpdate(ev, v) == ev # Desired(v)
SetEmailVerified(u, v, a) ==
    IF Exists(u) /\ NeedsUpdate(cr[u].ev, v)
      THEN WriteUser(u, [cr[u] EXCEPT !.ev = Desired(v), !.of = IF v THEN a ELSE 0])
      ELSE UNCHANGED miloVars

\* ListHumanUsers: humans in ascending order, from offset, at most PageSize
Present == {u \in Users : zitadel[u] = "present"}
Rank(u) == Cardinality({v \in Present : v < u})
Page(offset) == {u \in Present : Rank(u) >= offset /\ Rank(u) < offset + PageSize}
\* Only a page that is too long is followed by another
IsFull_Strict(page) == Cardinality(page) > PageSize
IsFull(page) == Cardinality(page) = PageSize
Rows(page) == {[id |-> u, verified |-> verified[u], of |-> Proof(u)] : u \in page}
IsFirst(r, rows) == r \in rows /\ \A s \in rows : r.id <= s.id

-----------------------------------------------------------------------------
(* Zitadel, its users and the operators of the platform (outside this code) *)

\* What a collection under way would have seen of the user, had it looked just then
Witness(u, unproven, unlinked) ==
    gc' = IF u \notin gc.cutoff THEN gc
          ELSE [gc EXCEPT !.unproven = IF unproven THEN @ \cup {u} ELSE @,
                          !.unlinked = IF unlinked THEN @ \cup {u} ELSE @]

\* A user registers; Zitadel calls the create-user-account webhook.
SignUp(u, v, external) ==
    /\ zitadel[u] = "never"
    /\ external => u \in Linkable
    /\ zitadel' = [zitadel EXCEPT ![u] = "present"]
    /\ verified' = [verified EXCEPT ![u] = v]
    /\ address' = [address EXCEPT ![u] = 1]
    /\ idp' = IF external THEN idp \cup {u} ELSE idp \ {u}
    /\ proved' = IF v THEN proved \cup {<<u, 1>>} ELSE proved
    /\ hook' = [hook EXCEPT ![u].pc = "pending"]
    /\ UNCHANGED <<aged, miloVars, mail, sw, gc, doomed, emailSteps, faults>>

\* The user proves the address; Zitadel sends user.human.email.verified.
VerifyEmail(u) ==
    /\ zitadel[u] = "present"
    /\ ~verified[u]
    /\ emailSteps < MaxEmailSteps
    /\ emailSteps' = emailSteps + 1
    /\ verified' = [verified EXCEPT ![u] = TRUE]
    /\ proved' = proved \cup {<<u, address[u]>>}
    /\ mail' = mail \cup {[id |-> u, verified |-> TRUE, of |-> address[u]]}
    /\ UNCHANGED <<zitadel, address, idp, aged, miloVars, hook, sw, gc, doomed, faults>>

\* The user replaces the address, which is unproven again; user.human.email.changed.
ReplaceEmail(u) ==
    /\ zitadel[u] = "present"
    /\ emailSteps < MaxEmailSteps
    /\ emailSteps' = emailSteps + 1
    /\ verified' = [verified EXCEPT ![u] = FALSE]
    /\ address' = [address EXCEPT ![u] = @ + 1]
    /\ mail' = mail \cup {[id |-> u, verified |-> FALSE, of |-> address[u] + 1]}
    /\ Witness(u, TRUE, FALSE)
    /\ UNCHANGED <<zitadel, idp, aged, miloVars, hook, sw, history, faults>>

\* The user adds a link to an external identity provider, or takes the last one off.
ChangeLinks(u) ==
    /\ zitadel[u] = "present"
    /\ u \in Linkable
    /\ idp' = IF u \in idp THEN idp \ {u} ELSE idp \cup {u}
    /\ Witness(u, FALSE, u \in idp)
    /\ UNCHANGED <<zitadel, verified, address, aged, miloVars, hookVars, sw, history,
                   emailSteps, faults>>

\* The retention window of an account passes; without the GC there is none.
Age(u) ==
    /\ GCEnabled
    /\ zitadel[u] = "present"
    /\ aged' = aged \cup {u}
    /\ UNCHANGED <<zitadel, verified, address, idp, miloVars, hookVars, sw, gc, history,
                   emailSteps, faults>>

\* An operator of milo deletes the User resource, once per account.
OperatorDelete(u) ==
    /\ cr[u].phase = "live"
    /\ u \in Deletable \ doomed
    /\ DeleteUserCR(u)
    /\ doomed' = doomed \cup {u}
    /\ UNCHANGED <<zitadelVars, hookVars, sw, gc, proved, emailSteps, faults>>

Environment(u) ==
    \/ \E v, external \in BOOLEAN : SignUp(u, v, external)
    \/ VerifyEmail(u)
    \/ ReplaceEmail(u)
    \/ ChangeLinks(u)
    \/ Age(u)
    \/ OperatorDelete(u)

-----------------------------------------------------------------------------
(* Actions server: create-user-account *)

\* createUserAccountHandler up to EnsureUser.  "already exists" ends the request.
HookCreate(u) ==
    /\ hook[u].pc = "pending"
    /\ EnsureUser(u)
    /\ hook' = [hook EXCEPT ![u].pc = IF Exists(u) THEN "none" ELSE "created"]
    /\ UNCHANGED <<zitadelVars, mail, sw, gc, history, emailSteps, faults>>

\* The rest of the handler: read the user back from Zitadel ...
HookSeed(u) ==
    /\ hook[u].pc = "created"
    /\ zitadel[u] = "present"
    /\ hook' = [hook EXCEPT ![u] =
          [pc |-> "seeding", val |-> verified[u], of |-> Proof(u)]]
    /\ UNCHANGED <<zitadelVars, miloVars, mail, sw, gc, history, emailSteps, faults>>

\* ... and record the initial EmailVerification.
HookSet(u) ==
    /\ hook[u].pc = "seeding"
    /\ SetEmailVerified(u, hook[u].val, hook[u].of)
    /\ hook' = [hook EXCEPT ![u] = NoRequest]
    /\ UNCHANGED <<zitadelVars, mail, sw, gc, history, emailSteps, faults>>

\* The request is lost before it is served, or its best-effort rest is skipped:
\* no SDK client yet, user not found, an error, a restart of the sidecar.
HookAbandon(u) ==
    /\ hook[u].pc # "none"
    /\ hook' = [hook EXCEPT ![u] = NoRequest]
    /\ UNCHANGED <<zitadelVars, miloVars, mail, sw, gc, history, emailSteps, faults>>

\* Zitadel delivers the same event once more.
HookRedeliver(u) ==
    /\ hook[u].pc = "none"
    /\ zitadel[u] # "never"
    /\ Fault
    /\ hook' = [hook EXCEPT ![u].pc = "pending"]
    /\ UNCHANGED <<zitadelVars, miloVars, mail, sw, gc, history, emailSteps>>

\* Both event types are taken for a proof
EventVerified_Always(r) == TRUE
\* The value an email event carries: verified, or changed and so unproven
EventVerified(r) == r.verified

\* emailVerifiedHandler: a missing User answers 404 and the event is gone.  The
\* event may be delivered again.
EmailEvent(r) ==
    /\ r \in mail
    /\ SetEmailVerified(r.id, EventVerified(r), r.of)
    /\ \/ mail' = mail \ {r} /\ NoFault
       \/ mail' = mail /\ Fault
    /\ UNCHANGED <<zitadelVars, hook, sw, gc, history, emailSteps>>

Webhooks(u) ==
    \/ HookCreate(u)
    \/ HookSeed(u)
    \/ HookSet(u)
    \/ HookAbandon(u)
    \/ HookRedeliver(u)
    \/ \E r \in mail : r.id = u /\ EmailEvent(r)

-----------------------------------------------------------------------------
(* UserController *)

SetRec(u, pc) == rec' = [rec EXCEPT ![u].pc = pc]
EndRec(u) == rec' = [rec EXCEPT ![u] = NotReconciling]
\* The error is swallowed and the request forgotten
Requeue_Forgets(u) == EndRec(u) /\ UNCHANGED queue
\* Reconcile returns an error: the work queue keeps the request.
Requeue(u) == EndRec(u) /\ queue' = queue \cup {u}

\* Reconcile: Get the User, then what the finalizer library does with it
ReconcileGet(u) ==
    /\ u \in queue
    /\ rec[u].pc = "idle"
    /\ queue' = queue \ {u}
    /\ rec' = [rec EXCEPT ![u] =
          IF cr[u].phase = "live" /\ ~cr[u].fin
            THEN [pc |-> "addFinalizer", fresh |-> TRUE]
          ELSE IF cr[u].phase = "deleting" /\ cr[u].fin
            THEN [pc |-> "getUser", fresh |-> TRUE]
          ELSE NotReconciling]
    /\ UNCHANGED <<zitadelVars, cr, hookVars, sw, gc, history, emailSteps, faults>>

\* Client.Update with the finalizer added; a conflict or an error is retried
AddFinalizer(u) ==
    /\ rec[u].pc = "addFinalizer"
    /\ \/ /\ rec[u].fresh
          /\ cr' = [cr EXCEPT ![u].fin = TRUE]
          /\ Requeue(u)
          /\ NoFault
       \/ /\ (~rec[u].fresh /\ NoFault) \/ Fault
          /\ Requeue(u)
          /\ UNCHANGED cr
    /\ UNCHANGED <<zitadelVars, hookVars, sw, gc, history, emailSteps>>

\* Any answer is taken for "not found"
AfterGetUser_NeverDeletes(u) == "removeFinalizer"
AfterGetUser(u) == IF zitadel[u] = "present" THEN "deleteUser" ELSE "removeFinalizer"

\* userFinalizer.Finalize: GetUser
FinalizeGet(u) ==
    /\ rec[u].pc = "getUser"
    /\ \/ /\ SetRec(u, AfterGetUser(u))
          /\ UNCHANGED queue
          /\ NoFault
       \/ Requeue(u) /\ Fault
    /\ UNCHANGED <<zitadelVars, cr, hookVars, sw, gc, history, emailSteps>>

\* userFinalizer.Finalize: DeleteUser.  The HTTP client reports a 404 as an error;
\* a call that fails may have taken effect.
FinalizeDelete(u) ==
    /\ rec[u].pc = "deleteUser"
    /\ \/ /\ zitadel[u] = "present"
          /\ zitadel' = [zitadel EXCEPT ![u] = "deleted"]
          /\ SetRec(u, "removeFinalizer")
          /\ UNCHANGED queue
          /\ NoFault
       \/ /\ zitadel[u] # "present" /\ UNCHANGED zitadel /\ NoFault
          /\ Requeue(u)
       \/ /\ zitadel' \in {zitadel, [zitadel EXCEPT ![u] = "deleted"]}
          /\ Requeue(u)
          /\ Fault
    /\ UNCHANGED <<verified, address, idp, aged, cr, hookVars, sw, gc, history, emailSteps>>

\* Client.Update with the finalizer removed: the API server drops the object
RemoveFinalizer(u) ==
    /\ rec[u].pc = "removeFinalizer"
    /\ \/ /\ rec[u].fresh
          /\ cr' = [cr EXCEPT ![u] = NoUser]
          /\ Requeue(u)
          /\ NoFault
       \/ /\ (~rec[u].fresh /\ NoFault) \/ Fault
          /\ Requeue(u)
          /\ UNCHANGED cr
    /\ UNCHANGED <<zitadelVars, hookVars, sw, gc, history, emailSteps>>

UserController(u) ==
    \/ ReconcileGet(u)
    \/ AddFinalizer(u)
    \/ FinalizeGet(u)
    \/ FinalizeDelete(u)
    \/ RemoveFinalizer(u)

-----------------------------------------------------------------------------
(* UserSweeper *)

\* sweepOnce: one List of the User resources per sweep
SweepStart ==
    /\ SweepEnabled
    /\ sw.pc = "idle"
    /\ sw' = [NotSweeping EXCEPT !.pc = "list",
                 !.existing = [u \in Users |-> IF Exists(u) THEN cr[u].ev ELSE "missing"]]
    /\ UNCHANGED <<zitadelVars, miloVars, hookVars, gc, history, emailSteps, faults>>

\* ListHumanUsers at the sweep's offset; an error aborts the sweep
SweepList ==
    /\ sw.pc = "list"
    /\ \/ /\ sw' = [sw EXCEPT !.pc = "rows", !.rows = Rows(Page(sw.offset)),
                    !.full = IsFull(Page(sw.offset))]
          /\ NoFault
       \/ sw' = NotSweeping /\ Fault
    /\ UNCHANGED <<zitadelVars, miloVars, hookVars, gc, history, emailSteps>>

\* One user of the page that the listing knows: reconcile its EmailVerification.
\* A failure is logged and the sweep goes on.
SweepExisting ==
    /\ sw.pc = "rows"
    /\ \E r \in sw.rows :
         /\ IsFirst(r, sw.rows)
         /\ sw.existing[r.id] # "missing"
         /\ sw' = [sw EXCEPT !.rows = @ \ {r}]
         /\ \/ /\ IF NeedsUpdate(sw.existing[r.id], r.verified)
                    THEN SetEmailVerified(r.id, r.verified, r.of)
                    ELSE UNCHANGED miloVars
               /\ NoFault
            \/ UNCHANGED miloVars /\ Fault
    /\ UNCHANGED <<zitadelVars, hookVars, gc, history, emailSteps>>

\* One user of the page that the listing does not know: create its User.  A
\* failure aborts the sweep.
SweepMissing ==
    /\ sw.pc = "rows"
    /\ \E r \in sw.rows :
         /\ IsFirst(r, sw.rows)
         /\ sw.existing[r.id] = "missing"
         /\ \/ EnsureUser(r.id) /\ sw' = [sw EXCEPT !.rows = @ \ {r}] /\ NoFault
            \/ UNCHANGED miloVars /\ sw' = NotSweeping /\ Fault
    /\ UNCHANGED <<zitadelVars, hookVars, gc, history, emailSteps>>

\* End of the page: a short page ends the sweep, a full one moves the offset
SweepNextPage ==
    /\ sw.pc = "rows"
    /\ sw.rows = {}
    /\ sw' = IF sw.full THEN [sw EXCEPT !.pc = "list", !.offset = @ + PageSize]
                        ELSE NotSweeping
    /\ UNCHANGED <<zitadelVars, miloVars, hookVars, gc, history, emailSteps, faults>>

UserSweeper == SweepStart \/ SweepList \/ SweepExisting \/ SweepMissing \/ SweepNextPage

-----------------------------------------------------------------------------
(* AbandonedUserGC *)

\* SDKClient.ListIDPLinks: the external links, or else a local identity made up
\* from the user's login name; empty for a user that has neither
ListIDPLinks(u) ==
    IF u \in idp THEN {"external"} ELSE IF u \in Nameless THEN {} ELSE {"zitadel-local"}
\* Only the local identity counts
HasIDPLink_LocalOnly(u) == "zitadel-local" \in ListIDPLinks(u)
HasIDPLink(u) == ListIDPLinks(u) # {}
IsAbandoned(r, cutoff) == ~r.verified /\ r.id \notin Undated /\ r.id \in cutoff

\* sweepOnce: the cutoff time is fixed when the sweep starts
CollectStart ==
    /\ GCEnabled
    /\ gc.pc = "idle"
    /\ gc' = [NotCollecting EXCEPT !.pc = "list", !.cutoff = aged,
                 !.unproven = {u \in aged : ~verified[u]}, !.unlinked = aged \ idp]
    /\ UNCHANGED <<zitadelVars, miloVars, hookVars, sw, history, emailSteps, faults>>

CollectList ==
    /\ gc.pc = "list"
    /\ \/ /\ gc' = [gc EXCEPT !.pc = "rows", !.rows = Rows(Page(gc.offset)),
                    !.full = IsFull(Page(gc.offset))]
          /\ NoFault
       \/ gc' = NotCollecting /\ Fault
    /\ UNCHANGED <<zitadelVars, miloVars, hookVars, sw, history, emailSteps>>

\* milo first
Collect_MiloFirst(g) == [g EXCEPT !.pc = "deleteMilo"]
\* collect deletes the Zitadel user first
Collect(g) == [g EXCEPT !.pc = "deleteZitadel"]

\* One account of the page: skip it, or go on to collect it.  Unreadable links
\* (an error, or a user that is gone by now) skip it too.
CollectExamine ==
    /\ gc.pc = "rows"
    /\ \E r \in gc.rows :
         /\ IsFirst(r, gc.rows)
         /\ \/ /\ IF /\ IsAbandoned(r, gc.cutoff)
                     /\ zitadel[r.id] = "present"
                     /\ ~HasIDPLink(r.id)
                     /\ ~DryRun
                    THEN gc' = Collect(gc)
                    ELSE gc' = [gc EXCEPT !.rows = @ \ {r}]
               /\ NoFault
            \/ gc' = [gc EXCEPT !.rows = @ \ {r}] /\ Fault
    /\ UNCHANGED <<zitadelVars, miloVars, hookVars, sw, history, emailSteps>>

\* collect, first half.  The SDK client takes NotFound for success; a call that
\* fails may have taken effect, and the sweep goes on with the next account.
CollectZitadel ==
    /\ gc.pc = "deleteZitadel"
    /\ \E r \in gc.rows :
         /\ IsFirst(r, gc.rows)
         /\ \/ /\ zitadel' = [zitadel EXCEPT ![r.id] = "deleted"]
               /\ gc' = [gc EXCEPT !.pc = "deleteMilo"]
               /\ NoFault
            \/ /\ zitadel' \in {zitadel, [zitadel EXCEPT ![r.id] = "deleted"]}
               /\ gc' = [gc EXCEPT !.pc = "rows", !.rows = @ \ {r}]
               /\ Fault
    /\ UNCHANGED <<verified, address, idp, aged, miloVars, hookVars, sw, history, emailSteps>>

\* collect, second half: delete the User resource
CollectMilo ==
    /\ gc.pc = "deleteMilo"
    /\ \E r \in gc.rows :
         /\ IsFirst(r, gc.rows)
         /\ gc' = [gc EXCEPT !.pc = "rows", !.rows = @ \ {r}]
         /\ \/ DeleteUserCR(r.id) /\ NoFault
            \/ UNCHANGED miloVars /\ Fault
    /\ UNCHANGED <<zitadelVars, hookVars, sw, history, emailSteps>>

CollectNextPage ==
    /\ gc.pc = "rows"
    /\ gc.rows = {}
    /\ gc' = IF gc.full THEN [gc EXCEPT !.pc = "list", !.offset = @ + PageSize]
                        ELSE NotCollecting
    /\ UNCHANGED <<zitadelVars, miloVars, hookVars, sw, history, emailSteps, faults>>

AbandonedUserGC ==
    \/ CollectStart
    \/ CollectList
    \/ CollectExamine
    \/ CollectZitadel
    \/ CollectMilo
    \/ CollectNextPage

-----------------------------------------------------------------------------
(* The controller process, which holds UserController and both sweepers, stops *)
(* and another one takes over: the informers enqueue every User they list.     *)
Restart ==
    /\ Fault
    /\ rec' = [u \in Users |-> NotReconciling]
    /\ queue' = {u \in Users : Exists(u)}
    /\ sw' = NotSweeping
    /\ gc' = NotCollecting
    /\ UNCHANGED <<zitadelVars, cr, hookVars, history, emailSteps>>

Next ==
    \/ \E u \in Users : Environment(u) \/ Webhooks(u) \/ UserController(u)
    \/ UserSweeper
    \/ AbandonedUserGC
    \/ Restart

Spec == Init /\ [][Next]_vars

\* The manager runs its reconcilers and the two tickers for as long as it leads.
\* Nothing is assumed of Zitadel's webhooks, which may all be lost.
Fairness ==
    /\ \A u \in Users : WF_vars(UserController(u))
    /\ WF_vars(UserSweeper)
    /\ WF_vars(AbandonedUserGC)

FairSpec == Spec /\ Fairness

-----------------------------------------------------------------------------
(* Safety *)

\* An account disappears from Zitadel only because an operator deleted its User
\* resource (userFinalizer), or because the GC collects for real and the account was
\* past the retention window when the sweep began, is of known age, and was unverified
\* and without an external link at some time of that same sweep: the checks may be
\* outdated when the call is made, but they are of no earlier sweep and of no other
\* account (AbandonedUserGC.sweepOnce).
AccountGoneOnlyWithCause ==
    [][\A u \in Users : zitadel[u] = "present" /\ zitadel'[u] = "deleted" =>
          \/ u \in doomed
          \/ /\ GCEnabled /\ ~DryRun
             /\ u \in gc.cutoff \ Undated
             /\ u \in gc.unproven \cap gc.unlinked]_vars

\* "ORDERING IS NOT OPTIONAL": the GC touches a User resource only when its
\* Zitadel user is gone, so a User that is being deleted without an operator's
\* request has no Zitadel user for UserSweeper to recreate it from.
MiloDeletedAfterZitadel ==
    \A u \in Users : cr[u].phase = "deleting" => u \in doomed \/ zitadel[u] = "deleted"

\* status.emailVerification never claims a proof that nobody gave: whichever writer
\* wrote Verified, and however late, it speaks of an address that was verified while the
\* user had it, and of the present address only if that one is (emailverified.Set and
\* its three callers; an address that is replaced is unproven again).
VerifiedWasProved ==
    \A u \in Users : cr[u].ev = "Verified" =>
        /\ <<u, cr[u].of>> \in proved
        /\ cr[u].of = address[u] => verified[u]

\* A User that carries the provider's finalizer leaves the control plane only
\* after its Zitadel user has been deleted (UserController.Reconcile).
FinalizerReleasedLast ==
    [][\A u \in Users : cr[u].fin /\ cr'[u].phase = "absent" => zitadel[u] = "deleted"]_vars

\* AccountRemoval, with a User that carries the finalizer for one that is held, and
\* with the accounts the GC may collect for those that are past their time, the one it
\* is about to delete condemned
Resource(u) == IF cr[u].phase = "live" /\ cr[u].fin THEN "held" ELSE cr[u].phase
Collectable == IF GCEnabled /\ ~DryRun THEN aged \ (idp \cup Undated) ELSE {}
Condemned == IF gc.pc = "deleteZitadel" THEN {r.id : r \in {s \in gc.rows : IsFirst(s, gc.rows)}}
                                        ELSE {}
Removal == INSTANCE AccountRemoval WITH
    account <- zitadel, resource <- [u \in Users |-> Resource(u)],
    expired <- Collectable, condemned <- Condemned

\* Whoever signs up, sweeps, collects, reconciles or fails in whichever order, accounts
\* and their Users end as AccountRemoval says (userFinalizer, AbandonedUserGC.collect).
RemovedInOrder == Removal!Spec

-----------------------------------------------------------------------------
(* Liveness, under FairSpec *)

\* The backfill: every Zitadel human gets a User resource even if every
\* create-user-account call is lost (UserSweeper).
Backfilled ==
    \A u \in Users : zitadel[u] = "present" ~> Exists(u) \/ zitadel[u] = "deleted"

\* A missed, late or reordered email event heals: once the users stop changing
\* their addresses, status.emailVerification agrees with Zitadel for good.
EmailVerificationConverges ==
    <>[](\A u \in Users : zitadel[u] = "present" /\ Exists(u) =>
            cr[u].ev = Desired(verified[u]))

\* A User that is being deleted goes away and takes its Zitadel user with it.
DeletionCompletes ==
    \A u \in Users : cr[u].phase = "deleting" ~> ~Exists(u) /\ zitadel[u] = "deleted"

\* The GC "deletes accounts abandoned before email verification": no account stays
\* unverified, past the window and without an external link for ever.
Abandoned(u) == zitadel[u] = "present" /\ u \in aged \ idp /\ ~verified[u] /\ u \notin Undated
AbandonedAccountsCollected == \A u \in Users : Abandoned(u) ~> ~Abandoned(u)

=============================================================================
