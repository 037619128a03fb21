# A TLA+ model of the Zitadel provider

This directory specifies the Zitadel provider of milo: TLA+ modules for its
components, TLC configurations that check them on small instances, and proofs
for TLAPS. `PROJECT.json` maps each definition to the lines it models, and lists
the runs, the mutations each property is known to catch, the hazards and the
theorems.

    tlc -workers 2 -config UserLifecycle_safety.cfg MCUserLifecycle
    tlapm UserLifecycleProofs.tla
    tlapm ControllerManagerProofs.tla   # and so on for the other *Proofs modules

## The system

The provider keeps milo (a Kubernetes-style control plane) and Zitadel (the
identity provider) in agreement. It is one binary with several commands:

| Part | State | Operations | Works with |
|---|---|---|---|
| UserController | finalizer of each User | add it; delete the Zitadel user, then remove it | milo watch, Zitadel |
| UserSweeper | position in the paged listing | create missing Users, repair `status.emailVerification` | same process as the GC |
| AbandonedUserGC | position, cutoff time | delete unverified old accounts: Zitadel first, then the User | races the sweeper and the webhooks |
| create-user-account, email webhooks | `status.emailVerification` | create the User, set Verified or Unverified | called by Zitadel: late, repeated, lost |
| PlatformAccessController | Ready condition | activate or deactivate the Zitadel user | late informer cache |
| ServiceAccountController | finalizer, status | organization, machine user, its state, its deletion | ProjectController, through Zitadel only |
| ProjectController | finalizer | delete the organization | |
| Recovery, verification and registration-link endpoints | Email resources | check the budget, mint a code, mail it | several replicas; share only the Emails |
| Authentication webhook, Introspector | cached client assertion under an RWMutex | TokenReview | Zitadel introspection |
| Actions server | SDK client, set up in the background | suspicious-login and passkey mails | sidecar of Zitadel |
| Avatar sync | pending avatars by address | apply, keep for later, put back | three handlers of the actions server |
| Controller manager | the lease, the errgroup of each replica | elect, run the core manager, stop, exit | replicas of one deployment |
| Identity API | none | list sessions, passkeys and identities; end a session; create, list and delete machine keys | Zitadel, milo's access review |

Nothing is transactional: every operation is a sequence of calls to two remote
stores, any of which can fail or fail after taking effect, in processes that
restart and next to others that do the same. What is hard is therefore
interleaving, partial failure, stale reads and lost or reordered events; time
matters in the assertion cache, the mail budget and the lease. The `hazards` list in
`PROJECT.json` names each one at its line.

What makes each part correct: no account or resource disappears without a
reason and none is leaked; the finalizer outlives what it guards; both stores
converge when changes stop; claims (Verified, Ready, authenticated) are true
when made; the budget and the mail per code are kept; one replica acts at a
time; an answer was true while its request was served; nobody waits for ever.

## Modules

| Module | Models | Run module |
|---|---|---|
| `AccountRemoval` | what the provider promises of the end of an account and its User | |
| `UserLifecycle` | UserController, UserSweeper, AbandonedUserGC, the webhooks that write a User; implements `AccountRemoval` | `MCUserLifecycle` |
| `UserLifecycleProofs` | theorems about `UserLifecycle` | |
| `PlatformAccess` | PlatformAccessController, one PlatformAccess | itself |
| `PlatformAccessProofs` | theorems about `PlatformAccess` | |
| `ServiceAccounts` | ServiceAccountController and ProjectController, one project | itself |
| `ServiceAccountsProofs` | theorems about `ServiceAccounts` | |
| `RecoveryMail` | the three mail paths and the budget, one user | itself |
| `RecoveryMailProofs` | theorems about `RecoveryMail` | |
| `TokenReview` | authentication webhook and Introspector, one token | itself |
| `TokenReviewProofs` | theorems about `TokenReview` | |
| `ServerRequests` | the handlers and failed calls both models of the actions server have | |
| `ActionsServer` | start-up, login and passkey notices, one user | `MCActionsServer` |
| `AvatarCustody` | what the map of pending avatars promises | |
| `AvatarSync` | pending avatars and status patches, one user; implements `AvatarCustody` | itself |
| `ActionsServerProofs` | theorems about `AvatarSync` and `ActionsServer` | |
| `SingleActor` | what the replicas promise: one of them acts at a time | |
| `ControllerManager` | the replicas of the controller command and their lease; implements `SingleActor` | itself |
| `ControllerManagerProofs` | theorems about `ControllerManager` | |
| `IdentityAPI` | the requests of the identity API, for machine keys and for one person | `MCIdentityAPI` |
| `IdentityAPIProofs` | theorems about `IdentityAPI` | |

Conventions. A step is one remote call, one acquisition of a lock or one
decision between them, so anything can happen between two calls of a handler.
`rec`, `req`, `sw` and `gc` are the program counters and local variables of
reconciles, requests and sweeps. A `Fault` step is a call that fails; where the
code cannot tell, the call may have taken effect. `Restart` drops what the
controller process holds in memory and enqueues everything again, as the
informers do. `fresh` in a reconcile stands for the resourceVersion it read: a
write by anyone else clears it, and an Update then conflicts. A definition whose
name has a suffix after an underscore (`Collect_MiloFirst`) is a wrong version of
the one that follows it, for the mutation check only.

**UserLifecycle.** `zitadel`, `verified`, `address`, `idp`, `aged` are Zitadel's side
of each account, `cr` the User resource (phase, finalizer, emailVerification). `hook`
is the create-user-account call, `mail` the undelivered email events. Sweeper and GC
each walk the accounts in pages whose offsets shift when an account is deleted;
the rows of a page are copies and may be old. Addresses are counted: one that is
replaced is another, unproven one, and links to identity providers begin and end at
any time, also between the GC's checks and its delete. History: `doomed`, the Users an
operator deleted; `proved`, the addresses that were proven; the field `of` of a copy,
the address it speaks of; `gc.unproven` and `gc.unlinked`, who was unverified and who
had no link at some time of the present sweep. The choices
left open are the environment's: who registers how, whose address or links change,
which webhook call is lost. Age is a set an account enters at any moment; the
retention window itself does not appear. `Nameless` are accounts without a login
name, `Undated` those whose creation time is missing from the listing, `Linkable`
those who may have links.

**PlatformAccess.** Versions of the resource travel through `events` to `cache`,
in order and late. The status patch carries no resourceVersion and is applied to
whatever is there. A user may disappear from any state and come back, never
deactivated. `astray` is history: the user was lost while it was deactivated, or a
reconcile moved it and then failed or stopped before its patch, and no sync has been
recorded since.

**ServiceAccounts.** Two controllers that know nothing of each other meet in
Zitadel: the first ServiceAccount creates the organization, the Project's
finalizer deletes it with all its users. `Held` are ServiceAccounts on which
somebody else has put a finalizer too. `Undisturbed`: no call has failed and
nobody has written to a ServiceAccount while it was reconciled; only then does
`spec.state` surely reach Zitadel.

**RecoveryMail.** The Emails in the API server are the budget's only memory. An
Email's name is derived from the code it carries. The account's address may be
replaced and proven; the User takes the address of the moment it is made, and nothing
refreshes it, while writers that may be late set its status (`SetVerification`).
`proven`, and the field `of`, the address a Verified status is about, are history. The
checks on a request before its first call are one choice, acceptable or not.

**TokenReview.** `expires` is kept to the tick and the `exp` claim cut down to
the second; the time at which a goroutine read the clock is part of its state.
`MaxLag` bounds how long it is held up between that reading and the call. An active
token without any claim that could name its user is denied.

**ActionsServer.** Zitadel is reachable only when the pod is Ready, the pod only
when the server listens. A client whose construction failed is a nil pointer in
a non-nil interface (`typedNil`); its methods panic, which ends the request. A listing
of sessions ends at `QueryLimit` rows, as in `IdentityAPI`; `cut` (history) marks a
decision made on such a listing. `Templates` are the mails that are configured; the
others are skipped. `missed` is history: the passkey events that ended without a mail,
because a call failed or the User, the template or the client was not there. The HTTP
status of responses is not kept.

**AvatarSync.** One address: `pending` is its entry of the map. `kept`, `applied`
(written to the status, whether or not the call was answered), `confirmed` (and known to
be) and `dropped` are history. A patch that took effect without an answer counts as
failed: the avatar is put back and written again later. A patch carries the fields in
which its own copy differs, so two patches can mix.

**ControllerManager.** Each replica is a process: the main manager (`mgr`), the workers
beside it in the errgroup, and `core`, the controllers, which stand for the core
manager's and for ServiceAccountController in the main manager, since both start after
the election. Leader election is taken to be enabled, as the deployment must have it
with several replicas (the flag's default is off). `lease.age` counts ticks without a
renewal. Each replica's elector is a goroutine of its own beside the manager: it gives
up at `RenewDeadline`, others take over at `LeaseDuration`, which is what client-go does
and what `applyLeaderElection` sets the times for. When it gives up it releases the
lease, if asked to, before the manager hears of the loss. A leading manager then stops
without a grace period, with an error; one that is shutting down only logs the loss and
drains on. `late` is history: the replicas whose process was held up past the time the
election gives it, because its elector did not notice at `RenewDeadline` that it could
not renew, or its manager had not stopped when the lost lease expired. Such a leader
goes on beside its successor. `draining` is a call under way after the controllers were
told to stop. `broke` is history: something really failed.

**IdentityAPI.** Handlers serve requests call by call while the environment
creates and removes accounts and keys, or sessions, passkeys and links, and
grants or withdraws the permission to read another user. A machine account is a
name and a generation, so that one deleted and created again is told apart.
`was` is history: what existed at some time and all the time since the request
came. `Page` cuts a listing at Zitadel's query limit without a word, since the
client asks for no number of rows. `Suffixed` are accounts whose preferred login
name is not their user name. Whether the caller may end a session is Zitadel's
decision: the handler passes the name on.

## Runs

The runs use `Spec`, or `FairSpec` where they check liveness (`SettledSpec` is the
same from a settled population). Deadlock is checked for `UserLifecycle`, whose
tickers never stop, and for `ControllerManager`, whose processes are always
started again; the other systems come to rest when the bounded environment does.

| Run | Checks | Shows |
|---|---|---|
| `UserLifecycle_safety` | `AccountGoneOnlyWithCause`, `MiloDeletedAfterZitadel`, `RemovedInOrder` | with all actors, changes of address and links, a deletion and a fault around one account, things go away only for a reason and in the order of `AccountRemoval` |
| `UserLifecycle_convergence` | `VerifiedWasProved`, `EmailVerificationConverges`, `DeletionCompletes` | with two email events on the way in any order, all webhook calls free to get lost, and a fault, the status claims no proof that was not given, and the stores converge |
| `UserLifecycle_paging` | `AbandonedAccountsCollected`, `Backfilled` | offsets that shift under both sweepers make nobody invisible for ever, those whose webhook call was lost included |
| `UserLifecycle_localAccounts` | `AbandonedAccountsCollected`, violated | the finding below |
| `PlatformAccess_settles` | `ReadyIsTrueOrPending`, `StatusSettles`, `AlignedUnlessAstray` | the condition settles whatever fails; the user is aligned, and the condition claims otherwise only while its patch is due, unless the user was led astray |
| `ServiceAccounts_lifecycle` | `AccountHeldByFinalizer`, `DeletionCompletes`, `AccountProvisioned`, `StateFollowsSpec` | two accounts, one held, and a fault: no machine user without a finalizer but by the other holder's doing; deletion, provisioning and an undisturbed change of state complete |
| `RecoveryMail_concurrent` | `OverrunBounded`, `OneMailPerCode`, `SuccessMeansMailed`, `NothingForUnproven`, `EveryRequestAnswered` | how far concurrent requests can overrun the budget, that mails and answers agree, and that with addresses replaced and proven, Users deleted and made again, and late writes, recovery rests on a proof; only a replaced address can be mailed in the place of the proven one |
| `TokenReview_concurrent` | `AssertionAlive`, `ReviewSound`, `NoDuplicateSigning`, `EveryReviewAnswered` | the cache under its lock, and what an answer says |
| `ActionsServer_notices` | `NoFalseAlarm`, `PasskeyChangeAccounted`, `ServerComesUp` | start-up with and without settings for Zitadel; three logins or passkey changes, sessions that end, listings that are cut and two failures: no alarm for a known device or a passkey on a complete listing, and each change is mailed to the enrolled human or ends for a known cause |
| `AvatarSync_kept` | `PendingKept`, `OneCustodian`, `MixedOnlyFromStaleCopy` | no pending avatar is lost, the map and the handlers pass it on as `AvatarCustody` says, and only an overtaken patch mixes the avatar of one login with the provider of another |
| `ControllerManager_leadership` | `OneActorAtATime`, `OverlapOnlyOnTheWayOut`, `ExitTellsFailure`, `ProcessEnds`, `LeaderReturns` | two replicas that release the lease and may be held up: the others implement `SingleActor`, calls overlap only on the way out, processes end with the right exit code, and the work goes on |
| `IdentityAPI_answers` | `AnswersTrue`, `ListsTrue`, `UndeliveredKeysBounded`, `ForeignReadsGranted` | with two requests, two changes and a failure, what is answered was true during the request, and keys nobody holds come from failures only |

Every module states the shape of its state as `TypeOK` (`NoticeTypeOK` in
`ActionsServer`). It is the base of the
proofs and is proved in every module; no run is spent on it. Two more safety
properties are proved and have no run, because one that a run checks is stronger:
`FinalizerReleasedLast` (a step of `AccountRemoval` that drops a held User has the
account deleted) and `TakenOnce` (`AvatarCustody` takes an avatar out for one handler).

### Bounds

Every unbounded thing is capped by a named constant: `MaxFaults` (failed calls
and restarts), `MaxChanges`, `MaxEmailSteps`, `MaxRequests`, `MaxReviews`,
`MaxEvents`, `MaxNotices`, `MaxGeneration`,
`MaxTime`. Accounts do not interact
except through paging, so one account carries the interleavings and
`_paging` takes two, with a page size of one. Page shifts by collection, a
second page and an empty last page all occur there. `ServiceAccounts` needs two
to race for the organization, the servers two handlers for any race but `ActionsServer`,
whose handlers share only the client, the User and the Emails: one handler, next to sessions,
changes and events that come at any time, shows what they can meet there, and the
theorems are about any number. One fault
suffices to cut every operation at every point; `StatusSettles` takes two, so
that a retry fails as well, and `ControllerManager` four: a leader that misses
its renewals twice loses the lease, or three times and is past it, and its successor
fails. Two email steps put `email.verified` and `email.changed` on the way together, so
that they can be handled in the wrong order. Four
changes let `spec.state` go there and back while the user moves. In
`TokenReview` a second is two ticks, an assertion lives for five, and the clock
reaches its `exp`. In `RecoveryMail` a cooldown is one tick, the window two and
the cap one, so that a mail can be on either side of each, and the third request
can find both spent. In `ControllerManager` a lease lasts three ticks and a
leader gives up after two, so that the tick between them, in which nobody leads,
happens. In `IdentityAPI` two generations let an account be deleted and created again
during a request; with a `QueryLimit` of two rows and three accounts, keys and sessions,
a listing of two accounts is walked whole and one of three is cut. `ActionsServer` has
the same limit and up to three sessions. In `RecoveryMail` a replacement of the address
counts as one of the three requests, so there are three requests about one address or
two about an account that gets another. Its one code is asked for more than once. The
discovery manager of milo's discovery mode is one more worker and is left to the proofs.

### Fairness

The manager runs its workers and tickers for as long as it leads: weak fairness of each
controller, sweeper and watch, and of the code that serves an accepted request. Nothing
is assumed of operators, users, Zitadel's events or the clock. `TokenReview` takes the
lock to be fair to waiting requests, as Go's RWMutex is. In `ActionsServer` the kubelet
starts the container again and the retry loop goes on until it succeeds. In
`ControllerManager` the kubelet starts ended processes, a canceled part of a process
returns, calls end (the clients have timeouts), electors that wait or have to give up do
so in the end, and time passes for a lease nobody renews; renewals are not assumed to
succeed, nor processes to be in time. Failures are bounded, which stands for their not
lasting for ever.

## Refinement

Three abstract specifications say what a component promises, each without the calls,
copies, failures and retries of the one that implements it. Each is a property of a run,
and the refinement is proved for every value of the constants.

`SingleActor` has one variable, the set of replicas whose controllers take up
work, and two steps: one starts when nobody acts, and one stops.
`ControllerManager` implements it, with the replicas whose controllers take up work for
`actors`, checked as the property `OneActorAtATime` and proved as `ElectedActsAlone`. Two
kinds of replicas are not counted, and do act beside their successor: one held up past
the time the election gives it (`late`), until its process ends, and one whose elector
released the lease before its manager heard of the loss (`ReleasedEarly`).
Draining calls are not part of it: they may outlive the lease, and
`OverlapOnlyOnTheWayOut` says when.

`AccountRemoval` has the account, its User (absent, live, held by the finalizer,
deleting), who was deleted by an operator, who may be collected, and who is condemned:
found to be collectable, which it may cease to be before it is removed. An account is
removed once, and only if it is condemned or its User is being deleted for an
operator; a User is withdrawn without a request only after its account, and one that is
held goes last. `UserLifecycle` implements it as `RemovedInOrder`, proved as
`RemovalOrderly`. The account is `zitadel`; the User is `cr` without its
`emailVerification`, where a live one with the finalizer is held; those who may be
collected are `Collectable`, the accounts past the window that the GC does not except,
or none when the GC is off or on a dry run; and the condemned one is the account the GC
is about to delete. So a sweep that reads rows, checks and
deletes in several steps, next to everyone else, is seen as the one step that deletes.
A User may be provisioned for a deleted account: the sweeper does it from an old page
(see below), and the specification allows it.

`AvatarCustody` has the entry of the map, what each handler has taken out of it, what
was written to the status, and what is spent (confirmed, replaced, expired or lost with
the process). A handler that puts an avatar back may have written it. `AvatarSync`
implements it as `OneCustodian`, proved as `AvatarsInCustody`, with the intents of
`fromPending` requests for those that are held, `kept \cap applied` for those that are
written and `kept \cap (confirmed \cup dropped)` for those that are spent. An intent that
is applied without ever being in the map is no step of it.

## Finding

**Accounts with a login name are never collected**
(`UserLifecycle_localAccounts`). `hasIDPLink` counts whatever `ListIDPLinks`
returns, and for a user without external links that is a local identity made up
from the login name. The GC then takes the account for one with an IdP. In the
passing `_paging` run the accounts have no login name.

### Behaviours without a run

These follow from the same models, on paths a reader can trace in the actions
named; no configuration here is dedicated to them.

- `EmailEvent`: the email webhook writes what the event at hand says. When
  `email.verified` of the old address is handled after `email.changed`, the User reads
  Verified although the present address is unproven, where `email_verified.go:21` says
  that a changed address "is unproven again". The sweeper repairs it
  (`EmailVerificationConverges`).
- `StateChanged`, `ChangeZitadel`: `spec.state` is compared with the condition and not
  with the user. A suspended user that is lost in Zitadel and created again is active,
  and Ready still says Suspended, without any failed call (`astray`), where the runbook
  says the controller keeps the two aligned.
- `Email` of `RecoveryMail`: `spec.email` is set when the User is made and never
  refreshed, while `status.emailVerification` follows the present address. When an
  address that was never proven is replaced by one that is, the mail goes to the first,
  where `accountrecovery.go:170` says that nothing is mailed to an unproven address.
- `PasskeyRemovedStart`: `passkeyNameFromMetadata` tests for a nil interface and meets
  a nil pointer in one (`http_server_cmd.go:184`), so the lookup of the name panics
  before the mail, where the comment (`passkey_removed.go:163`) calls every failure
  non-fatal. `PasskeyChangeAccounted` counts such an event as `missed`.
- `ElectorGivesUp`: with `ReleaseOnCancel`, the default, an elector that could not renew
  releases the lease before its manager hears of the loss, and another replica may
  start its controllers meanwhile (`ReleasedEarly`), where docs/architecture.md:102-108
  promises a single active instance. Without the release the time between
  `RenewDeadline` and `LeaseDuration` covers it. The order of the two steps is
  client-go's, which is not in the repository.
- `CollectMilo`: a User whose deletion failed after its Zitadel user was deleted
  is not met again, since sweeps list Zitadel users only
  (`abandoned_user_gc.go:292` says the next sweep retries).
- `SweepMissing`: a page listed before a collection lets the sweeper create a
  User for a deleted Zitadel user (`abandoned_user_gc.go:291`).
- `CollectExamine`, `CollectZitadel`: an address proven after the page was listed, or a
  link added after the check, does not save the account. `AccountGoneOnlyWithCause`
  bounds how old the checks can be.
- `SweepExisting` writes `status.emailVerification`, next to a comment that
  calls the sweeper create-only (`user_sweep.go:64`).
- `SetState`: after a conflict of the status update the repeated call is refused
  by Zitadel and the ServiceAccount stays there; a change there and back leaves
  the other state in Zitadel, which is why `StateFollowsSpec` is about the
  undisturbed case.
- `StateChanged`, `PatchStatus` of `PlatformAccess`: the controller calls Zitadel
  only when the condition names another state than `spec.state`. Suspend, let the
  status patch fail, approve again before the retry: the old condition matches
  and the user stays deactivated; with the roles exchanged, a suspended user
  stays active. `AlignedUnlessAstray` is about the other behaviours.
- `CreateUser`: a ServiceAccount held by another finalizer gets its machine user
  back after it was deleted; `CreateOrg`: a reconcile under way creates the
  organization again after the Project's finalizer deleted it. A Project without
  ServiceAccounts has no organization at all.
- `CheckBudget`: overlapping requests overrun the budget, within
  `OverrunBounded`. A retried recovery request mints and mails another code.
- `GetPreviousSessions` keeps newer sessions, so two quick logins from a new
  address vouch for each other.
- `FirstRows`: with more sessions than Zitadel lists, the session that vouches for a
  login may be missing, and the alarm is false; `NoFalseAlarm` excepts it.
- `CreateSeed`: with a `typedNil` client create-user-account panics after the
  User was created. `PasskeyName`: the passkey-removed mail carries an empty
  name where the comment says it is omitted.
- `Patched`: two logins at once can leave the avatar of one and the provider of
  the other, each patch carrying only what differs from its own copy
  (`MixedOnlyFromStaleCopy` shows that nothing else does).
- `Patch`: a pending avatar whose patch took effect and was not answered is put back
  and written again, over a later one if need be.
- `LookupOwner`: the key of a machine account whose preferred login name is not
  its user name cannot be deleted, since the account is looked up by that name.
- `Page`: listings, and what is searched for in them, end at Zitadel's query limit.
- `AddKey`: a key whose registration succeeded and whose answer was lost stays in
  Zitadel, and a retry registers another.
- `ManagerGivesUp`: the lease is released although a call is still under way, when
  it outlasts the grace period. If the manager was stopping because a runnable returned
  `context.Canceled`, `ignoreCanceled` drops the error of the grace period with its
  cause, and the exit code is 0; after a loss of the lease it may be nil as well.
- `MissRenewal`: a leader that is paused past `LeaseDuration` goes on
  when it wakes, beside its successor, until its elector finds the lease taken. Zitadel's
  API knows no fencing token.
- docs/architecture.md calls the identity API "read-only by construction", while
  keys can be created and deleted and sessions ended; `validatePublicKey` names
  ECDSA in its message and accepts RSA only; `--leader-election-id` is declared,
  and the election ID is the constant of `controller.go:344`.

## Proofs

`UserLifecycleProofs` proves for every set of users, page size, setting and
bound (assumptions: users are natural numbers, `PageSize` is positive, bounds are
naturals, settings are Boolean, and the special kinds of users are users):

- `TypeCorrect`: `Spec => []TypeOK`.
- `DeletionSafe`: `AccountGoneOnlyWithCause`.
- `CollectionOrdered`: `MiloDeletedAfterZitadel`.
- `FinalizerHolds`: `FinalizerReleasedLast`, an action property.
- `RemovalOrderly`: `Spec => RemovedInOrder`, the refinement of `AccountRemoval`.
- `ClaimsTrue`: `VerifiedWasProved`.

None of the first three follows from the actions alone. A reconcile that is about to
remove the finalizer may have learnt long ago that the Zitadel user is gone, and
the GC acts on a row it read earlier. `DeletionInv` adds what they remember:

- `Registered`: what has a User, a pending webhook call or a row of a page is or
  was an account of Zitadel, so no deleted account comes back as a new one;
- `ReconcileSound`: a User that is being deleted carries the finalizer, a reconcile
  on the deletion path works on such a User, and one about to remove the finalizer
  has seen the Zitadel user gone, which is for good;
- `CollectionSound`: the cutoff holds only accounts past the window; who is in it and
  unverified or unlinked now is in the sweep's history, and so is what the rows say, so
  the account the GC is about to delete was both at some time of this sweep, is past the
  window and of known age; and the one whose User comes next has no Zitadel user any
  more. Links and proofs may change between the checks and the calls; what is recorded
  is not undone.

The proof has a lemma per action (or group of them) that shows each conjunct the
action can disturb; `DeletionSafe` and `FinalizerHolds`, action properties, read the
step off the invariant.

`RemovalOrderly` needs no more. Its lemmas go actor by actor: `EnsureUser` is `Provision`
or a stutter; a new link takes its account out of `Collectable` (`Expire`) and leaves it
condemned; the GC's check is `Condemn`, and a failed or repeated call `Spare`; a delete
call to Zitadel is `Remove` when the account is there, of the condemned one or with the
cause from `MiloDeletedAfterZitadel`; a delete call to milo is `OperatorDelete`,
`Collect` or a stutter; and the finalizer's updates are `Hold` and `Release`.

`VerifiedWasProved` speaks of the status alone, which is written from copies that may
be old. `ProofInv` adds `CopiesProved`: the undelivered email events, the requests of
create-user-account and the rows the sweeper has yet to look at say verified only of an
address that was proven while the user had it; and no address is proven before the user
has it, so a proof of the present one is Zitadel's own flag.

`ControllerManagerProofs` proves for every set of replicas, both discovery modes,
with and without release on shutdown, and any number of failures and of processes held
up (assumptions: `0 < RenewDeadline < LeaseDuration`, which the flags' defaults satisfy,
and replicas are not called "nobody" or "former"):

- `TypeCorrect`: `Spec => []TypeOK`.
- `HandoverOrderly`: `OverlapOnlyOnTheWayOut`.
- `ExitCodeTrue`: `ExitTellsFailure`.
- `ElectedActsAlone`: `Spec => OneActorAtATime`, the refinement of `SingleActor`.

None of them is inductive: they say nothing of the lease, nor of what the errgroup
has been told. `HandoverInv` adds:

- `ElectorsFit`: a candidate's elector waits, a leader's renews or has lost, and one that
  was ended belongs to a manager that returned;
- `RenewsOwnLease`: unless its process was held up, an elector that renews holds the
  lease and has not gone without renewal for longer than `RenewDeadline`, so nobody can
  take it, since `RenewDeadline < LeaseDuration`;
- `LeadsUnderLease`: unless it was held up, a manager that has yet to hear of the loss is
  still the last holder and `LeaseDuration` has not passed, or its lease was released;
- `CoreElected`, `ActsAsLeader`: controllers run only in a replica that was elected, take
  up work only while it leads, and outlive its manager only after a loss or an overrun;
- `FailuresKept`: the errgroup, or a manager that has yet to return to it, knows of
  every failure, and an ended process has no workers.

Each group of actions has a lemma. `ActorsStep` reads off the invariant that a step
keeps the actors, adds the first or takes one away, which is a step of `SingleActor`
or a stutter: who counts holds the lease, so there is one at most (`FewerActors`), only
`StartCore` makes a replica act, and one that ceased to count does not count again while
it acts (`NobodyCountsAgain`).

`TokenReviewProofs` proves for any set of requests, lifetime of the assertion, refresh
margin, length of a second and lag of a goroutine (assumptions: the lifetime and the
second are positive, the others naturals, and no request is called "noOne"):

- `TypeCorrect`: `Spec => []TypeOK`.
- `AssertionsAlive`: `AssertionAlive`, which is conditional on `Leeway`: the margin and
  the lifetime cover a second and the lag.
- `SignedOnce`: `NoDuplicateSigning`, an action property.
- `ReviewsSound`: `ReviewSound`.

`AssertionAlive` compares an assertion with the clock, and every tick can break it
unless it is known when the assertion was chosen. `ReviewInv` adds:

- `Exclusive`: the request between Lock and Unlock is the writer, so nobody else signs;
- `ClockFresh`: a reading of the clock is never older than the lag;
- `ClaimClose`, `InHandAlive`: the exp claim loses less than a second, and an assertion
  in hand outlives the lag, counted from the reading it was chosen on;
- `SignsStale`: who is about to sign has found the cached assertion too old, and
  nobody has replaced it since;
- `Witnessed`: the history of a request keeps up with the token while it is served.

`RecoveryMailProofs` proves for any finite set of handlers, any codes, attempts,
cooldown and cap, and any number of requests and failures (assumptions: there is a
handler, the window is positive, the others are naturals):

- `TypeCorrect`: `Spec => []TypeOK`.
- `BudgetOverrunBounded`: `OverrunBounded`.
- `CodeMailedOnce`: `OneMailPerCode`.
- `SuccessIsTrue`: `SuccessMeansMailed`.
- `UnprovenGetsNothing`: `NothingForUnproven`.

The budget is not inductive, since a handler past `TooSoon` mails without looking
again. `MailInv` counts it:

- `Budget`: the handlers past the check and their mails of the last cooldown together
  are at most as many as the handlers; in a window, at most one less than the cap and
  the handlers together. A handler enters when the check saw room, in which case all
  others that count are handlers, and turns into one mail when it leaves;
- `Finite`: the Emails are finitely many and none is from the future, so sets of
  them can be counted and only shrink as time passes;
- `NamedByCode`: the name of an Email is its code, and a name is taken once;
- `Given`, `Unanswered`: what a request knows in each phase;
- `Proven`: a Verified status is about a proven address of the account, a recovery past
  the lookup carries a copy of such a User, and every recovery mail was made from one.
  Addresses only grow, so the address mailed is the one that was proven unless the
  account has had another.

`ActionsServerProofs` is about the two models of the actions server. Of `AvatarSync` it
proves for any handlers, logins, attempts, expiry, events and failures (assumptions: the
two providers have no login in common, none is called "none", at least one attempt):

- `TypeCorrect`: `Spec => []TypeOK`.
- `NoAvatarLost`: `PendingKept`.
- `NoAvatarShared`: `TakenOnce`.
- `AvatarsInCustody`: `Spec => OneCustodian`, the refinement of `AvatarCustody`.
- `NoMixButStale`: `MixedOnlyFromStaleCopy`, an action property.

`TakenOnce` speaks only of avatars that came from the map, and a handler may store one
that did not. `AvatarInv` adds:

- `OnePlace`: an intent is yet to come, in the map or with one handler;
- `PhaseOK`: a request has an intent exactly while it works on one, and one of the map
  only between `consumePendingAvatar` and the patch.

For the refinement, `CustodyInv` adds that an avatar in the map or taken from it is in
`kept` and not yet confirmed or dropped, though it may have been written, and that an
intent which waits or is with the handler it came to is in none of the sets; so storing
one is `Store`, not a spent one's return, and a failed patch is `PutBack` whether or not
it took effect.

Of `ActionsServer`, whose specification is called `NoticeSpec` so that one module can
extend both, it proves for any handlers, devices, numbers of logins and passkeys, and
failures (no assumption is used):

- `NoticesTypeCorrect`: `NoticeSpec => []NoticeTypeOK`.
- `AlarmsJustified`: `NoFalseAlarm`.
- `ChangesNoticed`: `PasskeyChangeAccounted`.

`NoFalseAlarm` compares a mail with the sessions of now, which a login after the decision
could change. `NoticeInv` adds:

- `Numbered`: no session, event, request or mail is ahead of the logins, so a session
  that comes later is newer than every event and vouches for none;
- `AlarmsDue`: who is about to raise an alarm has found no session that vouches for the
  login, one by passkey or an older one of the same device, or decided on a listing that
  was cut. `KnownDevice` reads it off
  `isSuspiciousLogin`: a session of the same address, fingerprint and browser family is
  enough.

For `ChangesNoticed` the news of a change (`Noticed`) is an event on the way or missed, a
handler's, or a mail to the user; the lemmas show for each action that whatever held the
news hands it on.

`PlatformAccessProofs` proves for any set of states and any number of changes and
failures (assumptions: `Suspended` is a state, "none" is not, bounds are naturals):

- `TypeCorrect`: `Spec => []TypeOK`.
- `ReadyIsKept`: `ReadyIsTrueOrPending`.

The property is about the present `spec.state` and is lost when the spec changes back
to what an old condition says. `SyncInv` therefore speaks of what the condition names:

- `ClaimsSettled`, as long as the user is not astray: the user is on the side of the state
  the condition claims, or, once a sync is done and its patch is not, on the side of
  the state that patch will claim. Nothing but the two calls, and the loss of a
  deactivated user, which sets `astray`, crosses between the sides;
- `CallsAreDue`: the calls are made only for a copy whose state changed, in its
  direction, so that the patch that follows is one that writes;
- `GoneIsBlank`, `CopyExists`: a deleted PlatformAccess leaves no condition behind, and
  a reconcile under way has read one that existed.

`ServiceAccountsProofs` proves for any ServiceAccounts, any of them held by another
finalizer, and any number of changes and failures (assumptions: `Held` are
ServiceAccounts, bounds are naturals):

- `TypeCorrect`: `Spec => []TypeOK`.
- `NoAccountLeaked`: `AccountHeldByFinalizer`.

It is not inductive, since a reconcile creates the machine user several calls after it
saw the finalizer. `AccountInv` adds:

- `ResourceSound`: a ServiceAccount that is being deleted carries some finalizer, only
  the held ones carry another's, and one never created carries none;
- `ReconcileSound`: a reconcile that is to add the finalizer to the version it read
  has read a live one; from there until the machine user is created the finalizer is
  on, or the other holder's case has come about; and the finalizer is removed only
  with the machine user gone.

`IdentityAPIProofs` proves for any handlers, accounts, keys, sessions, passkeys,
providers and query limit, and any number of requests, changes and failures
(assumptions: there is a first key, `Suffixed` are accounts, the query limit and
`MaxGeneration` are positive, `None` is neither a name nor a machine user):

- `TypeCorrect`: `Spec => []TypeOK`.
- `AnswersHold`: `AnswersTrue`.
- `ListsHold`: `ListsTrue`.
- `ForeignReadsAllowed`: `ForeignReadsGranted`.
- `UndeliveredBounded`: `UndeliveredKeysBounded`.

The properties speak of requests that are answered. `AnswerInv` says what holds on the
way:

- `WorldSound`: a key in Zitadel belongs to the account that exists now under its name,
  and to a generation the account has reached; a deleted person has nothing left, and
  what is over does not come back;
- `Asked`, `Placed`: the requests there are, and which of them each step is there for;
- `Watched`: what exists now lies between what existed throughout and what existed at
  some time since the request came;
- `Knows`: what a handler carries from one call to the next stays good. A key that
  existed throughout has been seen or belongs to an account still to be asked; the
  account Delete found again by its name is the key's or a later one; the missing links
  and the permission were true during the request;
- `Verdict`: the answers in a form no later step makes false. A key that is not live
  and has an owner never comes back, and neither does an ended session.

`Onward` is the part of a step all handlers rely on: keys keep their owner, nothing
that is gone returns, and generations grow. Each action has a lemma for the handler
that takes it, and one lemma covers the other handlers. `UndeliveredBounded` has an
invariant of its own, `KeyInv`: the keys nobody holds are a finite set no larger than
the failures, so that they can be counted.

Only model-checked: the liveness properties, since liveness under fairness is out of
this prover's reach. These are `EmailVerificationConverges`, `DeletionCompletes` (of
`UserLifecycle` and of `ServiceAccounts`), `AbandonedAccountsCollected`, `Backfilled`,
`StatusSettles`, `AlignedUnlessAstray`, `AccountProvisioned`, `StateFollowsSpec`,
`EveryRequestAnswered`, `EveryReviewAnswered`, `ServerComesUp`, `ProcessEnds` and
`LeaderReturns`. Every safety property a passing run checks is also proved.

## Not modelled

The JWT customisation handler (stateless), the bootstrap of the API server and the
webhook server (flags, TLS, wiring, in a fixed order before anything is served),
the parsing of settings, key loading, version strings and the GraphQL gateway
client. Within modelled parts: metrics, logs, the wording of mails, geolocation,
which of the claims becomes the user name, the activity Event of a user the sweeper
creates, the fields and tables of the identity API's objects, the checks on a
public key (one refusal), and which controllers the manager is given (their
modules say what they do).

## Plan

Modelled and proved as planned: the lifecycle of accounts first, then the controllers,
the servers, leader election and the identity API, and the three abstract specifications.
What would come next: an abstract specification of the mail budget (so many mails for so
many requests at once) that `RecoveryMail` implements, and of a session of the identity
API as a listing at one moment, for the listings that are not cut off.
