----------------------------- MODULE AvatarSync -----------------------------
(***************************************************************************)
(* How a user's avatar and last login provider get from the identity       *)
(* provider to the status of the User resource (avatar_sync.go and         *)
(* idpIntentSucceededHandler in server.go of internal/httpactionsserver).  *)
(* An intent that comes before the User exists is kept in memory under     *)
(* the email address, for a time, and applied by create-user-account or by *)
(* the next session-added.                                                 *)
(*                                                                         *)
(* One person, with one address.  Status patches are merge patches of what *)
(* changed against the copy that was read, with no resourceVersion.        *)
(***************************************************************************)
EXTENDS Integers, FiniteSets, ServerRequests

CONSTANTS
    Google,     \* intents (logins) through Google
    GitHub,     \* intents through GitHub
    Attempts,   \* IdpIntentUserLookupAttempts
    TTL,        \* pendingAvatarTTL, in ticks
    MaxTime,    \* bound on the clock
    MaxEvents,  \* bound on create-user-account and session-added requests
    MaxChanges  \* bound on how often the User is created or deleted

Intents == Google \cup GitHub

ASSUME IntentsAssumption == Google \cap GitHub = {} /\ "none" \notin Intents
ASSUME SettingsAssumption == Attempts \in Nat \ {0} /\ TTL \in Nat
ASSUME BoundsAssumption == MaxTime \in Nat /\ MaxEvents \in Nat
                            /\ MaxChanges \in Nat /\ MaxFaults \in Nat

VARIABLES
    now,
    user,      \* the User resource and its status
    pending,   \* pendingAvatars, for the person's address
    waiting,   \* intents Zitadel has yet to report
    kept,      \* history: intents that were put into pendingAvatars
    applied,   \* history: intents that were written to the status
    confirmed, \* history: those of them whose patch was answered with success
    dropped,   \* history: intents replaced by another, expired, or lost in a restart
    numEvents, changes

history == <<kept, applied, confirmed, dropped>>
vars == <<now, user, pending, req, waiting, history, numEvents, changes, faults>>

-----------------------------------------------------------------------------
(* Data *)

Providers == {"google", "github", "none"}
ProviderOf(i) == IF i \in Google THEN "google" ELSE "github"

\* avatar is the avatar URL, named after the intent that brought it
Statuses == [avatar : Intents \cup {"none"}, provider : Providers]
NoStatus == [avatar |-> "none", provider |-> "none"]
Users == [exists : BOOLEAN, status : Statuses]

PendingAvatars == [intent : Intents \cup {"none"}, expires : Int]
NothingPending == [intent |-> "none", expires |-> 0]

\* original is the status as it was read; fromPending tells patchUserAvatar from
\* the idp-intent-succeeded handler's own patch
RequestRecords == [pc : {"idle", "getUser", "patch", "consume", "getPending"},
                   intent : Intents \cup {"none"}, attempt : Nat,
                   original : Statuses, fromPending : BOOLEAN]
IdleRequest == [pc |-> "idle", intent |-> "none", attempt |-> 0,
                original |-> NoStatus, fromPending |-> FALSE]

TypeOK ==
    /\ now \in Nat
    /\ user \in Users
    /\ pending \in PendingAvatars
    /\ req \in [Handlers -> RequestRecords]
    /\ waiting \subseteq Intents
    /\ kept \subseteq Intents
    /\ applied \subseteq Intents
    /\ confirmed \subseteq Intents
    /\ dropped \subseteq Intents
    /\ numEvents \in Nat
    /\ changes \in Nat
    /\ faults \in Nat

Init ==
    /\ now = 0
    /\ user \in [exists : BOOLEAN, status : {NoStatus}]
    /\ pending = NothingPending
    /\ req = [h \in Handlers |-> IdleRequest]
    /\ waiting = Intents
    /\ kept = {}
    /\ applied = {}
    /\ confirmed = {}
    /\ dropped = {}
    /\ numEvents = 0
    /\ changes = 0
    /\ faults = 0

-----------------------------------------------------------------------------
(* Operations *)

Finish(h) == req' = [req EXCEPT ![h] = IdleRequest]

\* storePendingAvatar: the last store wins
StorePendingAvatar(i) ==
    /\ pending' = [intent |-> i, expires |-> now + TTL]
    /\ kept' = kept \cup {i}
    /\ dropped' = dropped \cup ({pending.intent} \ {i, "none"})
    /\ UNCHANGED confirmed

\* Neither missing nor after expiresAt
Valid(p) == p.intent # "none" /\ now <= p.expires

\* The provider of the first login is kept
Patched_FirstProvider(original, i) ==
    [avatar   |-> IF original.avatar # i THEN i ELSE user.status.avatar,
     provider |-> IF original.provider = "none" THEN ProviderOf(i) ELSE user.status.provider]
\* The merge patch of what differs from the copy that was read
Patched(original, i) ==
    [avatar   |-> IF original.avatar # i THEN i ELSE user.status.avatar,
     provider |-> IF original.provider # ProviderOf(i) THEN ProviderOf(i)
                                                       ELSE user.status.provider]

-----------------------------------------------------------------------------
(* Surroundings *)

Tick ==
    /\ now < MaxTime
    /\ now' = now + 1
    /\ UNCHANGED <<user, pending, req, waiting, history, numEvents, changes, faults>>

\* The provisioning paths create and delete the User.
ChangeUser ==
    /\ changes < MaxChanges
    /\ changes' = changes + 1
    /\ user' = [exists |-> ~user.exists, status |-> NoStatus]
    /\ UNCHANGED <<now, pending, req, waiting, history, numEvents, faults>>

\* The sidecar restarts, with an empty map.
Restart ==
    /\ Fault
    /\ req' = [h \in Handlers |-> IdleRequest]
    /\ pending' = NothingPending
    /\ dropped' = dropped \cup (({pending.intent} \cup {req[h].intent : h \in Handlers}) \ {"none"})
    /\ UNCHANGED <<now, user, waiting, kept, applied, confirmed, numEvents, changes>>

-----------------------------------------------------------------------------
(* idpIntentSucceededHandler *)

\* An intent comes in, with or without the ID of the milo user.
Intent(h, i, withID) ==
    /\ req[h].pc = "idle"
    /\ i \in waiting
    /\ waiting' = waiting \ {i}
    /\ IF withID
         THEN /\ req' = [req EXCEPT ![h] = [IdleRequest EXCEPT !.pc = "getUser", !.intent = i,
                                                               !.attempt = 1]]
              /\ UNCHANGED <<pending, history>>
         ELSE StorePendingAvatar(i) /\ UNCHANGED <<req, applied>>
    /\ UNCHANGED <<now, user, numEvents, changes, faults>>

\* getUserWithRetry; after the last attempt a missing User makes the avatar pending
GetUserWithRetry(h) ==
    /\ req[h].pc = "getUser"
    /\ \/ /\ user.exists
          /\ req' = [req EXCEPT ![h].pc = "patch", ![h].original = user.status]
          /\ UNCHANGED <<pending, history>>
          /\ NoFault
       \/ /\ ~user.exists /\ req[h].attempt < Attempts
          /\ req' = [req EXCEPT ![h].attempt = @ + 1]
          /\ UNCHANGED <<pending, history>>
          /\ NoFault
       \/ /\ ~user.exists /\ req[h].attempt = Attempts
          /\ StorePendingAvatar(req[h].intent)
          /\ Finish(h)
          /\ UNCHANGED applied
          /\ NoFault
       \/ Finish(h) /\ UNCHANGED <<pending, history>> /\ Fault
    /\ UNCHANGED <<now, user, waiting, numEvents, changes>>

\* A patch that failed is forgotten
AfterFailedPatch_Forgets(h) == UNCHANGED <<pending, kept, confirmed, dropped>>
\* applyPendingAvatarByEmail puts the avatar back, with a new expiry; the intent
\* handler reports its own error to Zitadel
AfterFailedPatch(h) ==
    IF req[h].fromPending THEN StorePendingAvatar(req[h].intent)
                          ELSE UNCHANGED <<pending, kept, confirmed, dropped>>

\* Status().Patch.  A call that fails may have taken effect: what the caller puts back
\* is then in the status already, and will be applied again.
Patch(h) ==
    /\ req[h].pc = "patch"
    /\ LET i == req[h].intent
           write == /\ user.exists
                    /\ user' = [user EXCEPT !.status = Patched(req[h].original, i)]
                    /\ applied' = applied \cup {i} IN
       \/ /\ write
          /\ confirmed' = confirmed \cup {i}
          /\ UNCHANGED <<pending, kept, dropped>>
          /\ NoFault
       \/ write /\ AfterFailedPatch(h) /\ Fault
       \/ /\ (~user.exists /\ NoFault) \/ Fault
          /\ UNCHANGED <<user, applied>>
          /\ AfterFailedPatch(h)
    /\ Finish(h)
    /\ UNCHANGED <<now, waiting, numEvents, changes>>

-----------------------------------------------------------------------------
(* create-user-account and session-added: applyPendingAvatarByEmail *)

Event(h) ==
    /\ req[h].pc = "idle"
    /\ numEvents < MaxEvents
    /\ numEvents' = numEvents + 1
    /\ req' = [req EXCEPT ![h].pc = "consume"]
    /\ UNCHANGED <<now, user, pending, waiting, history, changes, faults>>

\* Read, but not taken out
Taken_Left(p) == p
\* LoadAndDelete takes the entry out of the map
Taken(p) == NothingPending

\* consumePendingAvatar; an expired entry is gone all the same
ConsumePendingAvatar(h) ==
    /\ req[h].pc = "consume"
    /\ pending' = Taken(pending)
    /\ IF Valid(pending)
         THEN /\ req' = [req EXCEPT ![h] = [IdleRequest EXCEPT !.pc = "getPending",
                                      !.intent = pending.intent, !.fromPending = TRUE]]
              /\ UNCHANGED dropped
         ELSE /\ Finish(h)
              /\ dropped' = dropped \cup ({pending.intent} \ {"none"})
    /\ UNCHANGED <<now, user, waiting, kept, applied, confirmed, numEvents, changes, faults>>

\* patchUserAvatar: get the User; a missing one is an error
GetPending(h) ==
    /\ req[h].pc = "getPending"
    /\ \/ /\ user.exists
          /\ req' = [req EXCEPT ![h].pc = "patch", ![h].original = user.status]
          /\ UNCHANGED <<pending, history>>
          /\ NoFault
       \/ /\ (~user.exists /\ NoFault) \/ Fault
          /\ AfterFailedPatch(h)
          /\ Finish(h)
          /\ UNCHANGED applied
    /\ UNCHANGED <<now, user, waiting, numEvents, changes>>

Serve(h) == GetUserWithRetry(h) \/ Patch(h) \/ ConsumePendingAvatar(h) \/ GetPending(h)

Next ==
    \/ Tick
    \/ ChangeUser
    \/ Restart
    \/ \E h \in Handlers :
         \/ \E i \in Intents, withID \in BOOLEAN : Intent(h, i, withID)
         \/ Event(h)
         \/ Serve(h)

Spec == Init /\ [][Next]_vars

-----------------------------------------------------------------------------
(* Properties *)

InHand == {req[h].intent : h \in {g \in Handlers : req[g].fromPending}}

\* No pending avatar gets lost: until a patch of it is confirmed, or it is replaced,
\* expired or lost with the process, it is in the map or in the hands of a handler that
\* will apply it or put it back (applyPendingAvatarByEmail).
PendingKept == kept \subseteq confirmed \cup dropped \cup InHand \cup {pending.intent}

\* AvatarCustody, with the intents that came from the map for those that are held
Custody == INSTANCE AvatarCustody WITH
    Avatars <- Intents, None <- "none",
    entry <- pending.intent,
    held <- [h \in Handlers |-> IF req[h].fromPending THEN req[h].intent ELSE "none"],
    written <- kept \cap applied,
    spent <- kept \cap (confirmed \cup dropped)

\* The handlers pass the pending avatars on one by one, write none but the one they
\* hold, and bring none back whose patch was confirmed or that was replaced or expired
\* (storePendingAvatar, consumePendingAvatar).  One whose patch failed comes back even
\* if the patch took effect.
OneCustodian == Custody!Spec

\* LoadAndDelete: two handlers never hold the same pending avatar, and none holds
\* one that is in the map (consumePendingAvatar).
TakenOnce ==
    /\ pending.intent \notin InHand
    /\ \A g, h \in Handlers : req[g].fromPending /\ req[h].fromPending
                              /\ req[g].intent = req[h].intent => g = h

\* The avatar and the provider of the status come from the same login; only a patch made
\* from a copy that another login has overtaken can mix two of them, and it can only take
\* the one field it found unchanged (idpIntentSucceededHandler, patchUserAvatar).
Mixed == user.status.avatar # "none" /\ user.status.provider # ProviderOf(user.status.avatar)
MixedOnlyFromStaleCopy ==
    [][~Mixed /\ Mixed' => \E h \in Handlers :
          /\ req[h].pc = "patch" /\ req'[h].pc = "idle"
          /\ req[h].original # user.status
          /\ req[h].intent = user'.status.avatar
             \/ ProviderOf(req[h].intent) = user'.status.provider]_vars

=============================================================================
