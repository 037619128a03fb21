------------------------ MODULE ActionsServerProofs ------------------------
(***************************************************************************)
(* Proofs about the two models of the actions server, AvatarSync and       *)
(* ActionsServer, for any number of handlers, logins, lookup attempts,     *)
(* devices, events and failures, and any expiry.                           *)
(***************************************************************************)
EXTENDS AvatarSync, ActionsServer, TLAPS

LEMMA IdleType == IdleRequest \in RequestRecords /\ NothingPending \in PendingAvatars
  BY DEF IdleRequest, RequestRecords, NoStatus, Statuses, Providers, NothingPending, PendingAvatars

LEMMA InitTypeOK == Init => TypeOK
  <1> SUFFICES ASSUME Init PROVE TypeOK
    OBVIOUS
  <1>1. NoStatus \in Statuses
    BY DEF NoStatus, Statuses, Providers
  <1>2. user \in Users
    BY <1>1 DEF Init, Users
  <1> QED BY <1>2, IdleType DEF Init, TypeOK

LEMMA StoreType ==
  ASSUME TypeOK, NEW i \in Intents, StorePendingAvatar(i)
  PROVE  /\ pending' \in PendingAvatars
         /\ kept' \subseteq Intents /\ dropped' \subseteq Intents /\ confirmed' \subseteq Intents
  <1>1. now + TTL \in Int
    BY SettingsAssumption DEF TypeOK
  <1> QED BY <1>1 DEF StorePendingAvatar, TypeOK, PendingAvatars

LEMMA FinishType ==
  ASSUME TypeOK, NEW h \in Handlers, Finish(h)
  PROVE  req' \in [Handlers -> RequestRecords]
  BY IdleType DEF Finish, TypeOK

LEMMA FaultType == TypeOK /\ (Fault \/ NoFault) => faults' \in Nat
  BY DEF TypeOK, Fault, NoFault

LEMMA PatchedType ==
  ASSUME TypeOK, NEW original, NEW i \in Intents
  PROVE  [user EXCEPT !.status = Patched(original, i)] \in Users
  <1>1. Patched(original, i) \in Statuses
    BY DEF Patched, TypeOK, Users, Statuses, Providers, ProviderOf
  <1> QED BY <1>1 DEF TypeOK, Users

-----------------------------------------------------------------------------
(* The inductive invariant *)

(* A request has an intent exactly while it works on one, and one from the map only on
   the way from consumePendingAvatar to the patch. *)
PhaseOK ==
    \A h \in Handlers :
        /\ req[h].pc \in {"idle", "consume"} <=> req[h].intent = "none"
        /\ req[h].pc \in {"idle", "consume", "getUser"} => ~req[h].fromPending

(* An intent is in one place: yet to come, in the map or with one handler. *)
OnePlace ==
    /\ pending.intent \notin waiting
    /\ \A h \in Handlers : req[h].intent # "none" =>
         /\ req[h].intent \notin waiting
         /\ req[h].intent # pending.intent
         /\ \A g \in Handlers : req[g].intent = req[h].intent => g = h

AvatarInv == TypeOK /\ PhaseOK /\ OnePlace /\ PendingKept

LEMMA InitAvatarInv == Init => AvatarInv
  <1> SUFFICES ASSUME Init PROVE AvatarInv
    OBVIOUS
  <1>1. PhaseOK /\ OnePlace
    BY IntentsAssumption DEF Init, PhaseOK, OnePlace, IdleRequest, NothingPending
  <1>2. PendingKept
    BY DEF Init, PendingKept
  <1> QED BY <1>1, <1>2, InitTypeOK DEF AvatarInv
(* PendingKept, intent by intent *)
Accounted ==
    \A i \in kept : \/ i \in confirmed \cup dropped
                    \/ i = pending.intent
                    \/ \E h \in Handlers : req[h].fromPending /\ req[h].intent = i

LEMMA KeptIsAccounted == (PendingKept <=> Accounted) /\ (PendingKept' <=> Accounted')
  <1>1. PendingKept <=> Accounted
    BY DEF PendingKept, Accounted, InHand
  <1>2. PendingKept' <=> Accounted'
    BY DEF PendingKept, Accounted, InHand
  <1> QED BY <1>1, <1>2

(* The five things a request does *)

(* It takes a step without changing what it works on. *)
LEMMA MovesOn ==
  ASSUME AvatarInv, NEW h \in Handlers, NEW r \in RequestRecords,
         req' = [req EXCEPT ![h] = r],
         r.intent = req[h].intent, r.fromPending = req[h].fromPending,
         \/ req[h].pc = "idle" /\ r.pc = "consume"
         \/ req[h].pc = "getUser" /\ r.pc \in {"getUser", "patch"}
         \/ req[h].pc = "getPending" /\ r.pc = "patch",
         UNCHANGED <<pending, waiting, kept, confirmed, dropped>>
  PROVE  req' \in [Handlers -> RequestRecords] /\ PhaseOK' /\ OnePlace' /\ PendingKept'
  <1>1. req \in [Handlers -> RequestRecords]
    BY DEF AvatarInv, TypeOK
  <1>2. \A g \in Handlers : req'[g] = IF g = h THEN r ELSE req[g]
    BY <1>1
  <1>3. PhaseOK'
    BY <1>2 DEF AvatarInv, PhaseOK
  <1>4. OnePlace'
    BY <1>2 DEF AvatarInv, OnePlace
  <1>5. Accounted'
    BY <1>2, KeptIsAccounted DEF AvatarInv, Accounted
  <1> QED BY <1>1, <1>3, <1>4, <1>5, KeptIsAccounted

(* It ends, having applied its intent or having one that never was in the map. *)
LEMMA Ends ==
  ASSUME AvatarInv, NEW h \in Handlers, Finish(h),
         UNCHANGED <<pending, waiting, kept, dropped>>,
         confirmed \subseteq confirmed',
         req[h].intent \in confirmed' \/ ~req[h].fromPending
  PROVE  PhaseOK' /\ OnePlace' /\ PendingKept'
  <1>1. \A g \in Handlers : req'[g] = IF g = h THEN IdleRequest ELSE req[g]
    BY DEF Finish, AvatarInv, TypeOK
  <1>2. IdleRequest.pc = "idle" /\ IdleRequest.intent = "none" /\ ~IdleRequest.fromPending
    BY DEF IdleRequest
  <1>3. PhaseOK'
    BY <1>1, <1>2 DEF AvatarInv, PhaseOK
  <1>4. OnePlace'
    BY <1>1, <1>2 DEF AvatarInv, OnePlace
  <1>5. Accounted'
    BY <1>1, KeptIsAccounted DEF AvatarInv, Accounted
  <1> QED BY <1>3, <1>4, <1>5, KeptIsAccounted

(* It ends and leaves its intent in the map. *)
LEMMA PutsBack ==
  ASSUME AvatarInv, NEW h \in Handlers, Finish(h), req[h].intent # "none",
         StorePendingAvatar(req[h].intent), UNCHANGED waiting
  PROVE  PhaseOK' /\ OnePlace' /\ PendingKept'
  <1>1. \A g \in Handlers : req'[g] = IF g = h THEN IdleRequest ELSE req[g]
    BY DEF Finish, AvatarInv, TypeOK
  <1>2. IdleRequest.pc = "idle" /\ IdleRequest.intent = "none" /\ ~IdleRequest.fromPending
    BY DEF IdleRequest
  <1>3. /\ pending'.intent = req[h].intent /\ kept' = kept \cup {req[h].intent}
        /\ dropped' = dropped \cup ({pending.intent} \ {req[h].intent, "none"})
        /\ confirmed' = confirmed
    BY DEF StorePendingAvatar
  <1>4. PhaseOK'
    BY <1>1, <1>2 DEF AvatarInv, PhaseOK
  <1>5. OnePlace'
    BY <1>1, <1>2, <1>3 DEF AvatarInv, OnePlace
  <1>6. "none" \notin kept
    BY IntentsAssumption DEF AvatarInv, TypeOK
  <1>7. Accounted'
    BY <1>1, <1>3, <1>6, KeptIsAccounted DEF AvatarInv, Accounted
  <1> QED BY <1>4, <1>5, <1>7, KeptIsAccounted

(* What follows a failed patch, for a request that has an intent in hand *)
LEMMA FailedPatch ==
  ASSUME AvatarInv, NEW h \in Handlers, Finish(h), req[h].intent # "none",
         AfterFailedPatch(h), UNCHANGED waiting
  PROVE  PhaseOK' /\ OnePlace' /\ PendingKept'
  <1>1. CASE req[h].fromPending
    BY <1>1, PutsBack DEF AfterFailedPatch
  <1>2. CASE ~req[h].fromPending
    BY <1>2, Ends DEF AfterFailedPatch
  <1> QED BY <1>1, <1>2

LEMMA FailedPatchType ==
  ASSUME TypeOK, NEW h \in Handlers, AfterFailedPatch(h), req[h].intent # "none"
  PROVE  /\ pending' \in PendingAvatars
         /\ kept' \subseteq Intents /\ dropped' \subseteq Intents /\ confirmed' \subseteq Intents
  <1>1. req[h].intent \in Intents
    BY DEF TypeOK, RequestRecords
  <1>2. CASE req[h].fromPending
    BY <1>1, <1>2, StoreType DEF AfterFailedPatch
  <1>3. CASE ~req[h].fromPending
    BY <1>3 DEF AfterFailedPatch, TypeOK
  <1> QED BY <1>2, <1>3
-----------------------------------------------------------------------------
(* The actions *)

LEMMA QuietSteps ==
  ASSUME AvatarInv, Tick \/ ChangeUser
  PROVE  AvatarInv'
  <1>1. UNCHANGED <<pending, req, waiting, kept, applied, confirmed, dropped>>
    BY DEF Tick, ChangeUser, history
  <1>2. user' \in Users
    <2>1. NoStatus \in Statuses
      BY DEF NoStatus, Statuses, Providers
    <2>2. [exists |-> ~user.exists, status |-> NoStatus] \in Users
      BY <2>1, Zenon DEF Users
    <2> QED BY <2>2 DEF AvatarInv, TypeOK, Tick, ChangeUser
  <1>3. TypeOK'
    BY <1>1, <1>2 DEF AvatarInv, TypeOK, Tick, ChangeUser
  <1> QED BY <1>1, <1>3 DEF AvatarInv, PhaseOK, OnePlace, PendingKept, InHand

LEMMA RestartStep ==
  ASSUME AvatarInv, Restart
  PROVE  AvatarInv'
  <1>1. TypeOK'
    <2>1. dropped' \subseteq Intents
      BY DEF AvatarInv, TypeOK, Restart, PendingAvatars, RequestRecords
    <2> QED BY <2>1, IdleType, FaultType DEF AvatarInv, TypeOK, Restart
  <1>2. PhaseOK' /\ OnePlace'
    <2>1. pending'.intent = "none" /\ waiting' = waiting /\ "none" \notin waiting
      BY IntentsAssumption DEF AvatarInv, TypeOK, Restart, NothingPending
    <2>2. \A g \in Handlers : /\ req'[g].pc = "idle" /\ req'[g].intent = "none"
                              /\ ~req'[g].fromPending
      BY DEF Restart, IdleRequest
    <2> QED BY <2>1, <2>2 DEF PhaseOK, OnePlace
  <1>3. "none" \notin kept
    BY IntentsAssumption DEF AvatarInv, TypeOK
  <1>4. Accounted'
    BY <1>3, KeptIsAccounted DEF AvatarInv, Accounted, Restart
  <1> QED BY <1>1, <1>2, <1>4, KeptIsAccounted DEF AvatarInv

LEMMA IntentStep ==
  ASSUME AvatarInv, NEW h \in Handlers, NEW i \in Intents, NEW withID, Intent(h, i, withID)
  PROVE  AvatarInv'
  <1> DEFINE r == [IdleRequest EXCEPT !.pc = "getUser", !.intent = i, !.attempt = 1]
  <1>1. /\ req[h].pc = "idle" /\ i \in waiting /\ waiting' = waiting \ {i} /\ i # "none"
        /\ UNCHANGED <<now, user, numEvents, changes, faults>>
    BY IntentsAssumption DEF Intent
  <1>2. CASE req' = [req EXCEPT ![h] = r] /\ UNCHANGED <<pending, history>>
    <2>1. r \in RequestRecords
      BY IdleType DEF RequestRecords
    <2>2. r.pc = "getUser" /\ r.intent = i /\ ~r.fromPending
      BY DEF IdleRequest
    <2> HIDE DEF r
    <2>3. \A g \in Handlers : req'[g] = IF g = h THEN r ELSE req[g]
      BY <1>2 DEF AvatarInv, TypeOK
    <2>4. TypeOK'
      BY <1>1, <1>2, <2>1 DEF AvatarInv, TypeOK, history
    <2>5. PhaseOK'
      BY <1>1, <2>2, <2>3 DEF AvatarInv, PhaseOK
    <2>6. OnePlace'
      BY <1>1, <1>2, <2>2, <2>3 DEF AvatarInv, OnePlace
    <2>7. ~req[h].fromPending
      BY <1>1 DEF AvatarInv, PhaseOK
    <2>8. Accounted'
      BY <1>2, <2>3, <2>7, KeptIsAccounted DEF AvatarInv, Accounted, history
    <2> QED BY <2>4, <2>5, <2>6, <2>8, KeptIsAccounted DEF AvatarInv
  <1>3. CASE StorePendingAvatar(i) /\ UNCHANGED <<req, applied>>
    <2>1. /\ pending'.intent = i /\ kept' = kept \cup {i} /\ confirmed' = confirmed
          /\ dropped' = dropped \cup ({pending.intent} \ {i, "none"})
      BY <1>3 DEF StorePendingAvatar
    <2>2. TypeOK'
      BY <1>1, <1>3, StoreType DEF AvatarInv, TypeOK
    <2>3. PhaseOK' /\ OnePlace'
      BY <1>1, <1>3, <2>1 DEF AvatarInv, PhaseOK, OnePlace
    <2>4. "none" \notin kept
      BY IntentsAssumption DEF AvatarInv, TypeOK
    <2>5. Accounted'
      BY <1>3, <2>1, <2>4, KeptIsAccounted DEF AvatarInv, Accounted
    <2> QED BY <2>2, <2>3, <2>5, KeptIsAccounted DEF AvatarInv
  <1> QED BY <1>2, <1>3 DEF Intent

LEMMA EventStep ==
  ASSUME AvatarInv, NEW h \in Handlers, Event(h)
  PROVE  AvatarInv'
  <1> DEFINE r == [req[h] EXCEPT !.pc = "consume"]
  <1>1. req[h] \in RequestRecords
    BY DEF AvatarInv, TypeOK
  <1>2. r \in RequestRecords /\ r.pc = "consume" /\ r.intent = req[h].intent
        /\ r.fromPending = req[h].fromPending
    BY <1>1 DEF RequestRecords
  <1>3. req' = [req EXCEPT ![h] = r]
    BY DEF Event
  <1>4. req[h].pc = "idle" /\ UNCHANGED <<pending, waiting, kept, applied, confirmed, dropped>>
    BY DEF Event, history
  <1>5. req' \in [Handlers -> RequestRecords] /\ PhaseOK' /\ OnePlace' /\ PendingKept'
    BY <1>2, <1>3, <1>4, MovesOn
  <1>6. TypeOK'
    BY <1>4, <1>5 DEF AvatarInv, TypeOK, Event
  <1> QED BY <1>5, <1>6 DEF AvatarInv

LEMMA ReadStep ==
  ASSUME AvatarInv, NEW h \in Handlers, req[h].pc \in {"getUser", "getPending"},
         req' = [req EXCEPT ![h].pc = "patch", ![h].original = user.status],
         UNCHANGED <<now, user, pending, history, waiting, numEvents, changes, faults>>
  PROVE  AvatarInv'
  <1> DEFINE r == [req[h] EXCEPT !.pc = "patch", !.original = user.status]
  <1>1. req[h] \in RequestRecords /\ user.status \in Statuses
    BY DEF AvatarInv, TypeOK, Users
  <1>2. r \in RequestRecords /\ r.pc = "patch" /\ r.intent = req[h].intent
        /\ r.fromPending = req[h].fromPending
    BY <1>1 DEF RequestRecords
  <1>3. req' = [req EXCEPT ![h] = r]
    OBVIOUS
  <1>4. UNCHANGED <<pending, waiting, kept, applied, confirmed, dropped>>
    BY DEF history
  <1>5. req' \in [Handlers -> RequestRecords] /\ PhaseOK' /\ OnePlace' /\ PendingKept'
    BY <1>2, <1>3, <1>4, MovesOn
  <1>6. TypeOK'
    BY <1>4, <1>5 DEF AvatarInv, TypeOK
  <1> QED BY <1>5, <1>6 DEF AvatarInv
LEMMA GetUserStep ==
  ASSUME AvatarInv, NEW h \in Handlers, GetUserWithRetry(h)
  PROVE  AvatarInv'
  <1>1. /\ req[h].pc = "getUser" /\ req[h].intent \in Intents /\ req[h].intent # "none"
        /\ ~req[h].fromPending /\ UNCHANGED <<now, user, waiting, numEvents, changes>>
    BY DEF GetUserWithRetry, AvatarInv, TypeOK, RequestRecords, PhaseOK
  <1>2. CASE /\ req' = [req EXCEPT ![h].pc = "patch", ![h].original = user.status]
             /\ UNCHANGED <<pending, history>> /\ NoFault
    BY <1>1, <1>2, ReadStep DEF NoFault
  <1>3. CASE req' = [req EXCEPT ![h].attempt = @ + 1] /\ UNCHANGED <<pending, history>> /\ NoFault
    <2> DEFINE r == [req[h] EXCEPT !.attempt = req[h].attempt + 1]
    <2>1. req[h] \in RequestRecords
      BY DEF AvatarInv, TypeOK
    <2>2. r \in RequestRecords /\ r.pc = "getUser" /\ r.intent = req[h].intent
          /\ r.fromPending = req[h].fromPending
      BY <1>1, <2>1 DEF RequestRecords
    <2>3. req' = [req EXCEPT ![h] = r]
      BY <1>3
    <2>4. UNCHANGED <<pending, waiting, kept, applied, confirmed, dropped>>
      BY <1>1, <1>3 DEF history
    <2>5. req' \in [Handlers -> RequestRecords] /\ PhaseOK' /\ OnePlace' /\ PendingKept'
      BY <1>1, <2>2, <2>3, <2>4, MovesOn
    <2>6. TypeOK'
      BY <1>1, <1>3, <2>4, <2>5 DEF AvatarInv, TypeOK, NoFault
    <2> QED BY <2>5, <2>6 DEF AvatarInv
  <1>4. CASE StorePendingAvatar(req[h].intent) /\ Finish(h) /\ UNCHANGED applied /\ NoFault
    <2>1. PhaseOK' /\ OnePlace' /\ PendingKept'
      BY <1>1, <1>4, PutsBack
    <2>2. TypeOK'
      BY <1>1, <1>4, StoreType, FinishType, FaultType DEF AvatarInv, TypeOK
    <2> QED BY <2>1, <2>2 DEF AvatarInv
  <1>5. CASE Finish(h) /\ UNCHANGED <<pending, history>> /\ Fault
    <2>1. UNCHANGED <<pending, waiting, kept, applied, confirmed, dropped>>
      BY <1>1, <1>5 DEF history
    <2>2. PhaseOK' /\ OnePlace' /\ PendingKept'
      BY <1>1, <1>5, <2>1, Ends
    <2>3. TypeOK'
      BY <1>1, <1>5, <2>1, FinishType, FaultType DEF AvatarInv, TypeOK
    <2> QED BY <2>2, <2>3 DEF AvatarInv
  <1> QED BY <1>2, <1>3, <1>4, <1>5 DEF GetUserWithRetry

LEMMA PatchStep ==
  ASSUME AvatarInv, NEW h \in Handlers, Patch(h)
  PROVE  AvatarInv'
  <1> DEFINE i == req[h].intent
             new == [user EXCEPT !.status = Patched(req[h].original, i)]
  <1>1. /\ i \in Intents /\ i # "none" /\ Finish(h)
        /\ UNCHANGED <<now, waiting, numEvents, changes>>
    BY DEF Patch, AvatarInv, TypeOK, RequestRecords, PhaseOK
  <1>2. new \in Users /\ user \in Users
    BY <1>1, PatchedType DEF AvatarInv, TypeOK
  <1>3. req' \in [Handlers -> RequestRecords] /\ faults' \in Nat /\ user' \in Users
        /\ applied' \subseteq Intents
    BY <1>1, <1>2, FinishType, FaultType DEF Patch, AvatarInv, TypeOK
  <1>4. CASE confirmed' = confirmed \cup {i} /\ UNCHANGED <<pending, kept, dropped>>
    <2>1. PhaseOK' /\ OnePlace' /\ PendingKept'
      BY <1>1, <1>4, Ends
    <2>2. TypeOK'
      BY <1>1, <1>3, <1>4 DEF AvatarInv, TypeOK
    <2> QED BY <2>1, <2>2 DEF AvatarInv
  <1>5. CASE AfterFailedPatch(h)
    <2>1. PhaseOK' /\ OnePlace' /\ PendingKept'
      BY <1>1, <1>5, FailedPatch
    <2>2. TypeOK'
      BY <1>1, <1>3, <1>5, FailedPatchType DEF AvatarInv, TypeOK
    <2> QED BY <2>1, <2>2 DEF AvatarInv
  <1> QED BY <1>4, <1>5 DEF Patch

LEMMA ConsumeStep ==
  ASSUME AvatarInv, NEW h \in Handlers, ConsumePendingAvatar(h)
  PROVE  AvatarInv'
  <1> DEFINE r == [IdleRequest EXCEPT !.pc = "getPending", !.intent = pending.intent,
                                      !.fromPending = TRUE]
  <1>1. /\ req[h].pc = "consume" /\ req[h].intent = "none" /\ ~req[h].fromPending
        /\ pending' = NothingPending /\ pending'.intent = "none"
        /\ UNCHANGED <<now, user, waiting, kept, applied, confirmed, numEvents, changes, faults>>
    BY DEF ConsumePendingAvatar, Taken, NothingPending, AvatarInv, PhaseOK
  <1>2. "none" \notin kept /\ "none" \notin waiting /\ pending.intent \in Intents \cup {"none"}
    BY IntentsAssumption DEF AvatarInv, TypeOK, PendingAvatars
  <1>3. CASE Valid(pending) /\ req' = [req EXCEPT ![h] = r] /\ UNCHANGED dropped
    <2>1. r \in RequestRecords
      BY <1>2, IdleType DEF RequestRecords
    <2>2. r.pc = "getPending" /\ r.intent = pending.intent /\ r.fromPending
          /\ pending.intent # "none"
      BY <1>3 DEF IdleRequest, Valid
    <2> HIDE DEF r
    <2>3. \A g \in Handlers : req'[g] = IF g = h THEN r ELSE req[g]
      BY <1>3 DEF AvatarInv, TypeOK
    <2>4. TypeOK'
      BY <1>1, <1>3, <2>1, IdleType DEF AvatarInv, TypeOK
    <2>5. PhaseOK'
      BY <2>2, <2>3 DEF AvatarInv, PhaseOK
    <2>6. OnePlace'
      BY <1>1, <1>2, <2>2, <2>3 DEF AvatarInv, OnePlace
    <2>7. Accounted'
      BY <1>1, <1>3, <2>2, <2>3, KeptIsAccounted DEF AvatarInv, Accounted
    <2> QED BY <2>4, <2>5, <2>6, <2>7, KeptIsAccounted DEF AvatarInv
  <1>4. CASE Finish(h) /\ dropped' = dropped \cup ({pending.intent} \ {"none"})
    <2>1. \A g \in Handlers : req'[g] = IF g = h THEN IdleRequest ELSE req[g]
      BY <1>4 DEF Finish, AvatarInv, TypeOK
    <2>2. IdleRequest.pc = "idle" /\ IdleRequest.intent = "none" /\ ~IdleRequest.fromPending
      BY DEF IdleRequest
    <2>3. TypeOK'
      BY <1>1, <1>2, <1>4, FinishType, IdleType DEF AvatarInv, TypeOK
    <2>4. PhaseOK'
      BY <2>1, <2>2 DEF AvatarInv, PhaseOK
    <2>5. OnePlace'
      BY <1>1, <1>2, <2>1, <2>2 DEF AvatarInv, OnePlace
    <2>6. Accounted'
      BY <1>1, <1>2, <1>4, <2>1, KeptIsAccounted DEF AvatarInv, Accounted
    <2> QED BY <2>3, <2>4, <2>5, <2>6, KeptIsAccounted DEF AvatarInv
  <1> QED BY <1>3, <1>4 DEF ConsumePendingAvatar

LEMMA GetPendingStep ==
  ASSUME AvatarInv, NEW h \in Handlers, GetPending(h)
  PROVE  AvatarInv'
  <1>1. /\ req[h].pc = "getPending" /\ req[h].intent # "none"
        /\ UNCHANGED <<now, user, waiting, numEvents, changes>>
    BY DEF GetPending, AvatarInv, PhaseOK
  <1>2. CASE /\ req' = [req EXCEPT ![h].pc = "patch", ![h].original = user.status]
             /\ UNCHANGED <<pending, history>> /\ NoFault
    BY <1>1, <1>2, ReadStep DEF NoFault
  <1>3. CASE AfterFailedPatch(h) /\ Finish(h) /\ UNCHANGED applied /\ (NoFault \/ Fault)
    <2>1. PhaseOK' /\ OnePlace' /\ PendingKept'
      BY <1>1, <1>3, FailedPatch
    <2>2. TypeOK'
      BY <1>1, <1>3, FailedPatchType, FinishType, FaultType DEF AvatarInv, TypeOK
    <2> QED BY <2>1, <2>2 DEF AvatarInv
  <1> QED BY <1>2, <1>3 DEF GetPending

LEMMA NextAvatarInv == AvatarInv /\ [Next]_vars => AvatarInv'
  <1> SUFFICES ASSUME AvatarInv, [Next]_vars PROVE AvatarInv'
    OBVIOUS
  <1>1. CASE UNCHANGED vars
    <2>1. UNCHANGED <<now, user, pending, req, waiting, kept, applied, confirmed, dropped,
                      numEvents, changes, faults>>
      BY <1>1 DEF vars, history
    <2> QED BY <2>1 DEF AvatarInv, TypeOK, PhaseOK, OnePlace, PendingKept, InHand
  <1>2. CASE Tick \/ ChangeUser \/ Restart
    BY <1>2, QuietSteps, RestartStep
  <1>3. ASSUME NEW h \in Handlers, NEW i \in Intents, NEW withID, Intent(h, i, withID)
        PROVE  AvatarInv'
    BY <1>3, IntentStep
  <1>4. ASSUME NEW h \in Handlers, Event(h) \/ Serve(h) PROVE AvatarInv'
    BY <1>4, EventStep, GetUserStep, PatchStep, ConsumeStep, GetPendingStep DEF Serve
  <1> QED BY <1>1, <1>2, <1>3, <1>4 DEF Next

LEMMA AvatarInvariant == Spec => []AvatarInv
  BY InitAvatarInv, NextAvatarInv, PTL DEF Spec

-----------------------------------------------------------------------------
(* The theorems *)

(* The type invariant holds for any handlers, logins, settings and bounds. *)
THEOREM TypeCorrect == Spec => []TypeOK
  <1>1. AvatarInv => TypeOK
    BY DEF AvatarInv
  <1> QED BY <1>1, AvatarInvariant, PTL

(* applyPendingAvatarByEmail: no pending avatar is lost on any path, with any number of
   handlers at work on the map. *)
THEOREM NoAvatarLost == Spec => []PendingKept
  <1>1. AvatarInv => PendingKept
    BY DEF AvatarInv
  <1> QED BY <1>1, AvatarInvariant, PTL

(* consumePendingAvatar: a pending avatar is in the hands of one handler at most, and not
   in the map as well. *)
THEOREM NoAvatarShared == Spec => []TakenOnce
  <1>1. AvatarInv => TakenOnce
    <2> SUFFICES ASSUME AvatarInv PROVE TakenOnce
      OBVIOUS
    <2>1. \A h \in Handlers : req[h].fromPending => req[h].intent # "none"
      BY DEF AvatarInv, PhaseOK
    <2> QED BY <2>1 DEF AvatarInv, OnePlace, TakenOnce, InHand
  <1> QED BY <1>1, AvatarInvariant, PTL
(* A patch from a copy that is still current leaves the status unmixed, and one that changes
   the status brings a field of its own. *)
LEMMA PatchMixes ==
  ASSUME TypeOK, NEW h \in Handlers, Patch(h), ~Mixed, Mixed'
  PROVE  /\ req[h].pc = "patch" /\ req'[h].pc = "idle"
         /\ req[h].original # user.status
         /\ req[h].intent = user'.status.avatar
            \/ ProviderOf(req[h].intent) = user'.status.provider
  <1> DEFINE i == req[h].intent
             new == Patched(req[h].original, i)
  <1>1. req[h].pc = "patch" /\ req'[h].pc = "idle"
    BY DEF Patch, Finish, IdleRequest, TypeOK
  <1>2. user' = user \/ user'.status = new
    BY DEF Patch, TypeOK, Users
  <1>3. user'.status = new
    BY <1>2 DEF Mixed
  <1>4. new # user.status
    BY <1>3 DEF Mixed
  <1>5. /\ new.avatar = IF req[h].original.avatar # i THEN i ELSE user.status.avatar
        /\ new.provider = IF req[h].original.provider # ProviderOf(i) THEN ProviderOf(i)
                                                                      ELSE user.status.provider
    BY DEF Patched
  <1>6. new.provider # ProviderOf(new.avatar)
    BY <1>3 DEF Mixed
  <1>7. req[h].original # user.status
    BY <1>5, <1>6
  <1>8. i = new.avatar \/ ProviderOf(i) = new.provider
    <2>1. SUFFICES ASSUME new.avatar = user.status.avatar, new.provider = user.status.provider
                   PROVE  FALSE
      BY <1>5
    <2>2. new.avatar # "none"
      BY <1>3 DEF Mixed
    <2> QED BY <1>6, <2>1, <2>2 DEF Mixed
  <1> QED BY <1>1, <1>3, <1>7, <1>8

(* idpIntentSucceededHandler, patchUserAvatar: the status mixes two logins only through a
   patch made from a copy that was overtaken. *)
THEOREM NoMixButStale == Spec => MixedOnlyFromStaleCopy
  <1>1. AvatarInv /\ [Next]_vars =>
          [~Mixed /\ Mixed' => \E h \in Handlers :
              /\ req[h].pc = "patch" /\ req'[h].pc = "idle"
              /\ req[h].original # user.status
              /\ req[h].intent = user'.status.avatar
                 \/ ProviderOf(req[h].intent) = user'.status.provider]_vars
    <2> SUFFICES ASSUME AvatarInv, Next, ~Mixed, Mixed'
                 PROVE  \E h \in Handlers :
                          /\ req[h].pc = "patch" /\ req'[h].pc = "idle"
                          /\ req[h].original # user.status
                          /\ req[h].intent = user'.status.avatar
                             \/ ProviderOf(req[h].intent) = user'.status.provider
      OBVIOUS
    <2>1. user' # user
      BY DEF Mixed
    <2>2. ~ChangeUser
      BY DEF ChangeUser, Mixed, NoStatus
    <2>3. \A h \in Handlers : ~GetUserWithRetry(h) /\ ~ConsumePendingAvatar(h) /\ ~GetPending(h)
      BY <2>1 DEF GetUserWithRetry, ConsumePendingAvatar, GetPending
    <2>4. ~Tick /\ ~Restart /\ \A h \in Handlers : ~Event(h)
      BY <2>1 DEF Tick, Restart, Event
    <2>5. \A h \in Handlers, i \in Intents, withID \in BOOLEAN : ~Intent(h, i, withID)
      BY <2>1 DEF Intent
    <2>6. PICK h \in Handlers : Patch(h)
      BY <2>2, <2>3, <2>4, <2>5 DEF Next, Serve
    <2> QED BY <2>6, PatchMixes DEF AvatarInv
  <1> QED BY <1>1, AvatarInvariant, PTL DEF Spec, MixedOnlyFromStaleCopy

-----------------------------------------------------------------------------
(* The refinement of AvatarCustody *)

(* An avatar that was never in the map and is through with nothing, and one that was *)
Fresh(i) == i \notin kept \cup applied \cup confirmed \cup dropped
Live(i) == i \in kept \ (confirmed \cup dropped)

(* What is in the map or came from it is still to be confirmed, and what waits or is with a
   handler of idp-intent-succeeded has yet to be stored or applied. *)
CustodyInv ==
    /\ pending.intent # "none" => Live(pending.intent)
    /\ \A h \in Handlers : req[h].intent # "none" =>
          IF req[h].fromPending THEN Live(req[h].intent) ELSE Fresh(req[h].intent)
    /\ \A i \in waiting : Fresh(i)

(* The mapping, named *)
HeldBy(h) == IF req[h].fromPending THEN req[h].intent ELSE "none"
Written == kept \cap applied
Spent == kept \cap (confirmed \cup dropped)
Passed == \/ Custody!Next
          \/ UNCHANGED <<pending.intent, [h \in Handlers |-> HeldBy(h)], Written, Spent>>

LEMMA CustodyStart == Init => CustodyInv /\ Custody!Init
  <1> SUFFICES ASSUME Init PROVE CustodyInv /\ Custody!Init
    OBVIOUS
  <1>1. pending.intent = "none" /\ kept = {} /\ applied = {} /\ confirmed = {} /\ dropped = {}
    BY DEF Init, NothingPending
  <1>2. \A h \in Handlers : req[h].intent = "none" /\ ~req[h].fromPending
    BY DEF Init, IdleRequest
  <1> QED BY <1>1, <1>2 DEF CustodyInv, Fresh, Custody!Init

LEMMA HeldFacts ==
  ASSUME AvatarInv, NEW h \in Handlers
  PROVE  /\ req[h].intent \in Intents \cup {"none"}
         /\ HeldBy(h) # "none" <=> req[h].fromPending
         /\ req[h].fromPending => HeldBy(h) = req[h].intent
         /\ req[h].pc \in {"idle", "consume"} => HeldBy(h) = "none" /\ req[h].intent = "none"
  BY DEF AvatarInv, TypeOK, RequestRecords, PhaseOK, HeldBy

(* The map and what came from it stay as they are; an intent comes in, or is reported as
   failed. *)
LEMMA NothingPassed ==
  ASSUME AvatarInv, CustodyInv,
         pending'.intent = pending.intent, UNCHANGED <<kept, applied, confirmed, dropped>>,
         waiting' \subseteq waiting,
         \A g \in Handlers :
            \/ req'[g].intent = req[g].intent /\ req'[g].fromPending = req[g].fromPending
            \/ /\ ~req[g].fromPending /\ ~req'[g].fromPending
               /\ req'[g].intent \in waiting \cup {"none"}
  PROVE  CustodyInv' /\ Passed
  <1>1. CustodyInv'
    BY DEF CustodyInv, Fresh, Live
  <1>2. \A g \in Handlers : HeldBy(g)' = HeldBy(g)
    BY DEF HeldBy
  <1>3. UNCHANGED <<pending.intent, [h \in Handlers |-> HeldBy(h)], Written, Spent>>
    BY <1>2 DEF Written, Spent
  <1> QED BY <1>1, <1>3 DEF Passed

(* storePendingAvatar of an intent that comes from Zitadel *)
LEMMA StorePassed ==
  ASSUME AvatarInv, CustodyInv, NEW i \in Intents, Fresh(i), StorePendingAvatar(i),
         i # pending.intent, waiting' \subseteq waiting \ {i}, UNCHANGED applied,
         \A g \in Handlers :
            \/ req'[g] = req[g] /\ req[g].intent # i
            \/ ~req[g].fromPending /\ req'[g] = IdleRequest
  PROVE  CustodyInv' /\ Passed
  <1>1. /\ pending'.intent = i /\ kept' = kept \cup {i} /\ confirmed' = confirmed
        /\ dropped' = dropped \cup ({pending.intent} \ {i, "none"})
    BY DEF StorePendingAvatar
  <1>2. /\ pending.intent \in kept \cup {"none"} /\ i # "none" /\ "none" \notin kept
        /\ pending.intent \notin waiting
        /\ \A g \in Handlers : req[g].intent # "none" => req[g].intent # pending.intent
    BY IntentsAssumption DEF CustodyInv, Live, AvatarInv, TypeOK, OnePlace
  <1>3. IdleRequest.intent = "none" /\ ~IdleRequest.fromPending
    BY DEF IdleRequest
  <1>4. CustodyInv'
    BY <1>1, <1>2, <1>3 DEF CustodyInv, Fresh, Live
  <1>5. \A g \in Handlers : HeldBy(g)' = HeldBy(g) /\ HeldBy(g) # i
    BY <1>2, <1>3, HeldFacts DEF HeldBy, CustodyInv, Fresh, Live
  <1>6. Spent' = Spent \cup ({pending.intent} \ {"none"}) /\ i \notin Spent
    BY <1>1, <1>2 DEF Spent, Fresh, CustodyInv, Live
  <1>7. Written' = Written
    BY <1>1 DEF Written, Fresh
  <1>8. Custody!Store(i)
    BY <1>1, <1>5, <1>6, <1>7 DEF Custody!Store, Custody!Enter, HeldBy, Written, Spent
  <1> QED BY <1>4, <1>8 DEF Passed, Custody!Next

(* What a handler that ends leaves behind *)
LEMMA EndsHeld ==
  ASSUME AvatarInv, NEW h \in Handlers, Finish(h)
  PROVE  /\ \A g \in Handlers : req'[g] = IF g = h THEN IdleRequest ELSE req[g]
         /\ req'[h].intent = "none" /\ ~req'[h].fromPending
         /\ [g \in Handlers |-> HeldBy(g)]' = [[g \in Handlers |-> HeldBy(g)] EXCEPT ![h] = "none"]
  <1>1. \A g \in Handlers : req'[g] = IF g = h THEN IdleRequest ELSE req[g]
    BY DEF Finish, AvatarInv, TypeOK
  <1>2. req'[h].intent = "none" /\ ~req'[h].fromPending
    BY <1>1 DEF IdleRequest
  <1>3. \A g \in Handlers : HeldBy(g)' = IF g = h THEN "none" ELSE HeldBy(g)
    BY <1>1, <1>2 DEF HeldBy
  <1> QED BY <1>1, <1>2, <1>3

(* applyPendingAvatarByEmail puts back what it could not apply. *)
LEMMA PutBackPassed ==
  ASSUME AvatarInv, CustodyInv, NEW h \in Handlers, req[h].fromPending,
         StorePendingAvatar(req[h].intent), Finish(h), UNCHANGED waiting,
         applied' \in {applied, applied \cup {req[h].intent}}
  PROVE  CustodyInv' /\ Passed
  <1> DEFINE i == req[h].intent
  <1>1. /\ pending'.intent = i /\ kept' = kept \cup {i} /\ confirmed' = confirmed
        /\ dropped' = dropped \cup ({pending.intent} \ {i, "none"})
    BY DEF StorePendingAvatar
  <1>2. HeldBy(h) = i /\ i # "none"
    BY HeldFacts
  <1>3. /\ pending.intent \in kept \cup {"none"} /\ "none" \notin kept
        /\ pending.intent \notin waiting
        /\ \A g \in Handlers : req[g].intent # "none" => req[g].intent # pending.intent
        /\ Live(i)
    BY <1>2, IntentsAssumption DEF CustodyInv, Live, AvatarInv, TypeOK, OnePlace
  <1>4. \A g \in Handlers : g # h /\ req[g].intent # "none" => req[g].intent # i
    BY <1>2 DEF AvatarInv, OnePlace
  <1>5. CustodyInv'
    <2>1. kept' = kept /\ i \in kept' \ (confirmed' \cup dropped')
      BY <1>1, <1>2, <1>3 DEF Live
    <2>2. \A g \in Handlers : req'[g].intent # "none" => g # h /\ req'[g] = req[g]
      BY EndsHeld
    <2>3. applied' \subseteq applied \cup {i} /\ i \notin waiting
      BY <1>2 DEF AvatarInv, OnePlace
    <2> HIDE DEF i
    <2> QED BY <1>1, <1>3, <1>4, <2>1, <2>2, <2>3 DEF CustodyInv, Fresh, Live
  <1>6. Spent' = Spent \cup ({pending.intent} \ {"none"})
    BY <1>1, <1>3 DEF Spent, CustodyInv, Live
  <1>7. Written' \in {Written, Written \cup {i}}
    BY <1>1, <1>3 DEF Written, Live
  <1>8. Custody!PutBack(h)
    BY <1>1, <1>2, <1>6, <1>7, EndsHeld DEF Custody!PutBack, Custody!Enter, HeldBy, Written, Spent
  <1> QED BY <1>5, <1>8 DEF Passed, Custody!Next

(* A patch that succeeds, of an avatar from the map or of the handler's own, or one of the
   handler's own that fails *)
LEMMA ApplyPassed ==
  ASSUME AvatarInv, CustodyInv, NEW h \in Handlers, req[h].intent # "none", Finish(h),
         \/ /\ applied' = applied \cup {req[h].intent}
            /\ confirmed' = confirmed \cup {req[h].intent}
         \/ /\ applied' \in {applied, applied \cup {req[h].intent}}
            /\ confirmed' = confirmed /\ ~req[h].fromPending,
         UNCHANGED <<pending, kept, dropped, waiting>>
  PROVE  CustodyInv' /\ Passed
  <1> DEFINE i == req[h].intent
  <1>1. /\ \A g \in Handlers : g # h /\ req[g].intent # "none" => req[g].intent # i
        /\ i \notin waiting /\ i # pending.intent
    BY DEF AvatarInv, OnePlace
  <1>2. CustodyInv'
    BY <1>1, EndsHeld DEF CustodyInv, Fresh, Live
  <1>3. CASE req[h].fromPending
    <2>1. HeldBy(h) = i /\ Spent' = Spent \cup {i} /\ Written' = Written \cup {i}
      BY <1>3, HeldFacts DEF Spent, Written, CustodyInv, Live
    <2>2. Custody!Apply(h)
      BY <2>1, EndsHeld DEF Custody!Apply, HeldBy, Written, Spent
    <2> QED BY <1>2, <2>2 DEF Passed, Custody!Next
  <1>4. CASE ~req[h].fromPending
    <2>1. Spent' = Spent /\ Written' = Written
      BY <1>4 DEF Spent, Written, CustodyInv, Fresh
    <2>2. \A g \in Handlers : HeldBy(g)' = HeldBy(g)
      BY <1>4, EndsHeld DEF HeldBy
    <2>3. [g \in Handlers |-> HeldBy(g)]' = [g \in Handlers |-> HeldBy(g)]
      BY <2>2
    <2> QED BY <1>2, <2>1, <2>3 DEF Passed
  <1> QED BY <1>3, <1>4

LEMMA FailedPatchPassed ==
  ASSUME AvatarInv, CustodyInv, NEW h \in Handlers, Finish(h), AfterFailedPatch(h),
         UNCHANGED waiting, req[h].intent # "none",
         applied' \in {applied, applied \cup {req[h].intent}}
  PROVE  CustodyInv' /\ Passed
  <1>1. CASE req[h].fromPending
    BY <1>1, PutBackPassed DEF AfterFailedPatch
  <1>2. CASE ~req[h].fromPending
    BY <1>2, ApplyPassed DEF AfterFailedPatch
  <1> QED BY <1>1, <1>2

(* consumePendingAvatar hands the entry over, or drops it. *)
LEMMA ConsumePassed ==
  ASSUME AvatarInv, CustodyInv, NEW h \in Handlers, ConsumePendingAvatar(h)
  PROVE  CustodyInv' /\ Passed
  <1> DEFINE r == [IdleRequest EXCEPT !.pc = "getPending", !.intent = pending.intent,
                                      !.fromPending = TRUE]
  <1>1. /\ HeldBy(h) = "none" /\ req[h].intent = "none" /\ pending'.intent = "none"
        /\ ~req[h].fromPending
        /\ UNCHANGED <<waiting, kept, applied, confirmed>>
    BY HeldFacts DEF ConsumePendingAvatar, Taken, NothingPending
  <1>2. /\ pending.intent \notin waiting /\ "none" \notin kept
        /\ \A g \in Handlers : req[g].intent # "none" => req[g].intent # pending.intent
    BY IntentsAssumption DEF AvatarInv, TypeOK, OnePlace
  <1>3. CASE Valid(pending) /\ req' = [req EXCEPT ![h] = r] /\ UNCHANGED dropped
    <2>1. r.intent = pending.intent /\ r.fromPending /\ pending.intent # "none"
      BY <1>3 DEF IdleRequest, Valid
    <2> HIDE DEF r
    <2>2. \A g \in Handlers : req'[g] = IF g = h THEN r ELSE req[g]
      BY <1>3 DEF AvatarInv, TypeOK
    <2>3. CustodyInv'
      BY <1>1, <1>3, <2>1, <2>2 DEF CustodyInv, Fresh, Live
    <2>4. \A g \in Handlers : HeldBy(g)' = IF g = h THEN pending.intent ELSE HeldBy(g)
      BY <2>1, <2>2 DEF HeldBy
    <2>5. [g \in Handlers |-> HeldBy(g)]'
             = [[g \in Handlers |-> HeldBy(g)] EXCEPT ![h] = pending.intent]
      BY <2>4
    <2>6. Custody!Take(h)
      BY <1>1, <1>3, <2>1, <2>5 DEF Custody!Take, HeldBy, Written, Spent
    <2> QED BY <2>3, <2>6 DEF Passed, Custody!Next
  <1>4. CASE Finish(h) /\ dropped' = dropped \cup ({pending.intent} \ {"none"})
    <2>1. CASE pending.intent = "none"
      BY <1>1, <1>4, <2>1, EndsHeld, NothingPassed
    <2>2. CASE pending.intent # "none"
      <3>1. CustodyInv'
        BY <1>1, <1>2, <1>4, <2>2, EndsHeld DEF CustodyInv, Fresh, Live
      <3>2. Spent' = Spent \cup ({pending.intent} \ {"none"})
        BY <1>1, <1>4, <2>2 DEF Spent, CustodyInv, Live
      <3>3. [g \in Handlers |-> HeldBy(g)]' = [g \in Handlers |-> HeldBy(g)]
        <4>1. \A g \in Handlers : HeldBy(g)' = HeldBy(g)
          BY <1>1, <1>4, EndsHeld DEF HeldBy
        <4> QED BY <4>1
      <3>4. Custody!Expire
        BY <1>1, <2>2, <3>2, <3>3 DEF Custody!Expire, Custody!Enter, HeldBy, Written, Spent
      <3> QED BY <3>1, <3>4 DEF Passed, Custody!Next
    <2> QED BY <2>1, <2>2
  <1> QED BY <1>3, <1>4 DEF ConsumePendingAvatar

LEMMA RestartPassed ==
  ASSUME AvatarInv, CustodyInv, Restart
  PROVE  CustodyInv' /\ Passed
  <1>1. /\ pending'.intent = "none" /\ UNCHANGED <<waiting, kept, applied, confirmed>>
        /\ \A g \in Handlers : req'[g].intent = "none" /\ ~req'[g].fromPending
    BY DEF Restart, NothingPending, IdleRequest
  <1>2. dropped' = dropped \cup (({pending.intent} \cup {req[h].intent : h \in Handlers}) \ {"none"})
    BY DEF Restart
  <1>3. /\ pending.intent \notin waiting
        /\ \A g \in Handlers : req[g].intent # "none" => req[g].intent \notin waiting
    BY DEF AvatarInv, OnePlace
  <1>4. CustodyInv'
    BY <1>1, <1>2, <1>3 DEF CustodyInv, Fresh, Live
  <1>5. Spent' = Spent \cup (({pending.intent} \cup {HeldBy(h) : h \in Handlers}) \ {"none"})
    <2>1. ASSUME NEW i \in kept, i # "none"
          PROVE  (\E h \in Handlers : req[h].intent = i) <=> (\E h \in Handlers : HeldBy(h) = i)
      BY <2>1 DEF CustodyInv, Fresh, HeldBy
    <2>2. \A h \in Handlers : HeldBy(h) # "none" => HeldBy(h) \in kept
      BY DEF CustodyInv, Live, HeldBy
    <2>3. pending.intent # "none" => pending.intent \in kept
      BY DEF CustodyInv, Live
    <2>4. "none" \notin kept
      BY IntentsAssumption DEF AvatarInv, TypeOK
    <2> QED BY <1>1, <1>2, <2>1, <2>2, <2>3, <2>4 DEF Spent
  <1>6. [g \in Handlers |-> HeldBy(g)]' = [g \in Handlers |-> "none"]
    BY <1>1 DEF HeldBy
  <1>7. {HeldBy(h) : h \in Handlers} = {[g \in Handlers |-> HeldBy(g)][h] : h \in Handlers}
    OBVIOUS
  <1>8. Custody!Crash
    BY <1>1, <1>5, <1>6, <1>7 DEF Custody!Crash, HeldBy, Written, Spent
  <1> QED BY <1>4, <1>8 DEF Passed, Custody!Next

-----------------------------------------------------------------------------

LEMMA IntentPassed ==
  ASSUME AvatarInv, CustodyInv, NEW h \in Handlers, NEW i \in Intents, NEW withID,
         Intent(h, i, withID)
  PROVE  CustodyInv' /\ Passed
  <1> DEFINE r == [IdleRequest EXCEPT !.pc = "getUser", !.intent = i, !.attempt = 1]
  <1>1. /\ i \in waiting /\ waiting' = waiting \ {i} /\ ~req[h].fromPending
    BY HeldFacts DEF Intent
  <1>2. CASE req' = [req EXCEPT ![h] = r] /\ UNCHANGED <<pending, history>>
    <2>1. r.intent = i /\ ~r.fromPending
      BY DEF IdleRequest
    <2> HIDE DEF r
    <2>2. \A g \in Handlers : req'[g] = IF g = h THEN r ELSE req[g]
      BY <1>2 DEF AvatarInv, TypeOK
    <2> QED BY <1>1, <1>2, <2>1, <2>2, NothingPassed DEF history
  <1>3. CASE StorePendingAvatar(i) /\ UNCHANGED <<req, applied>>
    <2>1. Fresh(i) /\ i # pending.intent /\ \A g \in Handlers : req[g].intent # i
      BY <1>1, IntentsAssumption DEF CustodyInv, AvatarInv, OnePlace, TypeOK
    <2> QED BY <1>1, <1>3, <2>1, StorePassed
  <1> QED BY <1>2, <1>3 DEF Intent

LEMMA GetUserPassed ==
  ASSUME AvatarInv, CustodyInv, NEW h \in Handlers, GetUserWithRetry(h)
  PROVE  CustodyInv' /\ Passed
  <1>1. /\ ~req[h].fromPending /\ req[h].intent \in Intents /\ req[h].intent # "none"
        /\ UNCHANGED waiting
    BY DEF GetUserWithRetry, AvatarInv, TypeOK, RequestRecords, PhaseOK
  <1>2. CASE /\ \/ req' = [req EXCEPT ![h].pc = "patch", ![h].original = user.status]
                \/ req' = [req EXCEPT ![h].attempt = @ + 1]
             /\ UNCHANGED <<pending, history>>
    <2>1. \A g \in Handlers : req'[g].intent = req[g].intent
                              /\ req'[g].fromPending = req[g].fromPending
      BY <1>2 DEF AvatarInv, TypeOK, RequestRecords
    <2> QED BY <1>1, <1>2, <2>1, NothingPassed DEF history
  <1>3. CASE StorePendingAvatar(req[h].intent) /\ Finish(h) /\ UNCHANGED applied
    <2>1. /\ Fresh(req[h].intent) /\ req[h].intent # pending.intent
          /\ req[h].intent \notin waiting
          /\ \A g \in Handlers : g # h => req[g].intent # req[h].intent
      BY <1>1 DEF CustodyInv, AvatarInv, OnePlace
    <2> QED BY <1>1, <1>3, <2>1, EndsHeld, StorePassed
  <1>4. CASE Finish(h) /\ UNCHANGED <<pending, history>>
    BY <1>1, <1>4, EndsHeld, NothingPassed DEF history
  <1> QED BY <1>2, <1>3, <1>4 DEF GetUserWithRetry

LEMMA PatchPassed ==
  ASSUME AvatarInv, CustodyInv, NEW h \in Handlers, Patch(h) \/ GetPending(h)
  PROVE  CustodyInv' /\ Passed
  <1>1. req[h].intent # "none" /\ UNCHANGED waiting
    BY DEF Patch, GetPending, AvatarInv, PhaseOK
  <1>2. CASE /\ Finish(h) /\ AfterFailedPatch(h)
             /\ applied' \in {applied, applied \cup {req[h].intent}}
    BY <1>1, <1>2, FailedPatchPassed
  <1>3. CASE /\ Finish(h) /\ applied' = applied \cup {req[h].intent}
             /\ confirmed' = confirmed \cup {req[h].intent} /\ UNCHANGED <<pending, kept, dropped>>
    BY <1>1, <1>3, ApplyPassed
  <1>4. CASE /\ req' = [req EXCEPT ![h].pc = "patch", ![h].original = user.status]
             /\ UNCHANGED <<pending, history>>
    <2>1. \A g \in Handlers : req'[g].intent = req[g].intent
                              /\ req'[g].fromPending = req[g].fromPending
      BY <1>4 DEF AvatarInv, TypeOK, RequestRecords
    <2> QED BY <1>1, <1>4, <2>1, NothingPassed DEF history
  <1> QED BY <1>2, <1>3, <1>4 DEF Patch, GetPending

LEMMA QuietPassed ==
  ASSUME AvatarInv, CustodyInv, Tick \/ ChangeUser \/ UNCHANGED vars \/ \E h \in Handlers : Event(h)
  PROVE  CustodyInv' /\ Passed
  <1>1. UNCHANGED <<pending, waiting, kept, applied, confirmed, dropped>>
    BY DEF Tick, ChangeUser, Event, vars, history
  <1>2. \A g \in Handlers : req'[g].intent = req[g].intent /\ req'[g].fromPending = req[g].fromPending
    BY DEF Tick, ChangeUser, Event, vars, AvatarInv, TypeOK, RequestRecords
  <1> QED BY <1>1, <1>2, NothingPassed

LEMMA StepPassed == AvatarInv /\ CustodyInv /\ [Next]_vars => CustodyInv' /\ Passed
  <1> SUFFICES ASSUME AvatarInv, CustodyInv, [Next]_vars PROVE CustodyInv' /\ Passed
    OBVIOUS
  <1>1. CASE Tick \/ ChangeUser \/ UNCHANGED vars \/ \E h \in Handlers : Event(h)
    BY <1>1, QuietPassed
  <1>2. CASE Restart
    BY <1>2, RestartPassed
  <1>3. ASSUME NEW h \in Handlers, NEW i \in Intents, NEW withID, Intent(h, i, withID)
        PROVE  CustodyInv' /\ Passed
    BY <1>3, IntentPassed
  <1>4. ASSUME NEW h \in Handlers, Serve(h) PROVE CustodyInv' /\ Passed
    BY <1>4, GetUserPassed, PatchPassed, ConsumePassed DEF Serve
  <1> QED BY <1>1, <1>2, <1>3, <1>4 DEF Next

(* storePendingAvatar, consumePendingAvatar, applyPendingAvatarByEmail: whatever the handlers
   do, the map passes the avatars on as AvatarCustody says: each is in the map, with one
   handler, or spent, and none that was spent comes back or is written again.  One whose
   patch took effect but was not confirmed is not spent. *)
THEOREM AvatarsInCustody == Spec => OneCustodian
  <1>1. Init => Custody!Init /\ CustodyInv
    BY CustodyStart
  <1>2. AvatarInv /\ CustodyInv /\ [Next]_vars => CustodyInv' /\ [Custody!Next]_Custody!vars
    BY StepPassed DEF Passed, Custody!vars, HeldBy, Written, Spent
  <1> QED BY <1>1, <1>2, AvatarInvariant, PTL DEF Spec, OneCustodian, Custody!Spec

-----------------------------------------------------------------------------
(* The notices of the same server: ActionsServer *)

(* Events are numbered by the logins; none is ahead of them. *)
Numbered ==
    /\ \A s \in sessions : s.id <= logins
    /\ \A e \in events : e.kind = "session" => e.id <= logins
    /\ \A h \in Handlers : req[h].event.kind = "session" => req[h].event.id <= logins
    /\ \A m \in mails : m.event.kind = "session" => m.event.id <= logins

(* A session that makes an alarm for the event a false one *)
Vouches(s, e) ==
    \/ s.id < e.id /\ SameDevice(s.device, e.device)
    \/ s.id = e.id /\ s.passkey

(* Who is about to raise an alarm, and saw all sessions, has found nothing that speaks
   against it, and nothing that does can come up later. *)
AlarmsDue ==
    \A h \in Handlers : req[h].pc = "mail" /\ req[h].event.kind = "session" /\ ~req[h].cut =>
        \A s \in sessions : ~Vouches(s, req[h].event)

AlarmsTrue == \A m \in mails : m.event.kind = "session" /\ ~m.cut =>
                  \A s \in sessions : ~Vouches(s, m.event)

NoticeInv == NoticeTypeOK /\ Numbered /\ AlarmsDue /\ AlarmsTrue

LEMMA NoticeData ==
  /\ NoEvent \in Events /\ NoEvent.kind = "create"
  /\ IdleNotice \in NoticeRequests
  /\ IdleNotice.pc = "idle" /\ IdleNotice.event = NoEvent
  <1>1. NoEvent \in Events /\ NoEvent.kind = "create"
    BY DEF NoEvent, Events, CreateEvents
  <1> QED BY <1>1 DEF IdleNotice, NoticeRequests

LEMMA SessionEventFacts ==
  ASSUME NEW e \in Events, e.kind = "session"
  PROVE  e.id \in Nat /\ e.device \in Devices
  BY DEF Events, SessionEvents, PasskeyEvents, CreateEvents

LEMMA PasskeyEventFacts ==
  ASSUME NEW e \in Events, e.kind \in {"passkeyAdded", "passkeyRemoved"}
  PROVE  e.subject = "user"
  BY DEF Events, SessionEvents, PasskeyEvents, CreateEvents

(* The sessions change, and those that come are newer than every event so far. *)
LEMMA WorldSound ==
  ASSUME NoticeInv, logins' \in Nat, logins <= logins', req' = req, mails' = mails,
         sessions' \subseteq Sessions,
         \A s \in sessions' : s \in sessions \/ (s.id > logins /\ s.id <= logins'),
         \A e \in events' : e \in events \/ (e.kind = "session" => e.id <= logins')
  PROVE  Numbered' /\ AlarmsDue' /\ AlarmsTrue'
  <1>1. /\ logins \in Nat /\ \A s \in sessions \cup sessions' : s.id \in Nat
        /\ events \subseteq Events /\ mails \subseteq Mails
        /\ \A h \in Handlers : req[h].event \in Events
    BY DEF NoticeInv, NoticeTypeOK, Sessions, NoticeRequests
  <1>2. \A m \in mails : m.event \in Events
    BY <1>1 DEF Mails
  <1>3. Numbered'
    <2>1. \A s \in sessions' : s.id <= logins'
      BY <1>1 DEF NoticeInv, Numbered
    <2>2. \A e \in events' : e.kind = "session" => e.id <= logins'
      BY <1>1, SessionEventFacts DEF NoticeInv, Numbered
    <2>3. \A h \in Handlers : req[h].event.kind = "session" => req[h].event.id <= logins'
      BY <1>1, SessionEventFacts DEF NoticeInv, Numbered
    <2>4. \A m \in mails : m.event.kind = "session" => m.event.id <= logins'
      BY <1>1, <1>2, SessionEventFacts DEF NoticeInv, Numbered
    <2> QED BY <2>1, <2>2, <2>3, <2>4 DEF Numbered
  <1>4. ASSUME NEW e \in Events, e.kind = "session", e.id <= logins,
               \A s \in sessions : ~Vouches(s, e)
        PROVE  \A s \in sessions' : ~Vouches(s, e)
    <2>1. e.id \in Nat
      BY <1>4, SessionEventFacts
    <2> SUFFICES ASSUME NEW s \in sessions', s.id > logins PROVE ~Vouches(s, e)
      BY <1>4
    <2> QED BY <1>1, <1>4, <2>1 DEF Vouches
  <1>5. AlarmsDue'
    BY <1>1, <1>4 DEF NoticeInv, Numbered, AlarmsDue, Vouches
  <1>6. AlarmsTrue'
    BY <1>2, <1>4 DEF NoticeInv, Numbered, AlarmsTrue, Vouches
  <1> QED BY <1>3, <1>5, <1>6

(* A handler goes on with its event, or with one that was delivered to it. *)
LEMMA HandlerSound ==
  ASSUME NoticeInv, NEW h \in Handlers, NEW r \in NoticeRequests,
         req' = [req EXCEPT ![h] = r], sessions' = sessions, logins' = logins,
         events' \subseteq events, mails' = mails,
         r.event = req[h].event \/ r.event \in events \/ r.event.kind # "session",
         r.pc = "mail" /\ r.event.kind = "session" /\ ~r.cut => \A s \in sessions : ~Vouches(s, r.event)
  PROVE  Numbered' /\ AlarmsDue' /\ AlarmsTrue' /\ req' \in [Handlers -> NoticeRequests]
  <1>1. req \in [Handlers -> NoticeRequests]
    BY DEF NoticeInv, NoticeTypeOK
  <1>2. \A g \in Handlers : req'[g] = IF g = h THEN r ELSE req[g]
    BY <1>1
  <1>3. Numbered'
    BY <1>2 DEF NoticeInv, Numbered
  <1>4. AlarmsDue'
    BY <1>2 DEF NoticeInv, AlarmsDue, Vouches
  <1>5. AlarmsTrue'
    BY DEF NoticeInv, AlarmsTrue, Vouches
  <1> QED BY <1>1, <1>3, <1>4, <1>5

(* isSuspiciousLogin: an older session of the same address, fingerprint and browser family
   is enough to raise no alarm. *)
LEMMA KnownDevice ==
  ASSUME NEW e, NEW previous, NEW s \in previous, SameDevice(s.device, e.device)
  PROVE  ~IsSuspiciousLogin(e.device, previous)
  <1>1. IpSeen(e.device, previous) /\ FingerprintSeen(e.device, previous)
    BY DEF SameDevice, IpSeen, FingerprintSeen
  <1>2. HasAgent(e.device.ua) => UserAgentSeen(e.device, previous)
    BY DEF SameDevice, UserAgentSeen, HasAgent, UserAgentKey
  <1> QED BY <1>1, <1>2 DEF IsSuspiciousLogin

-----------------------------------------------------------------------------
(* The actions *)

LEMMA InitNotice == NoticeInit => NoticeInv
  <1> SUFFICES ASSUME NoticeInit PROVE NoticeInv
    OBVIOUS
  <1>1. /\ sessions = {} /\ events = {NoEvent} /\ mails = {} /\ logins = 0
        /\ \A h \in Handlers : req[h] = IdleNotice
        /\ req \in [Handlers -> NoticeRequests]
    BY NoticeData DEF NoticeInit
  <1>2. client \in Clients
    BY DEF NoticeInit, Clients
  <1>2a. NoticeTypeOK
    <2>1. configured \in BOOLEAN /\ serving \in BOOLEAN /\ userExists \in BOOLEAN
      BY DEF NoticeInit
    <2>2. /\ passkeys \in Nat /\ faults \in Nat /\ sessions \subseteq Sessions
          /\ mails \subseteq Mails /\ activity \subseteq Events
          /\ missed \subseteq Events
          /\ events \subseteq Events
      BY NoticeData DEF NoticeInit
    <2> QED BY <1>1, <1>2, <2>1, <2>2 DEF NoticeTypeOK
  <1>3. Numbered /\ AlarmsDue /\ AlarmsTrue
    BY <1>1, NoticeData DEF Numbered, AlarmsDue, AlarmsTrue
  <1> QED BY <1>2a, <1>3 DEF NoticeInv

LEMMA ServerStep ==
  ASSUME NoticeInv, Start \/ Retry
  PROVE  NoticeInv'
  <1>1. UNCHANGED <<configured, sessions, logins, passkeys, userExists, events, req, mails, activity, missed>>
    BY DEF Start, Retry, zitadelVars
  <1>2. CreateZitadelClient \in Clients
    BY DEF CreateZitadelClient, Clients
  <1>2a. client' \in Clients
    BY <1>2 DEF Start, Retry, NoticeInv, NoticeTypeOK
  <1>2b. faults' \in Nat
    BY DEF Start, Retry, Fault, NoFault, NoticeInv, NoticeTypeOK
  <1>2c. serving' \in BOOLEAN
    BY DEF Start, Retry, StartsServing, NoticeInv, NoticeTypeOK
  <1>3. NoticeTypeOK'
    BY <1>1, <1>2a, <1>2b, <1>2c DEF NoticeInv, NoticeTypeOK
  <1>4. Numbered' /\ AlarmsDue' /\ AlarmsTrue'
    BY <1>1 DEF NoticeInv, Numbered, AlarmsDue, AlarmsTrue, Vouches
  <1> QED BY <1>3, <1>4 DEF NoticeInv

LEMMA LoginStep ==
  ASSUME NoticeInv, NEW device \in Devices, NEW passkey \in BOOLEAN,
         Login(device, passkey)
  PROVE  NoticeInv'
  <1> DEFINE s == [id |-> logins + 1, device |-> device, passkey |-> passkey]
             e == [kind |-> "session", id |-> logins + 1, device |-> device]
  <1>1. /\ logins \in Nat /\ logins' = logins + 1 /\ sessions' = sessions \cup {s}
        /\ events' = events \cup {e}
        /\ UNCHANGED <<configured, serving, client, passkeys, userExists, req, mails, activity, missed, faults>>
    BY DEF Login, serverVars, NoticeInv, NoticeTypeOK
  <1>2. s \in Sessions /\ s.id = logins + 1
    BY <1>1 DEF Sessions
  <1>3. e \in Events /\ e.id = logins + 1
    BY <1>1 DEF Events, SessionEvents
  <1> HIDE DEF s, e
  <1>4. NoticeTypeOK'
    BY <1>1, <1>2, <1>3 DEF NoticeInv, NoticeTypeOK
  <1>5. /\ \A t \in sessions' : t \in sessions \/ (t.id > logins /\ t.id <= logins')
        /\ \A f \in events' : f \in events \/ (f.kind = "session" => f.id <= logins')
    BY <1>1, <1>2, <1>3
  <1>6. Numbered' /\ AlarmsDue' /\ AlarmsTrue'
    BY <1>1, <1>4, <1>5, WorldSound DEF NoticeTypeOK
  <1> QED BY <1>4, <1>6 DEF NoticeInv

LEMMA EndSessionStep ==
  ASSUME NoticeInv, NEW s, EndSession(s)
  PROVE  NoticeInv'
  <1>1. /\ logins \in Nat /\ sessions' \subseteq sessions
        /\ UNCHANGED <<configured, serving, client, logins, passkeys, userExists, events, req, mails,
                       activity, missed, faults>>
    BY DEF EndSession, serverVars, NoticeInv, NoticeTypeOK
  <1>2. NoticeTypeOK'
    BY <1>1 DEF NoticeInv, NoticeTypeOK
  <1>3. Numbered' /\ AlarmsDue' /\ AlarmsTrue'
    BY <1>1, <1>2, WorldSound DEF NoticeTypeOK
  <1> QED BY <1>2, <1>3 DEF NoticeInv

LEMMA ChangePasskeyStep ==
  ASSUME NoticeInv, NEW kind \in {"passkeyAdded", "passkeyRemoved"}, NEW named \in BOOLEAN,
         ChangePasskey(kind, named)
  PROVE  NoticeInv'
  <1> DEFINE e == [kind |-> kind, id |-> passkeys + 1, subject |-> "user",
                   creator |-> "loginClient", named |-> named]
  <1>1. /\ logins \in Nat /\ passkeys \in Nat /\ passkeys' = passkeys + 1
        /\ events' = events \cup {e}
        /\ UNCHANGED <<configured, serving, client, sessions, logins, userExists, req, mails,
                       activity, missed, faults>>
    BY DEF ChangePasskey, serverVars, NoticeInv, NoticeTypeOK
  <1>2. e \in Events /\ e.kind # "session"
    BY <1>1 DEF Events, PasskeyEvents
  <1> HIDE DEF e
  <1>3. NoticeTypeOK'
    BY <1>1, <1>2 DEF NoticeInv, NoticeTypeOK
  <1>4. Numbered' /\ AlarmsDue' /\ AlarmsTrue'
    BY <1>1, <1>2, <1>3, WorldSound DEF NoticeTypeOK
  <1> QED BY <1>3, <1>4 DEF NoticeInv

LEMMA JobFacts ==
  ASSUME NoticeInv, NEW h \in Handlers
  PROVE  req[h] \in NoticeRequests /\ req[h].event \in Events
  BY DEF NoticeInv, NoticeTypeOK, NoticeRequests

LEMMA NoticeFaultType ==
  ASSUME NoticeTypeOK, Fault \/ NoFault
  PROVE  faults' \in Nat
  BY DEF NoticeTypeOK, Fault, NoFault

LEMMA ReceiveStep ==
  ASSUME NoticeInv, NEW h \in Handlers, NEW e, Receive(h, e)
  PROVE  NoticeInv'
  <1> DEFINE r == [IdleNotice EXCEPT !.pc = "start", !.event = e]
  <1>1. /\ e \in events /\ events' \subseteq events /\ req' = [req EXCEPT ![h] = r]
        /\ UNCHANGED <<configured, serving, client, sessions, logins, passkeys, userExists, mails,
                       activity, missed, faults>>
    BY DEF Receive, serverVars, zitadelVars
  <1>2. e \in Events
    BY <1>1 DEF NoticeInv, NoticeTypeOK
  <1>3. r \in NoticeRequests /\ r.pc = "start" /\ r.event = e
    BY <1>2 DEF IdleNotice, NoticeRequests
  <1> HIDE DEF r
  <1>4. Numbered' /\ AlarmsDue' /\ AlarmsTrue' /\ req' \in [Handlers -> NoticeRequests]
    BY <1>1, <1>3, HandlerSound
  <1>5. NoticeTypeOK'
    BY <1>1, <1>4 DEF NoticeInv, NoticeTypeOK
  <1> QED BY <1>4, <1>5 DEF NoticeInv

(* What most steps of a request do: it goes on with its event or ends, and no Email is
   written. *)
LEMMA MoveStep ==
  ASSUME NoticeInv, NEW h \in Handlers, NEW r \in NoticeRequests,
         req' = [req EXCEPT ![h] = r], r.event = req[h].event \/ r.event.kind # "session",
         r.pc = "mail" /\ r.event.kind = "session" /\ ~r.cut => \A s \in sessions : ~Vouches(s, r.event),
         UNCHANGED <<configured, serving, client, sessions, logins, passkeys, events, mails>>,
         userExists' \in BOOLEAN, activity' \subseteq Events, missed' \subseteq Events, faults' \in Nat
  PROVE  NoticeInv'
  <1>1. Numbered' /\ AlarmsDue' /\ AlarmsTrue' /\ req' \in [Handlers -> NoticeRequests]
    BY HandlerSound
  <1>2. NoticeTypeOK'
    BY <1>1 DEF NoticeInv, NoticeTypeOK
  <1> QED BY <1>1, <1>2 DEF NoticeInv

LEMMA AnswerStep ==
  ASSUME NoticeInv, NEW h \in Handlers, Answer(h),
         UNCHANGED <<configured, serving, client, sessions, logins, passkeys, events, mails>>,
         userExists' \in BOOLEAN, activity' \subseteq Events, missed' \subseteq Events, faults' \in Nat
  PROVE  NoticeInv'
  <1> DEFINE r == IdleNotice
  <1>1. req' = [req EXCEPT ![h] = r]
    BY DEF Answer
  <1>2. r \in NoticeRequests /\ r.pc = "idle" /\ r.event.kind = "create"
    BY NoticeData
  <1> HIDE DEF r
  <1> QED BY <1>1, <1>2, MoveStep

LEMMA GotoStep ==
  ASSUME NoticeInv, NEW h \in Handlers, NEW pc \in {"list", "mail", "record", "seed"},
         Goto(h, pc),
         pc = "mail" => req[h].event.kind # "session",
         UNCHANGED <<configured, serving, client, sessions, logins, passkeys, events, mails>>,
         userExists' \in BOOLEAN, activity' \subseteq Events, missed' \subseteq Events, faults' \in Nat
  PROVE  NoticeInv'
  <1> DEFINE r == [req[h] EXCEPT !.pc = pc]
  <1>1. req' = [req EXCEPT ![h] = r]
    BY DEF Goto
  <1>2. r \in NoticeRequests /\ r.pc = pc /\ r.event = req[h].event
    BY JobFacts DEF NoticeRequests
  <1> HIDE DEF r
  <1> QED BY <1>1, <1>2, MoveStep

LEMMA SessionStartStep ==
  ASSUME NoticeInv, NEW h \in Handlers, SessionStart(h)
  PROVE  NoticeInv'
  <1>1. UNCHANGED <<configured, serving, client, sessions, logins, passkeys, events, mails,
                    userExists, activity, missed, faults>>
    BY DEF SessionStart, serverVars, zitadelVars
  <1>2. /\ userExists' \in BOOLEAN /\ activity' \subseteq Events /\ faults' \in Nat
        /\ missed' \subseteq Events
    BY <1>1 DEF NoticeInv, NoticeTypeOK
  <1> QED BY <1>1, <1>2, GotoStep, AnswerStep DEF SessionStart

(* The decision of sessionAddedHandler: an alarm only when nothing in the listing vouches
   for the login *)
LEMMA SessionListStep ==
  ASSUME NoticeInv, NEW h \in Handlers, SessionList(h)
  PROVE  NoticeInv'
  <1> DEFINE e == req[h].event
  <1>1. UNCHANGED <<configured, serving, client, sessions, logins, passkeys, events, mails,
                    userExists, activity, missed>>
    BY DEF SessionList, serverVars, zitadelVars
  <1>2. /\ userExists' \in BOOLEAN /\ activity' \subseteq Events /\ faults' \in Nat
        /\ missed' \subseteq Events
    BY <1>1, NoticeFaultType DEF NoticeInv, NoticeTypeOK, SessionList
  <1>3. ASSUME NEW listed,
               ~Exempt(e, listed), IsSuspiciousLogin(e.device, GetPreviousSessions(e, listed)),
               req' = [req EXCEPT ![h].pc = "mail", ![h].cut = (listed # sessions)]
        PROVE  NoticeInv'
    <2> DEFINE r == [req[h] EXCEPT !.pc = "mail", !.cut = (listed # sessions)]
               previous == GetPreviousSessions(e, listed)
    <2>1. ASSUME NEW s \in sessions, listed = sessions, e.kind = "session", Vouches(s, e) PROVE FALSE
      <3>1. e.id \in Nat /\ s.id \in Nat
        BY <2>1, JobFacts, SessionEventFacts DEF NoticeInv, NoticeTypeOK, Sessions
      <3>2. CASE s.id = e.id /\ s.passkey
        BY <1>3, <2>1, <3>2 DEF Exempt
      <3>3. CASE s.id < e.id /\ SameDevice(s.device, e.device)
        <4>1. s \in previous
          BY <2>1, <3>1, <3>3 DEF GetPreviousSessions
        <4> HIDE DEF previous
        <4> QED BY <3>3, <4>1, KnownDevice, <1>3 DEF previous
      <3> QED BY <2>1, <3>2, <3>3 DEF Vouches
    <2>2. r \in NoticeRequests /\ r.event = e /\ r.cut = (listed # sessions)
      BY JobFacts DEF NoticeRequests
    <2>3. req' = [req EXCEPT ![h] = r]
      BY <1>3
    <2> HIDE DEF r
    <2> QED BY <1>1, <1>2, <2>1, <2>2, <2>3, MoveStep
  <1>4. CASE Answer(h)
    BY <1>1, <1>2, <1>4, AnswerStep
  <1> QED BY <1>3, <1>4 DEF SessionList

LEMMA PasskeyStartStep ==
  ASSUME NoticeInv, NEW h \in Handlers, PasskeyAddedStart(h) \/ PasskeyRemovedStart(h)
  PROVE  NoticeInv'
  <1>1. UNCHANGED <<configured, serving, client, sessions, logins, passkeys, events, mails,
                    userExists, activity>>
    BY DEF PasskeyAddedStart, PasskeyRemovedStart, serverVars,
           zitadelVars
  <1>2. /\ userExists' \in BOOLEAN /\ activity' \subseteq Events /\ faults' \in Nat
        /\ missed' \subseteq Events
    BY <1>1, NoticeFaultType, JobFacts
       DEF NoticeInv, NoticeTypeOK, PasskeyAddedStart, PasskeyRemovedStart, NoFault
  <1>3. req[h].event.kind # "session"
    BY DEF PasskeyAddedStart, PasskeyRemovedStart
  <1>4. ASSUME NEW name \in {"known", "empty"},
               req' = [req EXCEPT ![h].pc = "mail", ![h].name = name]
        PROVE  NoticeInv'
    <2> DEFINE r == [req[h] EXCEPT !.pc = "mail", !.name = name]
    <2>1. req' = [req EXCEPT ![h] = r]
      BY <1>4
    <2>2. r \in NoticeRequests /\ r.event = req[h].event
      BY JobFacts DEF NoticeRequests
    <2> HIDE DEF r
    <2> QED BY <1>1, <1>2, <1>3, <2>1, <2>2, MoveStep
  <1>5. \A name : PasskeyName(name) \in {"known", "empty"}
    BY DEF PasskeyName
  <1>6. CASE Answer(h)
    BY <1>1, <1>2, <1>6, AnswerStep
  <1> QED BY <1>4, <1>5, <1>6 DEF PasskeyAddedStart, PasskeyRemovedStart

(* The Emails that are written, by whom *)
LEMMA SendStep ==
  ASSUME NoticeInv, NEW h \in Handlers,
         \/ SendSuspiciousLoginEmail(h)
         \/ SendPasskeyAddedEmail(h)
         \/ SendPasskeyRemovedEmail(h)
  PROVE  NoticeInv'
  <1> DEFINE e == req[h].event
             m == [event |-> e, to |-> Subject(e), name |-> req[h].name, cut |-> req[h].cut]
  <1>1. /\ req[h].pc = "mail" /\ mails' \in {mails, mails \cup {m}}
        /\ UNCHANGED <<configured, serving, client, sessions, logins, passkeys, events, userExists, activity>>
        /\ Fault \/ NoFault
        /\ missed' \in {missed, missed \cup {e}}
    BY DEF SendSuspiciousLoginEmail, SendPasskeyAddedEmail,
           SendPasskeyRemovedEmail, SendEmail, serverVars, zitadelVars
  <1>2. e.kind \in {"session", "passkeyAdded", "passkeyRemoved"}
    BY DEF SendSuspiciousLoginEmail, SendPasskeyAddedEmail,
           SendPasskeyRemovedEmail
  <1>3. Subject(e) = "user"
    BY <1>2, JobFacts, PasskeyEventFacts DEF Subject
  <1>4. m \in Mails /\ m.event = e /\ m.cut = req[h].cut
    BY <1>3, JobFacts DEF Mails, NoticeRequests
  <1>5. PICK r \in NoticeRequests :
          /\ req' = [req EXCEPT ![h] = r] /\ r.pc # "mail"
          /\ r.event = e \/ r.event.kind # "session"
    <2>1. CASE Answer(h)
      BY <2>1, NoticeData DEF Answer
    <2>2. CASE Goto(h, "record")
      <3> DEFINE r == [req[h] EXCEPT !.pc = "record"]
      <3>1. r \in NoticeRequests /\ r.pc = "record" /\ r.event = e
        BY JobFacts DEF NoticeRequests
      <3> QED BY <2>2, <3>1 DEF Goto
    <2> QED BY <2>1, <2>2 DEF SendSuspiciousLoginEmail, SendPasskeyAddedEmail,
                              SendPasskeyRemovedEmail
  <1> HIDE DEF m
  <1>6. NoticeTypeOK'
    <2>1. mails' \subseteq Mails /\ faults' \in Nat /\ missed' \subseteq Events
      BY <1>1, <1>4, JobFacts, NoticeFaultType DEF NoticeInv, NoticeTypeOK
    <2>2. req' \in [Handlers -> NoticeRequests]
      BY <1>5 DEF NoticeInv, NoticeTypeOK
    <2> QED BY <1>1, <2>1, <2>2 DEF NoticeInv, NoticeTypeOK
  <1>7. \A g \in Handlers : req'[g] = IF g = h THEN req'[h] ELSE req[g]
    BY <1>5 DEF NoticeInv, NoticeTypeOK
  <1>8. req'[h].pc # "mail" /\ (req'[h].event = e \/ req'[h].event.kind # "session")
    BY <1>5 DEF NoticeInv, NoticeTypeOK
  <1>9. Numbered'
    BY <1>1, <1>4, <1>7, <1>8 DEF NoticeInv, Numbered
  <1>10. AlarmsDue'
    BY <1>1, <1>7, <1>8 DEF NoticeInv, AlarmsDue, Vouches
  <1>11. AlarmsTrue'
    BY <1>1, <1>4 DEF NoticeInv, AlarmsDue, AlarmsTrue, Vouches
  <1> QED BY <1>6, <1>9, <1>10, <1>11 DEF NoticeInv

LEMMA RecordAndCreateStep ==
  ASSUME NoticeInv, NEW h \in Handlers,
         Record(h) \/ CreateStart(h) \/ CreateSeed(h)
  PROVE  NoticeInv'
  <1>1. UNCHANGED <<configured, serving, client, sessions, logins, passkeys, events, mails, missed>>
    BY DEF Record, CreateStart, CreateSeed, serverVars,
           zitadelVars
  <1>2. faults' \in Nat
    BY NoticeFaultType DEF NoticeInv, Record, CreateStart, CreateSeed,
                           NoFault
  <1>3. activity' \subseteq Events /\ missed' \subseteq Events
    BY <1>1, JobFacts DEF NoticeInv, NoticeTypeOK, Record, CreateStart, CreateSeed
  <1>4. userExists' \in BOOLEAN
    BY DEF NoticeInv, NoticeTypeOK, Record, CreateStart, CreateSeed
  <1>5. Answer(h) \/ Goto(h, "seed")
    BY DEF Record, CreateStart, CreateSeed
  <1> QED BY <1>1, <1>2, <1>3, <1>4, <1>5, AnswerStep, GotoStep

LEMMA NextNotice == NoticeInv /\ [NoticeNext]_noticeVars => NoticeInv'
  <1> SUFFICES ASSUME NoticeInv, [NoticeNext]_noticeVars PROVE NoticeInv'
    OBVIOUS
  <1>1. CASE UNCHANGED noticeVars
    <2>1. UNCHANGED <<configured, serving, client, sessions, logins, passkeys, userExists, events,
                      req, mails, activity, missed, faults>>
      BY <1>1 DEF noticeVars, serverVars, zitadelVars
    <2> QED BY <2>1 DEF NoticeInv, NoticeTypeOK, Numbered, AlarmsDue, AlarmsTrue, Vouches
  <1>2. CASE Start \/ Retry
    BY <1>2, ServerStep
  <1>3. ASSUME NEW device \in Devices, NEW passkey \in BOOLEAN, Login(device, passkey)
        PROVE  NoticeInv'
    BY <1>3, LoginStep
  <1>4. ASSUME NEW s \in sessions, EndSession(s) PROVE NoticeInv'
    BY <1>4, EndSessionStep
  <1>5. ASSUME NEW kind \in {"passkeyAdded", "passkeyRemoved"}, NEW named \in BOOLEAN,
               ChangePasskey(kind, named)
        PROVE  NoticeInv'
    BY <1>5, ChangePasskeyStep
  <1>6. ASSUME NEW h \in Handlers, NEW e \in events, Receive(h, e) PROVE NoticeInv'
    BY <1>6, ReceiveStep
  <1>7. ASSUME NEW h \in Handlers, Handle(h) PROVE NoticeInv'
    BY <1>7, SessionStartStep, SessionListStep, PasskeyStartStep, SendStep, RecordAndCreateStep
       DEF Handle
  <1> QED BY <1>1, <1>2, <1>3, <1>4, <1>5, <1>6, <1>7 DEF NoticeNext

LEMMA NoticeInvariant == NoticeSpec => []NoticeInv
  BY InitNotice, NextNotice, PTL DEF NoticeSpec

(* The type invariant of ActionsServer holds for any handlers, devices and bounds. *)
THEOREM NoticesTypeCorrect == NoticeSpec => []NoticeTypeOK
  <1>1. NoticeInv => NoticeTypeOK
    BY DEF NoticeInv
  <1> QED BY <1>1, NoticeInvariant, PTL

(* sessionAddedHandler: unless the listing was cut off, no Email about a suspicious login is
   sent for a login by passkey, or for one from a device that an earlier session which still
   exists came from; whatever other logins, retries and faults come in between, up to the
   Email and after it. *)
THEOREM AlarmsJustified == NoticeSpec => []NoFalseAlarm
  <1>1. NoticeInv => NoFalseAlarm
    BY DEF NoticeInv, AlarmsTrue, Vouches, NoFalseAlarm
  <1> QED BY <1>1, NoticeInvariant, PTL

-----------------------------------------------------------------------------
(* Passkey changes *)

(* Where the news of a passkey change is *)
Noticed(e) ==
    \/ e \in events \cup missed
    \/ \E h \in Handlers : req[h].pc \in {"start", "mail"} /\ req[h].event = e
    \/ \E m \in mails : m.event = e /\ m.to = "user"

Changes == {e \in Events : e.kind \in PasskeyKinds}

LEMMA AccountedNoticed ==
  ASSUME NoticeTypeOK
  PROVE  PasskeyChangeAccounted <=> \A i \in 1..passkeys : \E e \in Changes : e.id = i /\ Noticed(e)
  <1>1. events \cup missed \subseteq Events /\ mails \subseteq Mails
    BY DEF NoticeTypeOK
  <1>2. \A h \in Handlers : req[h].event \in Events
    BY DEF NoticeTypeOK, NoticeRequests
  <1>3. \A m \in mails : m.event \in Events
    BY <1>1 DEF Mails
  <1>4. ASSUME PasskeyChangeAccounted, NEW i \in 1..passkeys
        PROVE  \E e \in Changes : e.id = i /\ Noticed(e)
    <2>1. CASE \E e \in events \cup missed : e.kind \in PasskeyKinds /\ e.id = i
      BY <1>1, <2>1 DEF Changes, Noticed
    <2>2. CASE \E h \in Handlers : /\ req[h].pc \in {"start", "mail"}
                                   /\ req[h].event.kind \in PasskeyKinds /\ req[h].event.id = i
      BY <1>2, <2>2 DEF Changes, Noticed
    <2>3. CASE \E m \in mails : /\ m.event.kind \in PasskeyKinds /\ m.event.id = i
                                /\ m.to = "user"
      BY <1>3, <2>3 DEF Changes, Noticed
    <2> QED BY <1>4, <2>1, <2>2, <2>3 DEF PasskeyChangeAccounted
  <1>5. ASSUME \A i \in 1..passkeys : \E e \in Changes : e.id = i /\ Noticed(e)
        PROVE  PasskeyChangeAccounted
    BY <1>5 DEF Changes, Noticed, PasskeyChangeAccounted
  <1> QED BY <1>4, <1>5

(* The news of a change gets on as long as every step passes it on. *)
LEMMA NewsKept ==
  ASSUME NoticeTypeOK, NoticeTypeOK', PasskeyChangeAccounted, passkeys' = passkeys,
         \A e \in Changes : Noticed(e) => Noticed(e)'
  PROVE  PasskeyChangeAccounted'
  <1>1. \A i \in 1..passkeys : \E e \in Changes : e.id = i /\ Noticed(e)
    BY AccountedNoticed
  <1>2. \A i \in 1..passkeys' : \E e \in Changes : e.id = i /\ Noticed(e)'
    BY <1>1
  <1> QED BY <1>2 DEF Changes, Noticed, PasskeyChangeAccounted

(* A handler takes an event or ends with it, and nothing else moves. *)
LEMMA HandlerNews ==
  ASSUME NoticeTypeOK, NEW h \in Handlers, NEW r, req' = [req EXCEPT ![h] = r],
         events \subseteq events' \cup {r.event}, missed \subseteq missed', mails \subseteq mails',
         r.event \in events \ events' => r.pc = "start",
         NEW e, Noticed(e),
         req[h].event = e /\ req[h].pc \in {"start", "mail"} =>
            \/ r.event = e /\ r.pc \in {"start", "mail"}
            \/ e \in missed'
            \/ \E m \in mails' : m.event = e /\ m.to = "user"
  PROVE  Noticed(e)'
  <1>1. \A g \in Handlers : req'[g] = IF g = h THEN r ELSE req[g]
    BY DEF NoticeTypeOK
  <1>2. CASE e \in events
    BY <1>1, <1>2 DEF Noticed
  <1>3. CASE e \in missed
    BY <1>3 DEF Noticed
  <1>4. CASE \E m \in mails : m.event = e /\ m.to = "user"
    BY <1>4 DEF Noticed
  <1>5. CASE \E g \in Handlers : req[g].pc \in {"start", "mail"} /\ req[g].event = e
    BY <1>1, <1>5 DEF Noticed
  <1> QED BY <1>2, <1>3, <1>4, <1>5 DEF Noticed

LEMMA ReceiveNews ==
  ASSUME NoticeInv, NEW h \in Handlers, NEW f, Receive(h, f), NEW e \in Changes, Noticed(e)
  PROVE  Noticed(e)'
  <1> DEFINE r == [IdleNotice EXCEPT !.pc = "start", !.event = f]
  <1>1. /\ req[h].pc = "idle" /\ events' = events \ {f} /\ req' = [req EXCEPT ![h] = r]
        /\ UNCHANGED <<missed, mails>>
    BY DEF Receive
  <1>2. r.pc = "start" /\ r.event = f
    BY DEF IdleNotice
  <1> HIDE DEF r
  <1> QED BY <1>1, <1>2, HandlerNews DEF NoticeInv

(* The other steps of a handler: they leave the events alone. *)
LEMMA HandleNews ==
  ASSUME NoticeInv, NEW h \in Handlers, Handle(h), NEW e \in Changes, Noticed(e)
  PROVE  Noticed(e)'
  <1>1. events' = events /\ missed \subseteq missed' /\ mails \subseteq mails'
    BY DEF Handle, SessionStart, SessionList, PasskeyAddedStart, PasskeyRemovedStart,
           SendSuspiciousLoginEmail, SendPasskeyAddedEmail, SendPasskeyRemovedEmail, SendEmail,
           Record, CreateStart, CreateSeed
  <1>2. e.kind \in {"passkeyAdded", "passkeyRemoved"} /\ Subject(e) = "user"
    BY PasskeyEventFacts DEF Changes, PasskeyKinds, Subject
  <1>3. ASSUME NEW r, req' = [req EXCEPT ![h] = r],
               req[h].event = e /\ req[h].pc \in {"start", "mail"} =>
                  \/ r.event = e /\ r.pc \in {"start", "mail"}
                  \/ e \in missed'
                  \/ \E m \in mails' : m.event = e /\ m.to = "user"
        PROVE  Noticed(e)'
    BY <1>1, <1>3, HandlerNews DEF NoticeInv
  <1>4. ASSUME Answer(h) \/ Goto(h, "list") \/ Goto(h, "record") \/ Goto(h, "seed"),
               ~(req[h].event = e /\ req[h].pc \in {"start", "mail"})
        PROVE  Noticed(e)'
    BY <1>3, <1>4 DEF Answer, Goto
  <1>5. CASE SessionStart(h) \/ Record(h) \/ CreateStart(h) \/ CreateSeed(h)
    BY <1>2, <1>4, <1>5 DEF SessionStart, Record, CreateStart, CreateSeed
  <1>6. CASE SessionList(h)
    <2>1. req[h].pc = "list"
      BY <1>6 DEF SessionList
    <2>2. CASE Answer(h)
      BY <1>4, <2>1, <2>2
    <2>3. ASSUME NEW listed,
                 req' = [req EXCEPT ![h].pc = "mail", ![h].cut = (listed # sessions)]
          PROVE  Noticed(e)'
      BY <1>3, <2>1, <2>3
    <2> QED BY <1>6, <2>2, <2>3 DEF SessionList
  <1>7. CASE PasskeyAddedStart(h) \/ PasskeyRemovedStart(h)
    <2>1. ASSUME NEW name, req' = [req EXCEPT ![h].pc = "mail", ![h].name = name]
          PROVE  Noticed(e)'
      <3> DEFINE r == [req[h] EXCEPT !.pc = "mail", !.name = name]
      <3>1. r.event = req[h].event /\ r.pc = "mail"
        BY JobFacts DEF NoticeRequests
      <3>2. req' = [req EXCEPT ![h] = r]
        BY <2>1
      <3> HIDE DEF r
      <3> QED BY <1>3, <3>1, <3>2
    <2>2. CASE Answer(h) /\ missed' = missed \cup {req[h].event}
      BY <1>3, <2>2 DEF Answer
    <2> QED BY <1>7, <2>1, <2>2 DEF PasskeyAddedStart, PasskeyRemovedStart
  <1>8. CASE SendSuspiciousLoginEmail(h) \/ SendPasskeyAddedEmail(h) \/ SendPasskeyRemovedEmail(h)
    <2>1. SendEmail(h) /\ (Answer(h) \/ Goto(h, "record"))
      BY <1>8 DEF SendSuspiciousLoginEmail, SendPasskeyAddedEmail, SendPasskeyRemovedEmail
    <2>2. CASE req[h].event # e
      BY <1>4, <2>1, <2>2
    <2>3. CASE req[h].event = e
      <3> DEFINE m == [event |-> e, to |-> Subject(e), name |-> req[h].name, cut |-> req[h].cut]
      <3>1. e \in missed' \/ mails' = mails \cup {m}
        BY <1>2, <2>1, <2>3 DEF SendEmail
      <3>2. e \in missed' \/ \E n \in mails' : n.event = e /\ n.to = "user"
        <4>1. m.event = e /\ m.to = "user"
          BY <1>2
        <4> HIDE DEF m
        <4> QED BY <3>1, <4>1
      <3>3. PICK r : req' = [req EXCEPT ![h] = r]
        BY <2>1 DEF Answer, Goto
      <3> QED BY <1>3, <3>2, <3>3
    <2> QED BY <2>2, <2>3
  <1> QED BY <1>5, <1>6, <1>7, <1>8 DEF Handle

(* A change of a passkey is news. *)
LEMMA ChangeNews ==
  ASSUME NoticeInv, PasskeyChangeAccounted,
         NEW kind \in {"passkeyAdded", "passkeyRemoved"}, NEW named \in BOOLEAN,
         ChangePasskey(kind, named)
  PROVE  PasskeyChangeAccounted'
  <1> DEFINE e == [kind |-> kind, id |-> passkeys + 1, subject |-> "user",
                   creator |-> "loginClient", named |-> named]
  <1>1. /\ passkeys \in Nat /\ passkeys' = passkeys + 1 /\ events' = events \cup {e}
        /\ UNCHANGED <<req, mails, missed>>
    BY DEF ChangePasskey, NoticeInv, NoticeTypeOK
  <1>2. e.kind \in PasskeyKinds /\ e.id = passkeys + 1
    BY DEF PasskeyKinds
  <1> HIDE DEF e
  <1>3. \A i \in 1..passkeys' : i \in 1..passkeys \/ i = passkeys + 1
    BY <1>1
  <1>4. SUFFICES ASSUME NEW i \in 1..passkeys, i \in 1..passkeys'
                 PROVE  \/ \E f \in events' \cup missed' : f.kind \in PasskeyKinds /\ f.id = i
                        \/ \E h \in Handlers : /\ req'[h].pc \in {"start", "mail"}
                              /\ req'[h].event.kind \in PasskeyKinds /\ req'[h].event.id = i
                        \/ \E m \in mails' : /\ m.event.kind \in PasskeyKinds /\ m.event.id = i
                                             /\ m.to = "user"
    BY <1>1, <1>2, <1>3 DEF PasskeyChangeAccounted
  <1> QED BY <1>1 DEF PasskeyChangeAccounted

LEMMA NextNews ==
  ASSUME NoticeInv, NoticeInv', PasskeyChangeAccounted, [NoticeNext]_noticeVars
  PROVE  PasskeyChangeAccounted'
  <1>1. CASE UNCHANGED <<passkeys, events, req, mails, missed>>
    BY <1>1 DEF PasskeyChangeAccounted
  <1>2. CASE UNCHANGED noticeVars
    BY <1>1, <1>2 DEF noticeVars, zitadelVars
  <1>3. CASE Start \/ Retry \/ \E s \in sessions : EndSession(s)
    BY <1>1, <1>3 DEF Start, Retry, EndSession, zitadelVars
  <1>4. ASSUME NEW device \in Devices, NEW passkey \in BOOLEAN, Login(device, passkey)
        PROVE  PasskeyChangeAccounted'
    <2>1. UNCHANGED <<passkeys, req, mails, missed>> /\ events \subseteq events'
      BY <1>4 DEF Login
    <2> QED BY <2>1 DEF PasskeyChangeAccounted
  <1>5. ASSUME NEW h \in Handlers, (\E f \in events : Receive(h, f)) \/ Handle(h)
        PROVE  PasskeyChangeAccounted'
    <2>1. passkeys' = passkeys
      BY <1>5 DEF Receive, Handle, SessionStart, SessionList, PasskeyAddedStart,
           PasskeyRemovedStart, SendSuspiciousLoginEmail, SendPasskeyAddedEmail,
           SendPasskeyRemovedEmail, SendEmail, Record, CreateStart, CreateSeed, zitadelVars
    <2>2. \A e \in Changes : Noticed(e) => Noticed(e)'
      BY <1>5, ReceiveNews, HandleNews
    <2> QED BY <2>1, <2>2, NewsKept DEF NoticeInv
  <1> QED BY <1>2, <1>3, <1>4, <1>5, ChangeNews DEF NoticeNext

(* passkeyAddedHandler, passkeyRemovedHandler: of any number of passkey changes none is
   forgotten: the enrolled human is written to, or its event is still on its way, or one of
   the named causes stood against it. *)
THEOREM ChangesNoticed == NoticeSpec => []PasskeyChangeAccounted
  <1>1. NoticeInit => PasskeyChangeAccounted
    BY DEF NoticeInit, PasskeyChangeAccounted
  <1> QED BY <1>1, NextNews, NoticeInvariant, PTL DEF NoticeSpec

=============================================================================
