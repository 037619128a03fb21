--------------------------- MODULE ActionsServer ---------------------------
(***************************************************************************)
(* The actions server (internal/httpactionsserver), a sidecar of Zitadel:  *)
(* how it comes up without a reachable Zitadel (cmd/actionsserver), and    *)
(* its notification handlers session-added, passkey-added and              *)
(* passkey-removed, with the acknowledgement of create-user-account.  What *)
(* the last one writes to the User is in UserLifecycle, the avatars are in *)
(* AvatarSync.                                                             *)
(*                                                                         *)
(* One user.  Handlers run concurrently, one remote call at a time, and    *)
(* Zitadel delivers its events late and in any order.                      *)
(***************************************************************************)
EXTENDS Naturals, FiniteSets, ServerRequests

CONSTANTS
    Devices,      \* what a login may come from, see Device
    Templates,    \* kinds of events for which an email template is configured
    QueryLimit,   \* rows Zitadel returns of a query without a limit
    MaxNotices    \* bound on the logins and the changes of passkeys together

\* "" stands for a value the event or the session does not carry.  A user agent is
\* its browser and device family and the browser's version; the family of a client
\* that is not recognised is "unknown".
Device == [ip : STRING, ua : [family : STRING, version : Nat], fp : STRING]

ASSUME DevicesAssumption == Devices \subseteq Device
ASSUME ConfigAssumption == QueryLimit \in Nat \ {0}
ASSUME NoticeBoundsAssumption == MaxNotices \in Nat /\ MaxFaults \in Nat

VARIABLES
    configured, \* issuer, API domain and key path are given
    serving,   \* the HTTP server listens, and so the pod is Ready
    client,    \* Server.zitadelClient
    sessions,  \* live sessions in Zitadel
    logins,    \* number of logins so far
    passkeys,  \* number of enrolments so far
    userExists, \* the User resource exists
    events,    \* events Zitadel has yet to deliver
    mails,     \* the Email resources
    activity,  \* the recorded user Events
    missed     \* history: events nobody was told of because a call failed, or there was
               \* no User, no template, or no client to ask for the passkey's name

serverVars == <<configured, serving, client>>
zitadelVars == <<sessions, logins, passkeys>>
noticeVars == <<serverVars, zitadelVars, userExists, events, req, mails, activity, missed, faults>>

-----------------------------------------------------------------------------
(* Data *)

\* typedNil: NewSDK failed, and its nil *SDKClient was stored as a zitadel.API,
\* which is then an interface that is not nil
Clients == {"unset", "nil", "typedNil", "ready"}

Sessions == [id : Nat, device : Devices, passkey : BOOLEAN]

\* Events.  creator is who made the call: the login client, for a passkey; named:
\* auth-ui has stored the passkey's name in the user's metadata.
SessionEvents == [kind : {"session"}, id : Nat, device : Devices]
PasskeyEvents == [kind : {"passkeyAdded", "passkeyRemoved"}, id : Nat,
                  subject : {"user"}, creator : {"loginClient"}, named : BOOLEAN]
CreateEvents == [kind : {"create"}, id : {0}]
Events == SessionEvents \cup PasskeyEvents \cup CreateEvents

\* name is the PasskeyName of the mail: known, empty, or not a variable of the mail; cut is
\* history: the alarm was decided on a listing that was cut off
Mails == [event : Events, to : {"user", "loginClient"}, name : {"known", "empty", "omitted"},
          cut : BOOLEAN]

NoEvent == [kind |-> "create", id |-> 0]
NoticeRequests == [pc : {"idle", "start", "list", "mail", "record", "seed"},
                   event : Events, name : {"known", "empty", "omitted"}, cut : BOOLEAN]
IdleNotice == [pc |-> "idle", event |-> NoEvent, name |-> "omitted", cut |-> FALSE]

NoticeTypeOK ==
    /\ configured \in BOOLEAN
    /\ serving \in BOOLEAN
    /\ client \in Clients
    /\ sessions \subseteq Sessions
    /\ logins \in Nat
    /\ passkeys \in Nat
    /\ userExists \in BOOLEAN
    /\ events \subseteq Events
    /\ req \in [Handlers -> NoticeRequests]
    /\ mails \subseteq Mails
    /\ activity \subseteq Events
    /\ missed \subseteq Events
    /\ faults \in Nat

NoticeInit ==
    /\ configured \in BOOLEAN
    /\ serving = FALSE
    /\ client = "unset"
    /\ sessions = {}
    /\ logins = 0
    /\ passkeys = 0
    /\ userExists \in BOOLEAN
    /\ events = {NoEvent}
    /\ req = [h \in Handlers |-> IdleNotice]
    /\ mails = {}
    /\ activity = {}
    /\ missed = {}
    /\ faults = 0

-----------------------------------------------------------------------------
(* Start of the server *)

\* Only a pod that is Ready gets traffic, and Zitadel is in this pod.
Reachable == serving

CreateZitadelClient ==
    IF ~configured THEN "nil" ELSE IF Reachable THEN "ready" ELSE "typedNil"

\* The command fails when the client cannot be made
StartsServing_Strict(c) == c # "typedNil"
\* "This is intentionally non-fatal"
StartsServing(c) == TRUE

Start ==
    /\ ~serving
    /\ client' = CreateZitadelClient
    /\ serving' = StartsServing(client')
    /\ UNCHANGED <<configured, zitadelVars, userExists, events, req, mails, activity, missed, faults>>

\* retryZitadelClient, until it succeeds
Retry ==
    /\ serving
    /\ client = "typedNil"
    /\ \/ client' = CreateZitadelClient /\ NoFault
       \/ UNCHANGED client /\ Fault
    /\ UNCHANGED <<configured, serving, zitadelVars, userExists, events, req, mails, activity, missed>>

-----------------------------------------------------------------------------
(* Zitadel and its user (outside this code) *)

Login(device, passkey) ==
    /\ logins + passkeys < MaxNotices
    /\ logins' = logins + 1
    /\ sessions' = sessions \cup {[id |-> logins + 1, device |-> device, passkey |-> passkey]}
    /\ events' = events \cup {[kind |-> "session", id |-> logins + 1, device |-> device]}
    /\ UNCHANGED <<serverVars, passkeys, userExists, req, mails, activity, missed, faults>>

\* The user signs out, or the session is revoked or expires.
EndSession(s) ==
    /\ sessions' = sessions \ {s}
    /\ UNCHANGED <<serverVars, logins, passkeys, userExists, events, req, mails, activity, missed, faults>>

\* A passkey is enrolled, and later removed, when auth-ui may have stored its name.
ChangePasskey(kind, named) ==
    /\ named => kind = "passkeyRemoved"
    /\ logins + passkeys < MaxNotices
    /\ passkeys' = passkeys + 1
    /\ events' = events \cup {[kind |-> kind, id |-> passkeys + 1, subject |-> "user",
                               creator |-> "loginClient", named |-> named]}
    /\ UNCHANGED <<serverVars, sessions, logins, userExists, req, mails, activity, missed, faults>>

-----------------------------------------------------------------------------
(* Handlers *)

Goto(h, pc) == req' = [req EXCEPT ![h].pc = pc]
\* The response, whatever its status, or the end of a connection whose handler panicked
Answer(h) == req' = [req EXCEPT ![h] = IdleNotice]

\* Signature, body and event type have been checked: another request is refused
\* and changes nothing.
Receive(h, e) ==
    /\ serving
    /\ req[h].pc = "idle"
    /\ e \in events
    /\ events' = events \ {e}
    /\ req' = [req EXCEPT ![h] = [IdleNotice EXCEPT !.pc = "start", !.event = e]]
    /\ UNCHANGED <<serverVars, zitadelVars, userExists, mails, activity, missed, faults>>

\* sessionAddedHandler: zitadelAPI() and the call that follows.  A method of a nil
\* *SDKClient panics, and net/http drops the connection.
SessionStart(h) ==
    /\ req[h].pc = "start"
    /\ req[h].event.kind = "session"
    /\ IF client = "ready" THEN Goto(h, "list") ELSE Answer(h)
    /\ UNCHANGED <<serverVars, zitadelVars, userExists, events, mails, activity, missed, faults>>

\* The raw string, version and all
UserAgentKey_Raw(ua) == ua
\* Browser and device family; the raw string when neither is recognised
UserAgentKey(ua) == IF ua.family = "unknown" THEN ua ELSE [family |-> ua.family, version |-> 0]
HasAgent(ua) == ua.family # ""

IpSeen(d, previous) == \E s \in previous : s.device.ip = d.ip
UserAgentSeen(d, previous) ==
    \E s \in previous :
        HasAgent(s.device.ua) /\ UserAgentKey(s.device.ua) = UserAgentKey(d.ua)
FingerprintSeen(d, previous) == \E s \in previous : s.device.fp = d.fp

IsSuspiciousLogin(d, previous) ==
    \/ d.ip # "" /\ ~IpSeen(d, previous)
    \/ HasAgent(d.ua) /\ ~UserAgentSeen(d, previous)
    \/ d.fp # "" /\ ~FingerprintSeen(d, previous)

\* findSessionByID: a session that has ended is not in the list, and one that the list
\* was cut off before is not either.
Exempt(e, listed) == \E s \in listed : s.id = e.id /\ s.passkey
GetPreviousSessions(e, listed) == {s \in listed : s.id # e.id}

\* Of a query without a limit Zitadel returns the first rows only.
FirstRows(rows) == {p \in SUBSET rows : Cardinality(p) = IF Cardinality(rows) < QueryLimit
                                                         THEN Cardinality(rows) ELSE QueryLimit}

\* ListSessions, and the decision
SessionList(h) ==
    /\ req[h].pc = "list"
    /\ \/ \E listed \in FirstRows(sessions) :
            LET e == req[h].event
                previous == GetPreviousSessions(e, listed)
                suspicious == /\ ~Exempt(e, listed)
                              /\ previous # {}
                              /\ IsSuspiciousLogin(e.device, previous) IN
            /\ \/ /\ suspicious
                  /\ req' = [req EXCEPT ![h].pc = "mail", ![h].cut = (listed # sessions)]
               \/ ~suspicious /\ Answer(h)
            /\ NoFault
       \/ Answer(h) /\ Fault
    /\ UNCHANGED <<serverVars, zitadelVars, userExists, events, mails, activity, missed>>

\* passkeyAddedHandler: the name is in the event
PasskeyAddedStart(h) ==
    /\ req[h].pc = "start"
    /\ req[h].event.kind = "passkeyAdded"
    /\ req' = [req EXCEPT ![h].pc = "mail", ![h].name = "known"]
    /\ UNCHANGED <<serverVars, zitadelVars, userExists, events, mails, activity, missed, faults>>

PasskeyName(name) == IF name = "known" THEN "known" ELSE "empty"

\* passkeyRemovedHandler: passkeyNameFromMetadata, "" whenever it fails
PasskeyRemovedStart(h) ==
    /\ req[h].pc = "start"
    /\ req[h].event.kind = "passkeyRemoved"
    /\ LET found(name) == /\ req' = [req EXCEPT ![h].pc = "mail", ![h].name = PasskeyName(name)]
                          /\ UNCHANGED missed IN
       \/ client = "nil" /\ found("none") /\ NoFault
       \/ client = "typedNil" /\ Answer(h) /\ missed' = missed \cup {req[h].event} /\ NoFault
       \/ client = "ready" /\ found(IF req[h].event.named THEN "known" ELSE "none") /\ NoFault
       \/ client = "ready" /\ found("none") /\ Fault
    /\ UNCHANGED <<serverVars, zitadelVars, userExists, events, mails, activity>>

\* The user who made the call
Subject_Creator(e) == IF e.kind = "session" THEN "user" ELSE e.creator
\* AggregateID, or the payload's user of a session
Subject(e) == IF e.kind = "session" THEN "user" ELSE e.subject

\* If there is a template, get the User and create an Email under a new name.  Failures
\* are logged only.
SendEmail(h) ==
    LET e == req[h].event
        m == [event |-> e, to |-> Subject(e), name |-> req[h].name, cut |-> req[h].cut]
        found == userExists /\ Subject(e) = "user" IN
    /\ req[h].pc = "mail"
    /\ \/ /\ e.kind \in Templates /\ found
          /\ mails' = mails \cup {m}
          /\ UNCHANGED missed
          /\ NoFault \/ Fault
       \/ /\ e.kind \in Templates => ~found
          /\ missed' = IF e.kind \in Templates /\ userExists THEN missed ELSE missed \cup {e}
          /\ UNCHANGED mails
          /\ NoFault
       \/ /\ e.kind \in Templates
          /\ missed' = missed \cup {e}
          /\ UNCHANGED mails
          /\ Fault
    /\ UNCHANGED <<serverVars, zitadelVars, userExists, events, activity>>

SendSuspiciousLoginEmail(h) ==
    req[h].event.kind = "session" /\ SendEmail(h) /\ Answer(h)
SendPasskeyAddedEmail(h) ==
    req[h].event.kind = "passkeyAdded" /\ SendEmail(h) /\ Goto(h, "record")
SendPasskeyRemovedEmail(h) ==
    req[h].event.kind = "passkeyRemoved" /\ SendEmail(h) /\ Goto(h, "record")

\* recordUserEvent: recorded by name even if there is no User; best effort
Record(h) ==
    /\ req[h].pc = "record"
    /\ \/ activity' = activity \cup {req[h].event} /\ NoFault
       \/ UNCHANGED activity /\ Fault
    /\ Answer(h)
    /\ UNCHANGED <<serverVars, zitadelVars, userExists, events, mails, missed>>

\* createUserAccountHandler: EnsureUser and the signup's activity ...
CreateStart(h) ==
    /\ req[h].pc = "start"
    /\ req[h].event.kind = "create"
    /\ \/ /\ ~userExists
          /\ userExists' = TRUE
          /\ activity' = activity \cup {req[h].event}
          /\ Goto(h, "seed")
          /\ NoFault
       \/ userExists /\ Answer(h) /\ UNCHANGED <<userExists, activity>> /\ NoFault
       \/ Answer(h) /\ UNCHANGED <<userExists, activity>> /\ Fault
    /\ UNCHANGED <<serverVars, zitadelVars, events, mails, missed>>

\* ... then the initial EmailVerification, best effort, if there is a client; one that
\* is a nil *SDKClient panics here, after the User was created.
CreateSeed(h) ==
    /\ req[h].pc = "seed"
    /\ Answer(h)
    /\ UNCHANGED <<serverVars, zitadelVars, userExists, events, mails, activity, missed, faults>>

Handle(h) ==
    \/ SessionStart(h)
    \/ SessionList(h)
    \/ PasskeyAddedStart(h)
    \/ PasskeyRemovedStart(h)
    \/ SendSuspiciousLoginEmail(h)
    \/ SendPasskeyAddedEmail(h)
    \/ SendPasskeyRemovedEmail(h)
    \/ Record(h)
    \/ CreateStart(h)
    \/ CreateSeed(h)

NoticeNext ==
    \/ Start
    \/ Retry
    \/ \E device \in Devices, passkey \in BOOLEAN : Login(device, passkey)
    \/ \E s \in sessions : EndSession(s)
    \/ \E kind \in {"passkeyAdded", "passkeyRemoved"}, named \in BOOLEAN :
          ChangePasskey(kind, named)
    \/ \E h \in Handlers : (\E e \in events : Receive(h, e)) \/ Handle(h)

NoticeSpec == NoticeInit /\ [][NoticeNext]_noticeVars
\* The kubelet starts the container again when it exits, and the retry loop runs until
\* it succeeds.
Fairness == WF_noticeVars(Start) /\ WF_noticeVars(Retry)
FairSpec == NoticeSpec /\ Fairness

-----------------------------------------------------------------------------
(* Properties *)

\* "a browser update is not mistaken for a new browser": a login raises no alarm
\* while an older session of the same address, fingerprint and browser family is
\* alive, whenever the event is handled (isSuspiciousLogin, userAgentKey).  Passkey
\* sessions "do not trigger the suspicious sign-in email" either
\* (passkey-authentication.md), unless they ended before the event was handled, when
\* nobody can tell any more.  A user with more sessions than Zitadel lists is excepted:
\* ListSessions sets no limit, and what was cut off may be the session that vouches.
SameDevice(d, e) == /\ d.ip = e.ip /\ d.fp = e.fp
                    /\ d.ua.family = e.ua.family
                    /\ d.ua.family = "unknown" => d.ua = e.ua
NoFalseAlarm ==
    \A m \in mails : m.event.kind = "session" /\ ~m.cut =>
        ~\E s \in sessions :
            \/ s.id < m.event.id /\ SameDevice(s.device, m.event.device)
            \/ s.id = m.event.id /\ s.passkey

\* No passkey change goes unnoticed: until the enrolled human, not the service user that
\* made the call for them (passkeyAddedRequest: "creator vs subject"), is written to, its
\* event is on the way or with a handler that will write, and it ends otherwise only if a
\* call failed or the server lacked the User, the template or its client
\* (passkeyAddedHandler, passkeyRemovedHandler).
PasskeyKinds == {"passkeyAdded", "passkeyRemoved"}
PasskeyChangeAccounted ==
    \A i \in 1..passkeys :
        LET about(e) == e.kind \in PasskeyKinds /\ e.id = i IN
        \/ \E e \in events \cup missed : about(e)
        \/ \E h \in Handlers : req[h].pc \in {"start", "mail"} /\ about(req[h].event)
        \/ \E m \in mails : about(m.event) /\ m.to = "user"

\* "blocking startup on reaching Zitadel deadlocks the pod": the server comes up and
\* gets its client although Zitadel is reachable only once it is up.
ServerComesUp == <>[](serving /\ client = (IF configured THEN "ready" ELSE "nil"))

=============================================================================
