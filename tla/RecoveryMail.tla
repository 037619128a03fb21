---------------------------- MODULE RecoveryMail ----------------------------
(***************************************************************************)
(* The three paths that mail a link to one user:                           *)
(*                                                                         *)
(*   self     POST account-recovery  (internal/webhook/accountrecovery.go) *)
(*   support  PasskeyRegistrationLink Create                               *)
(*            (internal/apiserver/identity/passkeyregistrationlinks)       *)
(*   verify   POST email-verification                                      *)
(*            (internal/webhook/emailverification.go)                      *)
(*                                                                         *)
(* and the recovery budget of internal/recoverymail/cooldown.go.  Requests *)
(* are served by several handlers at a time (goroutines and replicas); the *)
(* Emails in the API server are all they share.  Time is counted in ticks. *)
(*                                                                         *)
(* The addresses the account has in Zitadel one after the other are        *)
(* numbered.  spec.email of the User is the one it was made with: nothing  *)
(* here writes it again, while status.emailVerification follows Zitadel's  *)
(* events, late or not (see UserLifecycle).                                *)
(***************************************************************************)
EXTENDS Integers, FiniteSets

CONSTANTS
    Handlers,    \* requests served at the same time
    Codes,       \* the codes callers of email-verification want mailed
    Attempts,    \* UserLookupAttempts
    Cooldown,    \* in ticks; 0 disables
    MaxPerHour,  \* 0 disables
    Window,      \* capWindow, in ticks
    MaxTime,     \* bound on the clock
    MaxRequests, \* bound on the requests and the replacements of the address together
    MaxFaults    \* bound on failed calls

ASSUME HandlersAssumption == IsFiniteSet(Handlers) /\ Handlers # {}
ASSUME SettingsAssumption ==
    Attempts \in Nat /\ Cooldown \in Nat /\ MaxPerHour \in Nat /\ Window \in Nat \ {0}
ASSUME BoundsAssumption ==
    MaxTime \in Nat /\ MaxRequests \in Nat /\ MaxFaults \in Nat

VARIABLES
    now,      \* the clock
    address,  \* the address the account has in Zitadel
    proven,   \* the addresses its user has proven
    user,     \* the User resource
    req,      \* the request each handler serves
    answer,   \* its last answer
    minted,   \* registration codes Zitadel has issued so far
    emails,   \* the Email resources
    requests, faults

account == <<address, proven, user>>
vars == <<now, address, proven, user, req, answer, minted, emails, requests, faults>>

-----------------------------------------------------------------------------
(* Data *)

Recovery == {"self", "support"}
Kinds == Recovery \cup {"verify"}
Answers == {"none", "ok", "refused", "notFound", "unverified", "tooSoon", "failed"}

\* spec is the address of spec.email, 0 when there is no User; of is 0 unless the status
\* is Verified, and then (history) the address that was Verified
Users == [spec : Nat, of : Nat]
NoUser == [spec |-> 0, of |-> 0]
IsVerified(u) == u.of # 0

\* seen is the copy of the User the request works with
Requests == [pc : {"idle", "authorize", "lookup", "budget", "mint", "create"},
             kind : Kinds, given : Codes \cup {"none"}, attempt : Nat, code : Nat,
             seen : Users]
IdleRequest == [pc |-> "idle", kind |-> "verify", given |-> "none", attempt |-> 0, code |-> 0,
                seen |-> NoUser]

\* An Email's name is a hash of the user and the code; to is its literal address, of
\* (history) the address the Verified status was about, at its creation time
Names == ({"recovery"} \X Nat) \cup ({"verify"} \X Codes)
Emails == [name : Names, kind : Kinds, code : Codes \cup Nat, to : Nat, of : Nat,
           at : Nat]

TypeOK ==
    /\ now \in Nat
    /\ address \in Nat
    /\ proven \in SUBSET Nat
    /\ user \in Users
    /\ req \in [Handlers -> Requests]
    /\ answer \in [Handlers -> Answers]
    /\ minted \in Nat
    /\ emails \in SUBSET Emails
    /\ requests \in Nat
    /\ faults \in Nat

Init ==
    /\ now = 0
    /\ address = 1
    /\ proven = {}
    /\ user = NoUser
    /\ req = [h \in Handlers |-> IdleRequest]
    /\ answer = [h \in Handlers |-> "none"]
    /\ minted = 0
    /\ emails = {}
    /\ requests = 0
    /\ faults = 0

Fault == faults < MaxFaults /\ faults' = faults + 1
NoFault == UNCHANGED faults

-----------------------------------------------------------------------------
(* The surroundings *)

Tick ==
    /\ now < MaxTime
    /\ now' = now + 1
    /\ UNCHANGED <<account, req, answer, minted, emails, requests, faults>>

\* The user has its address replaced in Zitadel, or proves the one it has.
ReplaceAddress ==
    /\ requests < MaxRequests
    /\ requests' = requests + 1
    /\ address' = address + 1
    /\ UNCHANGED <<now, proven, user, req, answer, minted, emails, faults>>

ProveAddress ==
    /\ address \notin proven
    /\ proven' = proven \cup {address}
    /\ UNCHANGED <<now, address, user, req, answer, minted, emails, requests, faults>>

\* NewUser takes the address of the moment; the User goes when it is deleted.
Provision ==
    /\ user = NoUser
    /\ user' = [spec |-> address, of |-> 0]
    /\ UNCHANGED <<now, address, proven, req, answer, minted, emails, requests, faults>>

Deprovision ==
    /\ user # NoUser
    /\ user' = NoUser
    /\ UNCHANGED <<now, address, proven, req, answer, minted, emails, requests, faults>>

\* emailverified.Set, for an event or a row that may be late: what it says of address a
\* is written when the status says otherwise; a = 0: that the address is not proven.
SetVerification(a) ==
    /\ user # NoUser
    /\ IsVerified(user) <=> a = 0
    /\ user' = [user EXCEPT !.of = a]
    /\ UNCHANGED <<now, address, proven, req, answer, minted, emails, requests, faults>>

-----------------------------------------------------------------------------
(* The handlers *)

Step(h, pc) == req' = [req EXCEPT ![h].pc = pc] /\ UNCHANGED answer
Answer(h, a) ==
    /\ req' = [req EXCEPT ![h].pc = "idle", ![h].attempt = 0, ![h].seen = NoUser]
    /\ answer' = [answer EXCEPT ![h] = a]

\* A request comes in; one that is not acceptable is refused and leaves no trace.
Arrive(h, kind, given, acceptable) ==
    /\ req[h].pc = "idle"
    /\ requests < MaxRequests
    /\ requests' = requests + 1
    /\ \/ /\ acceptable
          /\ req' = [req EXCEPT ![h] =
                [pc |-> IF kind = "support" THEN "authorize" ELSE "lookup",
                 kind |-> kind, given |-> given, attempt |-> 1, code |-> 0, seen |-> NoUser]]
          /\ answer' = [answer EXCEPT ![h] = "none"]
       \/ ~acceptable /\ Answer(h, "refused")
    /\ UNCHANGED <<now, account, minted, emails, faults>>

\* Refused: a wrong method, a client certificate that is not on the list, a malformed
\* or incomplete body, a code of the caller's own, a requestedBy other than "self", a
\* returnTo outside the allowed origins.
PostAccountRecovery(h, acceptable) == Arrive(h, "self", "none", acceptable)
\* Refused: a wrong object, the feature disabled, no caller, no target or reason, a
\* requestedBy that is not the caller.
CreateRegistrationLink(h, acceptable) == Arrive(h, "support", "none", acceptable)
\* Refused: the same checks of method, certificate, body and returnTo; a code is required.
PostEmailVerification(h, given, acceptable) == Arrive(h, "verify", given, acceptable)

\* CanCreatePasskeyRegistrationLink: a SubjectAccessReview
Authorize(h) ==
    /\ req[h].pc = "authorize"
    /\ \/ Step(h, "lookup") /\ NoFault
       \/ Answer(h, "refused") /\ NoFault
       \/ Answer(h, "failed") /\ Fault
    /\ UNCHANGED <<now, account, minted, emails, requests>>

\* userWithRetry makes at least one attempt; the support path makes only one
LastAttempt(r) == r.kind = "support" \/ r.attempt >= Attempts
\* The loop forgets to count
NextAttempt_Same(r) == r.attempt
NextAttempt(r) == r.attempt + 1

\* emailverified.IsVerified is not asked
Mailable_Anyone(kind) == TRUE
\* The recovery paths mail only a proven address; verification is what proves it
Mailable(kind) == kind \in Recovery => IsVerified(user)

\* Get the User
Lookup(h) ==
    /\ req[h].pc = "lookup"
    /\ \/ /\ user = NoUser /\ ~LastAttempt(req[h])
          /\ req' = [req EXCEPT ![h].attempt = NextAttempt(req[h])]
          /\ UNCHANGED answer
          /\ NoFault
       \/ user = NoUser /\ LastAttempt(req[h]) /\ Answer(h, "notFound") /\ NoFault
       \/ /\ user # NoUser
          /\ IF Mailable(req[h].kind)
               THEN /\ req' = [req EXCEPT
                         ![h].pc = IF req[h].kind \in Recovery THEN "budget" ELSE "create",
                         ![h].seen = user]
                    /\ UNCHANGED answer
               ELSE Answer(h, "unverified")
          /\ NoFault
       \/ Answer(h, "failed") /\ Fault
    /\ UNCHANGED <<now, account, minted, emails, requests>>

\* TooSoon, from the Emails of this user and this trigger
Sent(kind) == {e \in emails : e.kind = kind}
InWindow(kind) == {e \in Sent(kind) : now - e.at < Window}
\* The mail that fills the cap is allowed once more
TooSoon_OffByOne(kind) ==
    \/ Cooldown > 0 /\ \E e \in Sent(kind) : now - e.at < Cooldown
    \/ MaxPerHour > 0 /\ Cardinality(InWindow(kind)) > MaxPerHour
TooSoon(kind) ==
    \/ Cooldown > 0 /\ \E e \in Sent(kind) : now - e.at < Cooldown
    \/ MaxPerHour > 0 /\ Cardinality(InWindow(kind)) >= MaxPerHour

\* An unreadable list of Emails fails closed.
CheckBudget(h) ==
    /\ req[h].pc = "budget"
    /\ \/ TooSoon(req[h].kind) /\ Answer(h, "tooSoon") /\ NoFault
       \/ ~TooSoon(req[h].kind) /\ Step(h, "mint") /\ NoFault
       \/ Answer(h, "failed") /\ Fault
    /\ UNCHANGED <<now, account, minted, emails, requests>>

\* CreatePasskeyRegistrationLink: Zitadel issues a code of its own
Mint(h) ==
    /\ req[h].pc = "mint"
    /\ \/ /\ minted' = minted + 1
          /\ req' = [req EXCEPT ![h].pc = "create", ![h].code = minted + 1]
          /\ UNCHANGED answer
          /\ NoFault
       \/ minted' \in {minted, minted + 1} /\ Answer(h, "failed") /\ Fault
    /\ UNCHANGED <<now, account, emails, requests>>

\* The name of a verification mail depends on when it was asked for
EmailName_Timed(r) == IF r.kind \in Recovery THEN <<"recovery", r.code>> ELSE <<"verify", now>>
EmailName(r) == IF r.kind \in Recovery THEN <<"recovery", r.code>> ELSE <<"verify", r.given>>
Email(r) == [name |-> EmailName(r), kind |-> r.kind,
             code |-> IF r.kind \in Recovery THEN r.code ELSE r.given,
             to |-> r.seen.spec, of |-> r.seen.of, at |-> now]
AlreadyExists(r) == \E e \in emails : e.name = EmailName(r)

\* A rejected create is reported as a success too
FailedAnswer_Ok == "ok"
FailedAnswer == "failed"

\* Create the Email.  AlreadyExists is success; a call that fails may have taken effect.
CreateEmail(h, kind) ==
    /\ req[h].pc = "create"
    /\ req[h].kind = kind
    /\ LET r == req[h]
           created == IF AlreadyExists(r) THEN emails ELSE emails \cup {Email(r)} IN
       \/ emails' = created /\ Answer(h, "ok") /\ NoFault
       \/ emails' \in {emails, created} /\ Answer(h, FailedAnswer) /\ Fault
    /\ UNCHANGED <<now, account, minted, requests>>

CreateRecoveryEmail(h) == CreateEmail(h, "self")
CreateLinkEmail(h) == CreateEmail(h, "support")
CreateVerificationEmail(h) == CreateEmail(h, "verify")

Serve(h) ==
    \/ Authorize(h)
    \/ Lookup(h)
    \/ CheckBudget(h)
    \/ Mint(h)
    \/ CreateRecoveryEmail(h)
    \/ CreateLinkEmail(h)
    \/ CreateVerificationEmail(h)

Next ==
    \/ Tick
    \/ ReplaceAddress
    \/ ProveAddress
    \/ Provision
    \/ Deprovision
    \/ \E a \in proven \cup {0} : SetVerification(a)
    \/ \E h \in Handlers :
         \/ \E acceptable \in BOOLEAN :
               \/ PostAccountRecovery(h, acceptable)
               \/ CreateRegistrationLink(h, acceptable)
               \/ \E given \in Codes : PostEmailVerification(h, given, acceptable)
         \/ Serve(h)

Spec == Init /\ [][Next]_vars
\* The server runs the handler of every request it accepted.
FairSpec == Spec /\ \A h \in Handlers : WF_vars(Serve(h))

-----------------------------------------------------------------------------
(* Properties *)

\* The per-user budget, as far as it holds.  TooSoon looks at the Emails two calls
\* before the new one is created, so requests that overlap can overrun it, but only by
\* the handlers that were past the check at the same time: a cooldown sees at most one
\* mail of each, and a window at most the cap and one of each of the others.
OverrunBounded ==
    \A kind \in Recovery :
        /\ Cardinality({e \in Sent(kind) : now - e.at < Cooldown}) <= Cardinality(Handlers)
        /\ MaxPerHour > 0 =>
             Cardinality(InWindow(kind)) <= MaxPerHour + Cardinality(Handlers) - 1

\* emailverification.go: "a retried POST addresses the same object": however often
\* and however concurrently a verification is asked for, its code is mailed once; and
\* a minted registration code is in one mail.
OneMailPerCode ==
    \A e, f \in emails : e.kind = f.kind /\ e.code = f.code => e = f

\* A handler that answers 200 has the mail in the API server: for recovery a mail of
\* its own, for verification the mail of that code.
SuccessMeansMailed ==
    \A h \in Handlers : answer[h] = "ok" => \E e \in emails : e.name = EmailName(req[h])

\* Recovery rests on a proof: no code is minted before an address of the account was
\* proven, and a mail is created only by a request that read, with the address it mails,
\* a Verified status that was true of a proven address; the two are one address unless
\* the account's was replaced in the meantime, also during the request (IsVerified, Build).
NothingForUnproven ==
    /\ minted > 0 => proven # {}
    /\ \A e \in emails : e.kind \in Recovery =>
          e.of \in proven /\ (e.to = e.of \/ address > 1)

\* A caller that waits for a response gets one: the wait for the User is bounded.
EveryRequestAnswered ==
    \A h \in Handlers : req[h].pc # "idle" ~> req[h].pc = "idle"

=============================================================================
