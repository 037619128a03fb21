------------------------ MODULE RecoveryMailProofs -------------------------
(***************************************************************************)
(* Proofs about RecoveryMail, for any number of handlers, requests and     *)
(* failures, and any setting of the budget.                                *)
(***************************************************************************)
EXTENDS RecoveryMail, FiniteSetTheorems, TLAPS

-----------------------------------------------------------------------------
(* The inductive invariant *)

(* A verification that is served has the code it was asked to mail. *)
Given ==
    \A h \in Handlers : req[h].pc # "idle" /\ req[h].kind = "verify" => req[h].given \in Codes

(* A request that is served has no answer yet. *)
Unanswered == \A h \in Handlers : req[h].pc # "idle" => answer[h] = "none"

(* An Email is found by the name of its code, and a name is taken once. *)
NamedByCode ==
    /\ \A e \in emails : e.name = <<IF e.kind \in Recovery THEN "recovery" ELSE "verify", e.code>>
    /\ \A e, f \in emails : e.name = f.name => e = f

(* A copy of the User whose Verified status was true of a proven address of the account *)
Backed(u) == u.of \in proven /\ u.spec \in 1..address

(* A recovery past the lookup has seen such a copy, and an Email was made from one. *)
Proven ==
    /\ address \in Nat \ {0} /\ proven \subseteq 1..address
    /\ user # NoUser => user.spec \in 1..address
    /\ IsVerified(user) => user # NoUser /\ user.of \in proven
    /\ \A h \in Handlers :
         /\ req[h].pc \in {"budget", "mint"} => req[h].kind \in Recovery
         /\ req[h].pc \in {"budget", "mint", "create"} /\ req[h].kind \in Recovery
              => Backed(req[h].seen)
    /\ \A e \in emails : e.kind \in Recovery => e.of \in proven /\ e.to \in 1..address
    /\ minted > 0 => proven # {}

(* The handlers that are past TooSoon and have not created their mail yet count
   against the budget as their mails do. *)
Engaged(kind) == {h \in Handlers : req[h].kind = kind /\ req[h].pc \in {"mint", "create"}}
Recent(kind) == {e \in Sent(kind) : now - e.at < Cooldown}
Budget ==
    \A kind \in Recovery :
        /\ Cardinality(Recent(kind)) + Cardinality(Engaged(kind)) <= Cardinality(Handlers)
        /\ MaxPerHour > 0 =>
             Cardinality(InWindow(kind)) + Cardinality(Engaged(kind))
                <= MaxPerHour + Cardinality(Handlers) - 1
Finite == IsFiniteSet(emails) /\ \A e \in emails : e.at <= now

MailInv ==
    /\ TypeOK
    /\ Given /\ Unanswered /\ NamedByCode /\ Proven
    /\ Finite /\ Budget
    /\ SuccessMeansMailed

LEMMA NoUserType == NoUser \in Users
  BY DEF NoUser, Users

LEMMA HandlersCount == IsFiniteSet(Handlers) /\ Cardinality(Handlers) \in Nat \ {0}
  BY HandlersAssumption, FS_CardinalityType, FS_EmptySet

LEMMA Counts ==
  ASSUME Finite, NEW kind
  PROVE  /\ Recent(kind) \subseteq emails /\ InWindow(kind) \subseteq emails
         /\ IsFiniteSet(Recent(kind)) /\ IsFiniteSet(InWindow(kind)) /\ IsFiniteSet(Engaged(kind))
         /\ Cardinality(Recent(kind)) \in Nat /\ Cardinality(InWindow(kind)) \in Nat
         /\ Cardinality(Engaged(kind)) \in Nat
         /\ Cardinality(Engaged(kind)) <= Cardinality(Handlers)
  <1>1. Recent(kind) \subseteq emails /\ InWindow(kind) \subseteq emails
        /\ Engaged(kind) \subseteq Handlers
    BY DEF Recent, InWindow, Sent, Engaged
  <1>2. IsFiniteSet(Recent(kind)) /\ IsFiniteSet(InWindow(kind))
    BY <1>1, FS_Subset DEF Finite
  <1>3. IsFiniteSet(Engaged(kind)) /\ Cardinality(Engaged(kind)) <= Cardinality(Handlers)
    BY <1>1, HandlersCount, FS_Subset
  <1> QED BY <1>1, <1>2, <1>3, FS_CardinalityType

LEMMA InitMailInv == Init => MailInv
  <1> SUFFICES ASSUME Init PROVE MailInv
    OBVIOUS
  <1>1. IdleRequest \in Requests
    BY DEF IdleRequest, Requests, Kinds, Recovery, Users, NoUser
  <1>2. TypeOK
    BY <1>1, NoUserType DEF Init, TypeOK, Answers
  <1>3. Given /\ Unanswered /\ NamedByCode /\ Proven /\ SuccessMeansMailed
    BY DEF Init, IdleRequest, Given, Unanswered, NamedByCode, Proven, SuccessMeansMailed,
           IsVerified, NoUser
  <1>4. Finite
    BY FS_EmptySet DEF Init, Finite
  <1>5. \A kind : Recent(kind) = {} /\ InWindow(kind) = {} /\ Engaged(kind) = {}
    BY DEF Init, Recent, InWindow, Sent, Engaged, IdleRequest
  <1>6. Budget
    BY <1>5, FS_EmptySet, HandlersCount, SettingsAssumption DEF Budget
  <1> QED BY <1>2, <1>3, <1>4, <1>6 DEF MailInv

-----------------------------------------------------------------------------
(* The budget *)

(* Steps after which no mail counts that did not, and nobody is past the check who
   was not *)
LEMMA BudgetKept ==
  ASSUME Finite, Budget,
         \A kind \in Recovery : /\ Recent(kind)' \subseteq Recent(kind)
                                /\ InWindow(kind)' \subseteq InWindow(kind)
                                /\ Engaged(kind)' \subseteq Engaged(kind)
  PROVE  Budget'
  <1> SUFFICES ASSUME NEW kind \in Recovery
               PROVE  /\ Cardinality(Recent(kind)') + Cardinality(Engaged(kind)')
                           <= Cardinality(Handlers)
                      /\ MaxPerHour > 0 =>
                           Cardinality(InWindow(kind)') + Cardinality(Engaged(kind)')
                             <= MaxPerHour + Cardinality(Handlers) - 1
    BY DEF Budget
  <1>1. /\ Cardinality(Recent(kind)') <= Cardinality(Recent(kind))
        /\ Cardinality(InWindow(kind)') <= Cardinality(InWindow(kind))
        /\ Cardinality(Engaged(kind)') <= Cardinality(Engaged(kind))
        /\ IsFiniteSet(Recent(kind)') /\ IsFiniteSet(InWindow(kind)') /\ IsFiniteSet(Engaged(kind)')
    BY Counts, FS_Subset
  <1>2. /\ Cardinality(Recent(kind)') \in Nat /\ Cardinality(InWindow(kind)') \in Nat
        /\ Cardinality(Engaged(kind)') \in Nat
    BY <1>1, FS_CardinalityType
  <1> QED BY <1>1, <1>2, Counts, HandlersCount, SettingsAssumption DEF Budget
(* A handler passes TooSoon: no mail counts for the cooldown, and the window is not full,
   however many handlers passed before it. *)
LEMMA BudgetChecked ==
  ASSUME TypeOK, Finite, Budget, NEW h \in Handlers,
         ~TooSoon(req[h].kind), req[h].kind \in Recovery,
         req' = [req EXCEPT ![h].pc = "mint"],
         UNCHANGED <<now, emails>>
  PROVE  Budget'
  <1> SUFFICES ASSUME NEW kind \in Recovery
               PROVE  /\ Cardinality(Recent(kind)') + Cardinality(Engaged(kind)')
                           <= Cardinality(Handlers)
                      /\ MaxPerHour > 0 =>
                           Cardinality(InWindow(kind)') + Cardinality(Engaged(kind)')
                             <= MaxPerHour + Cardinality(Handlers) - 1
    BY DEF Budget
  <1>1. Recent(kind)' = Recent(kind) /\ InWindow(kind)' = InWindow(kind)
    BY DEF Recent, InWindow, Sent
  <1>2. req \in [Handlers -> Requests]
    BY DEF TypeOK
  <1>3. CASE kind = req[h].kind
    <2>1. Recent(kind) = {}
      <3>1. CASE Cooldown > 0
        BY <1>3, <3>1 DEF TooSoon, Recent
      <3>2. CASE Cooldown = 0
        <4>1. \A e \in emails : ~(now - e.at < 0)
          BY DEF Finite, TypeOK, Emails
        <4> QED BY <3>2, <4>1 DEF Recent, Sent
      <3> QED BY <3>1, <3>2, SettingsAssumption
    <2>2. MaxPerHour > 0 => Cardinality(InWindow(kind)) < MaxPerHour
      BY <1>3, Counts, SettingsAssumption DEF TooSoon
    <2>3. IsFiniteSet(Engaged(kind)') /\ Cardinality(Engaged(kind)') <= Cardinality(Handlers)
      <3>1. Engaged(kind)' \subseteq Handlers
        BY DEF Engaged
      <3> QED BY <3>1, HandlersCount, FS_Subset
    <2>4. Cardinality(Engaged(kind)') \in Nat
      BY <2>3, FS_CardinalityType
    <2> QED BY <1>1, <2>1, <2>2, <2>3, <2>4, Counts, FS_EmptySet, HandlersCount, SettingsAssumption
  <1>4. CASE kind # req[h].kind
    <2>1. Engaged(kind)' = Engaged(kind)
      <3>1. \A g \in Handlers : g # h => req'[g] = req[g]
        BY <1>2
      <3>2. req'[h].kind = req[h].kind
        BY <1>2 DEF Requests
      <3> QED BY <1>4, <3>1, <3>2 DEF Engaged
    <2> QED BY <1>1, <2>1 DEF Budget
  <1> QED BY <1>3, <1>4

(* A handler's mail takes the handler's place in the count. *)
LEMMA BudgetSpent ==
  ASSUME TypeOK, Finite, Budget, NEW h \in Handlers, NEW e,
         req[h].pc = "create", req'[h].pc = "idle", req'[h].kind = req[h].kind,
         \A g \in Handlers : g # h => req'[g] = req[g],
         e.kind = req[h].kind,
         emails' = emails \cup {e}, UNCHANGED now
  PROVE  Budget'
  <1> SUFFICES ASSUME NEW kind \in Recovery
               PROVE  /\ Cardinality(Recent(kind)') + Cardinality(Engaged(kind)')
                           <= Cardinality(Handlers)
                      /\ MaxPerHour > 0 =>
                           Cardinality(InWindow(kind)') + Cardinality(Engaged(kind)')
                             <= MaxPerHour + Cardinality(Handlers) - 1
    BY DEF Budget
  <1>1. CASE kind = req[h].kind
    <2>1. Engaged(kind)' = Engaged(kind) \ {h} /\ h \in Engaged(kind)
      BY <1>1 DEF Engaged
    <2>2. Cardinality(Engaged(kind)') = Cardinality(Engaged(kind)) - 1
      BY <2>1, Counts, FS_RemoveElement
    <2>3. /\ Recent(kind)' \subseteq Recent(kind) \cup {e}
          /\ InWindow(kind)' \subseteq InWindow(kind) \cup {e}
      BY DEF Recent, InWindow, Sent
    <2>4. /\ IsFiniteSet(Recent(kind) \cup {e})
          /\ IsFiniteSet(InWindow(kind) \cup {e})
          /\ Cardinality(Recent(kind) \cup {e}) <= Cardinality(Recent(kind)) + 1
          /\ Cardinality(InWindow(kind) \cup {e}) <= Cardinality(InWindow(kind)) + 1
      <3>1. ASSUME NEW S, IsFiniteSet(S)
            PROVE  IsFiniteSet(S \cup {e}) /\ Cardinality(S \cup {e}) <= Cardinality(S) + 1
        <4>1. Cardinality(S) \in Nat
          BY <3>1, FS_CardinalityType
        <4>2. /\ IsFiniteSet(S \cup {e})
              /\ Cardinality(S \cup {e}) = Cardinality(S) \/ Cardinality(S \cup {e}) = Cardinality(S) + 1
          <5>1. CASE e \in S
            BY <3>1, <5>1, FS_AddElement
          <5>2. CASE e \notin S
            BY <3>1, <5>2, FS_AddElement
          <5> QED BY <5>1, <5>2
        <4> QED BY <4>1, <4>2
      <3> QED BY <3>1, Counts
    <2>5. /\ IsFiniteSet(Recent(kind)') /\ IsFiniteSet(InWindow(kind)')
          /\ Cardinality(Recent(kind)') <= Cardinality(Recent(kind) \cup {e})
          /\ Cardinality(InWindow(kind)') <= Cardinality(InWindow(kind) \cup {e})
      BY <2>3, <2>4, FS_Subset
    <2>6. /\ Cardinality(Recent(kind)') \in Nat /\ Cardinality(InWindow(kind)') \in Nat
          /\ Cardinality(Recent(kind) \cup {e}) \in Nat
          /\ Cardinality(InWindow(kind) \cup {e}) \in Nat
      BY <2>4, <2>5, FS_CardinalityType
    <2> QED BY <2>2, <2>4, <2>5, <2>6, Counts, HandlersCount, SettingsAssumption DEF Budget
  <1>2. CASE kind # req[h].kind
    <2>1. /\ Recent(kind)' = Recent(kind) /\ InWindow(kind)' = InWindow(kind)
          /\ Engaged(kind)' = Engaged(kind)
      BY <1>2 DEF Recent, InWindow, Sent, Engaged
    <2> QED BY <2>1 DEF Budget
  <1> QED BY <1>1, <1>2
-----------------------------------------------------------------------------
(* The steps *)

(* What Answer, Step and the other moves of a request leave as it was *)
Keeps(h, r) ==
    /\ r.kind = req[h].kind /\ r.given = req[h].given /\ r.code = req[h].code

LEMMA SurroundingSteps ==
  ASSUME MailInv,
         \/ Tick \/ ReplaceAddress \/ ProveAddress \/ Provision \/ Deprovision
         \/ \E a \in proven \cup {0} : SetVerification(a)
  PROVE  MailInv'
  <1>1. CASE Tick
    <2>1. now \in Nat /\ now' = now + 1 /\ (\A e \in emails : e.at \in Nat)
          /\ UNCHANGED <<address, proven, user, req, answer, minted, emails, requests, faults>>
      BY <1>1 DEF Tick, account, MailInv, TypeOK, Emails
    <2>2. TypeOK'
      BY <2>1 DEF MailInv, TypeOK
    <2>3. Given' /\ Unanswered' /\ NamedByCode' /\ Proven' /\ Finite' /\ SuccessMeansMailed'
      BY <2>1 DEF MailInv, Given, Unanswered, NamedByCode, Proven, Backed, IsVerified, Finite,
                  SuccessMeansMailed, EmailName
    <2>4. \A kind \in Recovery : /\ Recent(kind)' \subseteq Recent(kind)
                                 /\ InWindow(kind)' \subseteq InWindow(kind)
                                 /\ Engaged(kind)' \subseteq Engaged(kind)
      BY <2>1, SettingsAssumption DEF Recent, InWindow, Sent, Engaged
    <2>5. Budget'
      BY <2>4, BudgetKept DEF MailInv
    <2> QED BY <2>2, <2>3, <2>5 DEF MailInv
  <1>2. CASE \/ ReplaceAddress \/ ProveAddress \/ Provision \/ Deprovision
             \/ \E a \in proven \cup {0} : SetVerification(a)
    <2>1. UNCHANGED <<now, req, answer, minted, emails, faults>> /\ requests' \in Nat
      BY <1>2 DEF MailInv, TypeOK, ReplaceAddress, ProveAddress, Provision, Deprovision, SetVerification
    <2>2. address \in Nat \ {0} /\ proven \subseteq 1..address /\ user \in Users
      BY DEF MailInv, Proven, TypeOK
    <2>3. /\ address' \in Nat \ {0} /\ address <= address' /\ proven \subseteq proven'
          /\ proven' \subseteq 1..address' /\ user' \in Users
          /\ user' # NoUser => user'.spec \in 1..address'
          /\ IsVerified(user') => user' # NoUser /\ user'.of \in proven'
      <3>1. CASE ReplaceAddress
        BY <2>2, <3>1 DEF ReplaceAddress, MailInv, Proven
      <3>2. CASE ProveAddress
        BY <2>2, <3>2 DEF ProveAddress, MailInv, Proven
      <3>3. CASE Provision
        BY <2>2, <3>3 DEF Provision, Users, IsVerified
      <3>4. CASE Deprovision
        BY <2>2, <3>4 DEF Deprovision, Users, NoUser, IsVerified
      <3>5. ASSUME NEW a \in proven \cup {0}, SetVerification(a)
            PROVE  /\ user' \in Users /\ user'.spec = user.spec /\ user'.of = a
                   /\ user' # NoUser /\ UNCHANGED <<address, proven>>
        <4>1. user'.spec = user.spec /\ user'.of = a /\ user' \in Users
          BY <2>2, <3>5 DEF SetVerification, Users
        <4>2. user.spec # 0
          BY <2>2, <3>5 DEF SetVerification, MailInv, Proven
        <4> QED BY <3>5, <4>1, <4>2 DEF SetVerification, NoUser
      <3>6. CASE \E a \in proven \cup {0} : SetVerification(a)
        <4>1. PICK a \in proven \cup {0} : SetVerification(a)
          BY <3>6
        <4>2. /\ user' \in Users /\ user'.spec = user.spec /\ user'.of = a
              /\ user' # NoUser /\ UNCHANGED <<address, proven>>
          BY <3>5, <4>1
        <4>3. user # NoUser
          BY <4>1 DEF SetVerification
        <4>4. user'.spec \in 1..address'
          BY <4>2, <4>3 DEF MailInv, Proven
        <4>5. IsVerified(user') => user'.of \in proven'
          BY <4>2 DEF IsVerified
        <4> QED BY <2>2, <4>2, <4>4, <4>5
      <3> QED BY <1>2, <3>1, <3>2, <3>3, <3>4, <3>6
    <2>4. TypeOK'
      <3>1. proven' \in SUBSET Nat /\ address' \in Nat
        BY <2>3
      <3> QED BY <2>1, <2>3, <3>1 DEF MailInv, TypeOK
    <2>5. Proven'
      <3>1. 1..address \subseteq 1..address'
        BY <2>2, <2>3
      <3>2. \A u : Backed(u) => Backed(u)'
        BY <2>3, <3>1 DEF Backed
      <3> QED BY <2>1, <2>3, <3>1, <3>2 DEF MailInv, Proven
    <2>6. Given' /\ Unanswered' /\ NamedByCode' /\ Finite' /\ SuccessMeansMailed'
      BY <2>1 DEF MailInv, Given, Unanswered, NamedByCode, Finite, SuccessMeansMailed, EmailName
    <2>7. Budget'
      BY <2>1 DEF MailInv, Budget, Recent, InWindow, Sent, Engaged
    <2> QED BY <2>4, <2>5, <2>6, <2>7 DEF MailInv
  <1> QED BY <1>1, <1>2

(* A request is answered, other than with success: it is past nothing any more. *)
LEMMA AnswerStep ==
  ASSUME MailInv, NEW h \in Handlers, NEW a \in Answers, a # "ok", Answer(h, a),
         UNCHANGED <<now, address, proven, user, emails>>,
         minted' \in Nat, minted' > 0 => minted > 0 \/ proven # {},
         faults' \in Nat, requests' \in Nat
  PROVE  MailInv'
  <1>1. req \in [Handlers -> Requests] /\ answer \in [Handlers -> Answers]
    BY DEF MailInv, TypeOK
  <1>2. /\ req' \in [Handlers -> Requests]
        /\ req'[h].pc = "idle" /\ Keeps(h, req'[h])
        /\ \A g \in Handlers : g # h => req'[g] = req[g]
    BY <1>1, NoUserType DEF Answer, Requests, Keeps
  <1>3. /\ answer' \in [Handlers -> Answers] /\ answer'[h] = a
        /\ \A g \in Handlers : g # h => answer'[g] = answer[g]
    BY <1>1 DEF Answer
  <1>4. TypeOK'
    BY <1>2, <1>3 DEF MailInv, TypeOK
  <1>5. Given' /\ Unanswered' /\ NamedByCode' /\ Proven' /\ Finite'
    BY <1>2, <1>3 DEF MailInv, Given, Unanswered, NamedByCode, Proven, Backed, Finite, Keeps
  <1>6. SuccessMeansMailed'
    BY <1>2, <1>3 DEF MailInv, SuccessMeansMailed, EmailName
  <1>7. Budget'
    <2>1. \A kind \in Recovery : /\ Recent(kind)' \subseteq Recent(kind)
                                 /\ InWindow(kind)' \subseteq InWindow(kind)
                                 /\ Engaged(kind)' \subseteq Engaged(kind)
      BY <1>2 DEF Recent, InWindow, Sent, Engaged
    <2> QED BY <2>1, BudgetKept DEF MailInv
  <1> QED BY <1>4, <1>5, <1>6, <1>7 DEF MailInv

(* A request takes a step, and does not get past TooSoon in it. *)
LEMMA RequestStep ==
  ASSUME MailInv, NEW h \in Handlers, NEW r \in Requests,
         req' = [req EXCEPT ![h] = r],
         UNCHANGED <<now, address, proven, user, minted, emails, requests, faults>>,
         UNCHANGED answer, req[h].pc # "idle", r.pc # "idle",
         r.kind = req[h].kind, r.given = req[h].given,
         r.pc # "mint",
         r.pc = "create" => r.kind \notin Recovery,
         r.pc = "budget" => r.kind \in Recovery /\ Backed(r.seen)
  PROVE  MailInv'
  <1>1. req \in [Handlers -> Requests]
    BY DEF MailInv, TypeOK
  <1>2. req' \in [Handlers -> Requests] /\ req'[h] = r /\ \A g \in Handlers : g # h => req'[g] = req[g]
    BY <1>1
  <1>3. TypeOK'
    BY <1>2 DEF MailInv, TypeOK
  <1>4. Given' /\ Unanswered' /\ NamedByCode' /\ Proven' /\ Finite'
    BY <1>2 DEF MailInv, Given, Unanswered, NamedByCode, Proven, Backed, Finite
  <1>5. SuccessMeansMailed'
    BY <1>2 DEF MailInv, Unanswered, SuccessMeansMailed, EmailName
  <1>6. Budget'
    <2>1. \A kind \in Recovery : /\ Recent(kind)' \subseteq Recent(kind)
                                 /\ InWindow(kind)' \subseteq InWindow(kind)
                                 /\ Engaged(kind)' \subseteq Engaged(kind)
      BY <1>2 DEF Recent, InWindow, Sent, Engaged
    <2> QED BY <2>1, BudgetKept DEF MailInv
  <1> QED BY <1>3, <1>4, <1>5, <1>6 DEF MailInv
LEMMA FaultType == TypeOK /\ (Fault \/ NoFault) => faults' \in Nat
  BY DEF TypeOK, Fault, NoFault

LEMMA ArriveStep ==
  ASSUME MailInv, NEW h \in Handlers, NEW kind \in Kinds, NEW given \in Codes \cup {"none"},
         NEW acceptable, Arrive(h, kind, given, acceptable),
         kind = "verify" => given \in Codes
  PROVE  MailInv'
  <1> DEFINE r == [pc |-> IF kind = "support" THEN "authorize" ELSE "lookup",
                   kind |-> kind, given |-> given, attempt |-> 1, code |-> 0, seen |-> NoUser]
  <1>1. requests' \in Nat /\ UNCHANGED <<now, address, proven, user, minted, emails, faults>>
        /\ req[h].pc = "idle"
    BY DEF Arrive, account, MailInv, TypeOK
  <1>2. CASE req' = [req EXCEPT ![h] = r] /\ answer' = [answer EXCEPT ![h] = "none"]
    <2>1. r \in Requests /\ r.pc \in {"authorize", "lookup"} /\ r.kind = kind /\ r.given = given
      BY NoUserType DEF Requests
    <2> HIDE DEF r
    <2>2. req \in [Handlers -> Requests] /\ answer \in [Handlers -> Answers]
      BY DEF MailInv, TypeOK
    <2>3. /\ req' \in [Handlers -> Requests] /\ req'[h] = r
          /\ \A g \in Handlers : g # h => req'[g] = req[g] /\ answer'[g] = answer[g]
      BY <1>2, <2>1, <2>2
    <2>4. answer' \in [Handlers -> Answers] /\ answer'[h] = "none"
      BY <1>2, <2>2 DEF Answers
    <2>5. TypeOK'
      BY <1>1, <2>3, <2>4 DEF MailInv, TypeOK
    <2>6. Given' /\ Unanswered' /\ NamedByCode' /\ Proven' /\ Finite'
      BY <1>1, <2>1, <2>3, <2>4 DEF MailInv, Given, Unanswered, NamedByCode, Proven, Backed, Finite
    <2>7. SuccessMeansMailed'
      BY <1>1, <2>3, <2>4 DEF MailInv, SuccessMeansMailed, EmailName
    <2>8. \A k \in Recovery : /\ Recent(k)' \subseteq Recent(k)
                              /\ InWindow(k)' \subseteq InWindow(k)
                              /\ Engaged(k)' \subseteq Engaged(k)
      BY <1>1, <2>1, <2>3 DEF Recent, InWindow, Sent, Engaged
    <2>9. Budget'
      BY <2>8, BudgetKept DEF MailInv
    <2> QED BY <2>5, <2>6, <2>7, <2>9 DEF MailInv
  <1>3. CASE Answer(h, "refused")
    <2>1. minted' \in Nat /\ faults' \in Nat /\ minted' = minted
      BY <1>1 DEF MailInv, TypeOK
    <2> QED BY <1>1, <1>3, <2>1, AnswerStep DEF Answers
  <1> QED BY <1>2, <1>3 DEF Arrive

(* The answers that end a request early, and the steps up to the budget *)
LEMMA EarlySteps ==
  ASSUME MailInv, NEW h \in Handlers, Authorize(h) \/ Lookup(h)
  PROVE  MailInv'
  <1>1. /\ req[h] \in Requests /\ req[h].pc \in {"authorize", "lookup"}
        /\ UNCHANGED <<now, address, proven, user, minted, emails, requests>>
        /\ minted \in Nat /\ requests \in Nat
    BY DEF Authorize, Lookup, account, MailInv, TypeOK
  <1>2. faults' \in Nat
    BY FaultType DEF Authorize, Lookup, MailInv
  <1>3. ASSUME NEW a \in {"refused", "failed", "notFound", "unverified"}, Answer(h, a)
        PROVE  MailInv'
    BY <1>1, <1>2, <1>3, AnswerStep DEF Answers
  <1>4. ASSUME NEW pc \in {"lookup", "budget", "create"}, NEW seen \in Users, NoFault,
               req' = [req EXCEPT ![h].pc = pc, ![h].seen = seen], UNCHANGED answer,
               pc = "create" => req[h].kind \notin Recovery,
               pc = "budget" => req[h].kind \in Recovery /\ Backed(seen)
        PROVE  MailInv'
    <2> DEFINE r == [req[h] EXCEPT !.pc = pc, !.seen = seen]
    <2>1. /\ r \in Requests /\ r.pc = pc /\ r.kind = req[h].kind /\ r.given = req[h].given
          /\ r.seen = seen
      BY <1>1 DEF Requests
    <2>2. req' = [req EXCEPT ![h] = r] /\ UNCHANGED <<answer, faults>>
      BY <1>4 DEF NoFault
    <2> HIDE DEF r
    <2> QED BY <1>1, <1>4, <2>1, <2>2, RequestStep
  <1>5. CASE Authorize(h)
    <2>1. CASE Step(h, "lookup") /\ NoFault
      <3>1. req[h].seen \in Users
        BY <1>1 DEF Requests
      <3>2. req' = [req EXCEPT ![h].pc = "lookup", ![h].seen = req[h].seen] /\ UNCHANGED answer
        BY <1>1, <2>1 DEF Step, Requests, MailInv, TypeOK
      <3> QED BY <1>4, <2>1, <3>1, <3>2
    <2> QED BY <1>3, <1>5, <2>1 DEF Authorize
  <1>6. CASE Lookup(h)
    <2>1. CASE req' = [req EXCEPT ![h].attempt = NextAttempt(req[h])] /\ UNCHANGED answer /\ NoFault
      <3> DEFINE r == [req[h] EXCEPT !.attempt = NextAttempt(req[h])]
      <3>1. r \in Requests /\ r.pc = req[h].pc /\ r.kind = req[h].kind /\ r.given = req[h].given
        BY <1>1 DEF Requests, NextAttempt
      <3>2. req' = [req EXCEPT ![h] = r] /\ UNCHANGED faults
        BY <2>1 DEF NoFault
      <3> QED BY <1>1, <2>1, <3>1, <3>2, RequestStep
    <2>2. CASE /\ user # NoUser /\ Mailable(req[h].kind) /\ NoFault /\ UNCHANGED answer
               /\ req' = [req EXCEPT
                           ![h].pc = IF req[h].kind \in Recovery THEN "budget" ELSE "create",
                           ![h].seen = user]
      <3>1. user \in Users /\ (req[h].kind \in Recovery => Backed(user))
        BY <2>2 DEF Mailable, MailInv, TypeOK, Proven, Backed
      <3>2. CASE req[h].kind \in Recovery
        BY <1>4, <2>2, <3>1, <3>2
      <3>3. CASE req[h].kind \notin Recovery
        BY <1>4, <2>2, <3>1, <3>3
      <3> QED BY <3>2, <3>3
    <2> QED BY <1>3, <1>6, <2>1, <2>2 DEF Lookup
  <1> QED BY <1>5, <1>6

LEMMA CheckBudgetStep ==
  ASSUME MailInv, NEW h \in Handlers, CheckBudget(h)
  PROVE  MailInv'
  <1>1. /\ req \in [Handlers -> Requests] /\ req[h].pc = "budget" /\ req[h].kind \in Recovery
        /\ UNCHANGED <<now, address, proven, user, minted, emails, requests>>
        /\ minted \in Nat /\ requests \in Nat /\ proven # {}
    BY DEF CheckBudget, account, MailInv, TypeOK, Proven, Backed
  <1>2. faults' \in Nat
    BY FaultType DEF CheckBudget, MailInv
  <1>3. ASSUME NEW a \in {"tooSoon", "failed"}, Answer(h, a)
        PROVE  MailInv'
    BY <1>1, <1>2, <1>3, AnswerStep DEF Answers
  <1>4. CASE ~TooSoon(req[h].kind) /\ Step(h, "mint")
    <2>1. /\ req' = [req EXCEPT ![h].pc = "mint"] /\ UNCHANGED answer
      BY <1>4 DEF Step
    <2>2. /\ req' \in [Handlers -> Requests] /\ req'[h].pc = "mint" /\ Keeps(h, req'[h])
          /\ \A g \in Handlers : g # h => req'[g] = req[g]
      BY <1>1, <2>1 DEF Requests, Keeps
    <2>3. TypeOK'
      BY <1>1, <1>2, <2>1, <2>2 DEF MailInv, TypeOK
    <2>4. Given' /\ Unanswered' /\ NamedByCode' /\ Proven' /\ Finite'
      BY <1>1, <2>1, <2>2 DEF MailInv, Given, Unanswered, NamedByCode, Proven, Backed, Finite, Keeps
    <2>5. SuccessMeansMailed'
      BY <1>1, <2>1, <2>2 DEF MailInv, Unanswered, SuccessMeansMailed, EmailName
    <2>6. Budget'
      BY <1>1, <1>4, <2>1, BudgetChecked DEF MailInv
    <2> QED BY <2>3, <2>4, <2>5, <2>6 DEF MailInv
  <1> QED BY <1>3, <1>4 DEF CheckBudget

LEMMA MintStep ==
  ASSUME MailInv, NEW h \in Handlers, Mint(h)
  PROVE  MailInv'
  <1>1. /\ req \in [Handlers -> Requests] /\ req[h].pc = "mint" /\ req[h].kind \in Recovery
        /\ UNCHANGED <<now, address, proven, user, emails, requests>>
        /\ minted \in Nat /\ requests \in Nat /\ proven # {}
    BY DEF Mint, account, MailInv, TypeOK, Proven, Backed
  <1>2. faults' \in Nat /\ minted' \in Nat
    BY <1>1, FaultType DEF Mint, MailInv
  <1>3. CASE Answer(h, "failed")
    BY <1>1, <1>2, <1>3, AnswerStep DEF Answers
  <1>4. CASE req' = [req EXCEPT ![h].pc = "create", ![h].code = minted + 1] /\ UNCHANGED answer
    <2>1. /\ req' \in [Handlers -> Requests] /\ req'[h].pc = "create"
          /\ req'[h].kind = req[h].kind
          /\ \A g \in Handlers : g # h => req'[g] = req[g]
      <3> DEFINE r == [req[h] EXCEPT !.pc = "create", !.code = minted + 1]
      <3>1. req[h] \in Requests /\ minted + 1 \in Nat
        BY <1>1
      <3>2. r \in Requests /\ r.pc = "create" /\ r.kind = req[h].kind
        BY <3>1 DEF Requests
      <3>3. req' = [req EXCEPT ![h] = r]
        BY <1>4
      <3> HIDE DEF r
      <3> QED BY <1>1, <3>2, <3>3
    <2>2. TypeOK'
      BY <1>1, <1>2, <1>4, <2>1 DEF MailInv, TypeOK
    <2>3. req[h].kind # "verify" /\ answer[h] = "none"
      BY <1>1 DEF Recovery, MailInv, Unanswered
    <2>4. Given' /\ Unanswered' /\ NamedByCode' /\ Proven' /\ Finite'
      BY <1>1, <1>4, <2>1, <2>3 DEF MailInv, Given, Unanswered, NamedByCode, Proven, Backed, Finite
    <2>5. SuccessMeansMailed'
      BY <1>1, <1>4, <2>1, <2>3 DEF MailInv, SuccessMeansMailed, EmailName
    <2>6. \A k \in Recovery : /\ Recent(k)' \subseteq Recent(k)
                              /\ InWindow(k)' \subseteq InWindow(k)
                              /\ Engaged(k)' \subseteq Engaged(k)
      BY <1>1, <2>1 DEF Recent, InWindow, Sent, Engaged
    <2>7. Budget'
      BY <2>6, BudgetKept DEF MailInv
    <2> QED BY <2>2, <2>4, <2>5, <2>7 DEF MailInv
  <1> QED BY <1>3, <1>4 DEF Mint
(* The mail a request creates bears the name the request looks for. *)
LEMMA EmailFacts ==
  ASSUME MailInv, NEW h \in Handlers, req[h].pc = "create"
  PROVE  /\ Email(req[h]) \in Emails
         /\ Email(req[h]).name = EmailName(req[h]) /\ Email(req[h]).kind = req[h].kind
         /\ Email(req[h]).at = now
         /\ Email(req[h]).to = req[h].seen.spec /\ Email(req[h]).of = req[h].seen.of
         /\ EmailName(req[h]) = <<IF req[h].kind \in Recovery THEN "recovery" ELSE "verify",
                                  Email(req[h]).code>>
  <1>1. req[h] \in Requests /\ now \in Nat
    BY DEF MailInv, TypeOK
  <1>2. /\ req[h].kind \in Kinds /\ req[h].code \in Nat
        /\ req[h].seen.spec \in Nat /\ req[h].seen.of \in Nat
    BY <1>1 DEF Requests, Users
  <1>3. CASE req[h].kind \in Recovery
    <2>1. EmailName(req[h]) = <<"recovery", req[h].code>>
      BY <1>3 DEF EmailName
    <2>2. Email(req[h]) = [name |-> <<"recovery", req[h].code>>, kind |-> req[h].kind,
                           code |-> req[h].code, to |-> req[h].seen.spec,
                           of |-> req[h].seen.of, at |-> now]
      BY <1>3, <2>1 DEF Email
    <2>3. <<"recovery", req[h].code>> \in Names
      BY <1>2 DEF Names
    <2> QED BY <1>1, <1>2, <1>3, <2>1, <2>2, <2>3 DEF Emails
  <1>4. CASE req[h].kind \notin Recovery
    <2>1. EmailName(req[h]) = <<"verify", req[h].given>> /\ req[h].given \in Codes
      BY <1>2, <1>4 DEF EmailName, Kinds, MailInv, Given
    <2>2. Email(req[h]) = [name |-> <<"verify", req[h].given>>, kind |-> req[h].kind,
                           code |-> req[h].given, to |-> req[h].seen.spec,
                           of |-> req[h].seen.of, at |-> now]
      BY <1>4, <2>1 DEF Email
    <2>3. <<"verify", req[h].given>> \in Names
      BY <2>1 DEF Names
    <2> QED BY <1>1, <1>2, <1>4, <2>1, <2>2, <2>3 DEF Emails
  <1> QED BY <1>3, <1>4

LEMMA CreateStep ==
  ASSUME MailInv, NEW h \in Handlers, NEW kind, CreateEmail(h, kind)
  PROVE  MailInv'
  <1> DEFINE e == Email(req[h])
  <1>1. /\ req \in [Handlers -> Requests] /\ answer \in [Handlers -> Answers]
        /\ req[h].pc = "create"
        /\ UNCHANGED <<now, address, proven, user, minted, requests>>
    BY DEF CreateEmail, account, MailInv, TypeOK
  <1>2. /\ e \in Emails /\ e.name = EmailName(req[h]) /\ e.kind = req[h].kind /\ e.at = now
        /\ e.name = <<IF e.kind \in Recovery THEN "recovery" ELSE "verify", e.code>>
        /\ e.to = req[h].seen.spec /\ e.of = req[h].seen.of
    BY <1>1, EmailFacts
  <1>3. PICK a \in {"ok", "failed"} : Answer(h, a)
    BY DEF CreateEmail, FailedAnswer
  <1>4. faults' \in Nat
    BY FaultType DEF CreateEmail, MailInv
  <1>5. /\ emails' = emails \/ (emails' = emails \cup {e} /\ ~AlreadyExists(req[h]))
        /\ a = "ok" => AlreadyExists(req[h]) \/ emails' = emails \cup {e}
    <2>1. a = "ok" => emails' = IF AlreadyExists(req[h]) THEN emails ELSE emails \cup {e}
      <3>1. answer'[h] = a
        BY <1>1, <1>3 DEF Answer
      <3>2. Answer(h, "failed") => answer'[h] = "failed"
        BY <1>1 DEF Answer
      <3> QED BY <3>1, <3>2 DEF CreateEmail, FailedAnswer
    <2> QED BY <2>1 DEF CreateEmail
  <1> HIDE DEF e
  <1>6. /\ req' \in [Handlers -> Requests]
        /\ req'[h].pc = "idle" /\ Keeps(h, req'[h])
        /\ \A g \in Handlers : g # h => req'[g] = req[g]
    BY <1>1, <1>3, NoUserType DEF Answer, Requests, Keeps
  <1>7. /\ answer' \in [Handlers -> Answers] /\ answer'[h] = a
        /\ \A g \in Handlers : g # h => answer'[g] = answer[g]
    BY <1>1, <1>3 DEF Answer, Answers
  <1>8. \A g \in Handlers : EmailName(req'[g]) = EmailName(req[g])
    BY <1>6 DEF EmailName, Keeps
  <1>9. TypeOK'
    BY <1>1, <1>2, <1>4, <1>5, <1>6, <1>7 DEF MailInv, TypeOK
  <1>10. Given' /\ Unanswered'
    BY <1>1, <1>6, <1>7 DEF MailInv, Given, Unanswered, Keeps
  <1>10a. Proven'
    <2>1. e.kind \in Recovery => e.of \in proven /\ e.to \in 1..address
      BY <1>1, <1>2 DEF MailInv, Proven, Backed
    <2>2. \A f \in emails' : f.kind \in Recovery => f.of \in proven /\ f.to \in 1..address
      BY <1>5, <2>1 DEF MailInv, Proven
    <2>3. \A g \in Handlers :
            /\ req'[g].pc \in {"budget", "mint"} => req'[g].kind \in Recovery
            /\ req'[g].pc \in {"budget", "mint", "create"} /\ req'[g].kind \in Recovery
                 => Backed(req'[g].seen)
      BY <1>6 DEF MailInv, Proven
    <2>4. UNCHANGED <<address, proven, user, minted>>
      BY <1>1
    <2> QED BY <2>2, <2>3, <2>4 DEF MailInv, Proven, Backed, IsVerified
  <1>11. NamedByCode'
    BY <1>2, <1>5 DEF MailInv, NamedByCode, AlreadyExists
  <1>12. Finite'
    <2>1. IsFiniteSet(emails \cup {e})
      BY FS_AddElement DEF MailInv, Finite
    <2>2. now \in Nat
      BY DEF MailInv, TypeOK
    <2>3. IsFiniteSet(emails)'
      <3>1. CASE emails' = emails
        BY <3>1 DEF MailInv, Finite
      <3>2. CASE emails' = emails \cup {e}
        BY <2>1, <3>2
      <3> QED BY <1>5, <3>1, <3>2
    <2>4. \A f \in emails' : f.at <= now'
      <3>1. \A f \in emails : f.at <= now
        BY DEF MailInv, Finite
      <3>2. emails' \subseteq emails \cup {e}
        BY <1>5
      <3> QED BY <1>1, <1>2, <2>2, <3>1, <3>2
    <2> QED BY <2>3, <2>4 DEF Finite
  <1>13. SuccessMeansMailed'
    <2>1. \A g \in Handlers : g # h /\ answer[g] = "ok" => \E f \in emails' : f.name = EmailName(req[g])
      BY <1>5 DEF MailInv, SuccessMeansMailed
    <2>2. a = "ok" => \E f \in emails' : f.name = EmailName(req[h])
      BY <1>2, <1>5 DEF AlreadyExists
    <2> QED BY <1>7, <1>8, <2>1, <2>2 DEF SuccessMeansMailed
  <1>15. Budget'
    <2>1. CASE emails' = emails
      <3>1. \A k \in Recovery : /\ Recent(k)' \subseteq Recent(k)
                                /\ InWindow(k)' \subseteq InWindow(k)
                                /\ Engaged(k)' \subseteq Engaged(k)
        BY <1>1, <1>6, <2>1 DEF Recent, InWindow, Sent, Engaged, Keeps
      <3> QED BY <3>1, BudgetKept DEF MailInv
    <2>2. CASE emails' = emails \cup {e}
      <3>1. req'[h].kind = req[h].kind /\ now' = now
        BY <1>1, <1>6 DEF Keeps
      <3> QED BY <1>1, <1>2, <1>6, <2>2, <3>1, BudgetSpent DEF MailInv
    <2> QED BY <1>5, <2>1, <2>2
  <1> QED BY <1>9, <1>10, <1>10a, <1>11, <1>12, <1>13, <1>15 DEF MailInv

LEMMA NextMailInv == MailInv /\ [Next]_vars => MailInv'
  <1> SUFFICES ASSUME MailInv, [Next]_vars PROVE MailInv'
    OBVIOUS
  <1>1. CASE UNCHANGED vars
    <2>1. TypeOK' /\ Given' /\ Unanswered' /\ NamedByCode' /\ Proven' /\ Finite'
          /\ SuccessMeansMailed'
      BY <1>1 DEF vars, MailInv, TypeOK, Given, Unanswered, NamedByCode, Proven, Backed, Finite,
                  SuccessMeansMailed, EmailName
    <2>2. Budget'
      BY <1>1 DEF vars, MailInv, Budget, Recent, InWindow, Sent, Engaged
    <2> QED BY <2>1, <2>2 DEF MailInv
  <1>2. CASE \/ Tick \/ ReplaceAddress \/ ProveAddress \/ Provision \/ Deprovision
             \/ \E a \in proven \cup {0} : SetVerification(a)
    BY <1>2, SurroundingSteps
  <1>3. ASSUME NEW h \in Handlers, NEW acceptable,
               \/ PostAccountRecovery(h, acceptable)
               \/ CreateRegistrationLink(h, acceptable)
               \/ \E given \in Codes : PostEmailVerification(h, given, acceptable)
        PROVE  MailInv'
    BY <1>3, ArriveStep
       DEF PostAccountRecovery, CreateRegistrationLink, PostEmailVerification, Kinds, Recovery
  <1>4. ASSUME NEW h \in Handlers, Serve(h) PROVE MailInv'
    BY <1>4, EarlySteps, CheckBudgetStep, MintStep, CreateStep
       DEF Serve, CreateRecoveryEmail, CreateLinkEmail, CreateVerificationEmail
  <1> QED BY <1>1, <1>2, <1>3, <1>4 DEF Next

LEMMA MailInvariant == Spec => []MailInv
  BY InitMailInv, NextMailInv, PTL DEF Spec

-----------------------------------------------------------------------------
(* The theorems *)

(* The type invariant holds for any handlers, codes, settings and bounds. *)
THEOREM TypeCorrect == Spec => []TypeOK
  <1>1. MailInv => TypeOK
    BY DEF MailInv
  <1> QED BY <1>1, MailInvariant, PTL

(* TooSoon: concurrent requests overrun the recovery budget by no more than the handlers
   that were past the check together, for any number of them and any cooldown and cap. *)
THEOREM BudgetOverrunBounded == Spec => []OverrunBounded
  <1>1. MailInv => OverrunBounded
    <2> SUFFICES ASSUME MailInv, NEW kind \in Recovery
                 PROVE  /\ Cardinality(Recent(kind)) <= Cardinality(Handlers)
                        /\ MaxPerHour > 0 =>
                             Cardinality(InWindow(kind)) <= MaxPerHour + Cardinality(Handlers) - 1
      BY DEF OverrunBounded, Recent
    <2>1. /\ Cardinality(Recent(kind)) + Cardinality(Engaged(kind)) <= Cardinality(Handlers)
          /\ MaxPerHour > 0 => Cardinality(InWindow(kind)) + Cardinality(Engaged(kind))
                                 <= MaxPerHour + Cardinality(Handlers) - 1
      BY DEF MailInv, Budget
    <2> QED BY <2>1, Counts, HandlersCount, SettingsAssumption DEF MailInv
  <1> QED BY <1>1, MailInvariant, PTL

(* The Email's name: a code is in one mail, however often and however concurrently it is
   asked for. *)
THEOREM CodeMailedOnce == Spec => []OneMailPerCode
  <1>1. MailInv => OneMailPerCode
    BY DEF MailInv, NamedByCode, OneMailPerCode
  <1> QED BY <1>1, MailInvariant, PTL

(* Who is answered 200 has the mail in the API server. *)
THEOREM SuccessIsTrue == Spec => []SuccessMeansMailed
  <1>1. MailInv => SuccessMeansMailed
    BY DEF MailInv
  <1> QED BY <1>1, MailInvariant, PTL

(* IsVerified, Build: a recovery code and its mail rest on a proof of an address of the
   account, which is the address mailed unless the account's was replaced, whatever happens
   to the User and to the address while the request is served. *)
THEOREM UnprovenGetsNothing == Spec => []NothingForUnproven
  <1>1. MailInv => NothingForUnproven
    <2> SUFFICES ASSUME MailInv, NEW e \in emails, e.kind \in Recovery
                 PROVE  e.of \in proven /\ (e.to = e.of \/ address > 1)
      BY DEF MailInv, Proven, NothingForUnproven
    <2>1. e.of \in proven /\ e.to \in 1..address /\ e.of \in 1..address /\ address \in Nat \ {0}
      BY DEF MailInv, Proven
    <2> QED BY <2>1
  <1> QED BY <1>1, MailInvariant, PTL

=============================================================================
