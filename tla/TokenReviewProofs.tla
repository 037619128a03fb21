------------------------- MODULE TokenReviewProofs -------------------------
(***************************************************************************)
(* Proofs about TokenReview, for any number of requests and failures, any  *)
(* lifetime of the assertion, refresh margin, length of a second and lag.  *)
(***************************************************************************)
EXTENDS TokenReview, TLAPS

LEMMA InitTypeOK == Init => TypeOK
  <1> SUFFICES ASSUME Init PROVE TypeOK
    OBVIOUS
  <1>1. NoAssertion \in Assertions
    BY DEF NoAssertion, Assertions
  <1>2. IdleRequest \in RequestRecords /\ cache \in CacheEntries
    BY <1>1 DEF Init, IdleRequest, RequestRecords, CacheEntries
  <1>3. Denied \in Reviews /\ [active |-> FALSE, verified |-> FALSE] \in Seen
    BY DEF Denied, Reviews, Seen
  <1> QED BY <1>2, <1>3 DEF Init, TypeOK

LEMMA JWTType ==
  ASSUME NEW t \in Int
  PROVE  /\ BuildSignedJWT(t) \in Assertions
         /\ BuildSignedJWT(t).expires = t + Expiration
         /\ BuildSignedJWT(t).exp > t + Expiration - Second
  BY DurationsAssumption, ClockAssumption DEF BuildSignedJWT, Assertions

LEMMA RespondType ==
  ASSUME TypeOK, NEW r \in Requests, NEW review \in Reviews, Respond(r, review)
  PROVE  req' \in [Requests -> RequestRecords] /\ answer' \in [Requests -> Reviews]
  <1>1. IdleRequest \in RequestRecords
    BY DEF IdleRequest, RequestRecords, NoAssertion, Assertions
  <1> QED BY <1>1 DEF Respond, TypeOK

LEMMA ReviewType == TypeOK => Review(token) \in Reviews /\ Denied \in Reviews
  BY DEF TypeOK, Tokens, Review, Reviews, EmailVerifiedKey, Denied

LEMMA NextTypeOK == TypeOK /\ [Next]_vars => TypeOK'
  <1> SUFFICES ASSUME TypeOK, [Next]_vars PROVE TypeOK'
    OBVIOUS
  <1>1. CASE UNCHANGED vars
    BY <1>1 DEF TypeOK, vars
  <1>2. CASE Tick
    BY <1>2 DEF Tick, TypeOK
  <1>3. ASSUME NEW new \in Tokens, ChangeToken(new) PROVE TypeOK'
    <2>1. \A r \in Requests : seen'[r] \in Seen
      <3> SUFFICES ASSUME NEW r \in Requests PROVE seen'[r] \in Seen
        OBVIOUS
      <3>1. seen[r] \in Seen
        BY DEF TypeOK
      <3>2. [active   |-> seen[r].active \/ new.active,
             verified |-> seen[r].verified \/ new.verified] \in Seen
        BY Zenon DEF Seen
      <3> QED BY <1>3, <3>1, <3>2 DEF ChangeToken
    <2>2. seen' \in [Requests -> Seen]
      BY <1>3, <2>1 DEF ChangeToken
    <2> QED BY <1>3, <2>2 DEF ChangeToken, TypeOK
  <1>4. ASSUME NEW r \in Requests, NEW wellFormed, Arrive(r, wellFormed) PROVE TypeOK'
    <2>1. [active |-> token.active, verified |-> token.verified] \in Seen
      BY DEF TypeOK, Tokens, Seen
    <2>2. seen' \in [Requests -> Seen] /\ reviews' \in Nat
      BY <1>4, <2>1 DEF Arrive, TypeOK
    <2>3. req' \in [Requests -> RequestRecords] /\ answer' \in [Requests -> Reviews]
      <3>1. CASE Goto(r, "start")
        BY <3>1 DEF Goto, TypeOK, RequestRecords
      <3>2. CASE Respond(r, Denied)
        BY <3>2, RespondType, ReviewType
      <3> QED BY <1>4, <3>1, <3>2 DEF Arrive
    <2> QED BY <1>4, <2>2, <2>3 DEF Arrive, TypeOK
  <1>5. ASSUME NEW r \in Requests, Serve(r) PROVE TypeOK'
    <2>1. CASE ReadClock(r)
      <3>1. now \in Int
        BY DEF TypeOK
      <3>2. req' \in [Requests -> RequestRecords]
        BY <2>1, <3>1 DEF ReadClock, TypeOK, RequestRecords
      <3> QED BY <2>1, <3>2 DEF ReadClock, TypeOK
    <2>2. CASE GetCachedAssertion(r)
      <3>1. cache.jwt \in Assertions
        BY DEF TypeOK, CacheEntries
      <3> QED BY <2>2, <3>1 DEF GetCachedAssertion, TypeOK, RequestRecords
    <2>3. CASE Lock(r)
      BY <2>3 DEF Lock, Goto, TypeOK, RequestRecords
    <2>4. CASE DoubleCheck(r)
      <3>1. cache.jwt \in Assertions
        BY DEF TypeOK, CacheEntries
      <3> QED BY <2>4, <3>1 DEF DoubleCheck, TypeOK, RequestRecords
    <2>5. CASE Sign(r)
      <3>1. req[r].at \in Int
        BY DEF TypeOK, RequestRecords
      <3>2. BuildSignedJWT(req[r].at) \in Assertions
        BY <3>1, JWTType
      <3>3. [set |-> TRUE, jwt |-> BuildSignedJWT(req[r].at)] \in CacheEntries
        BY <3>2, Zenon DEF CacheEntries
      <3>4. req' \in [Requests -> RequestRecords] /\ answer' \in [Requests -> Reviews]
        <4>1. CASE UNCHANGED answer
                   /\ req' = [req EXCEPT ![r].pc = "send", ![r].jwt = BuildSignedJWT(req[r].at)]
          BY <3>2, <4>1 DEF TypeOK, RequestRecords
        <4>2. CASE Respond(r, Denied)
          BY <4>2, RespondType, ReviewType
        <4> QED BY <2>5, <4>1, <4>2 DEF Sign
      <3>5. cache' \in CacheEntries
        BY <2>5, <3>3 DEF Sign, TypeOK
      <3> QED BY <2>5, <3>4, <3>5 DEF Sign, TypeOK, AfterSignError, Fault, NoFault
    <2>6. CASE Introspect(r)
      BY <2>6, RespondType, ReviewType DEF Introspect, TypeOK, Fault, NoFault
    <2> QED BY <1>5, <2>1, <2>2, <2>3, <2>4, <2>5, <2>6 DEF Serve
  <1> QED BY <1>1, <1>2, <1>3, <1>4, <1>5 DEF Next

(* The type invariant holds for any requests, durations and bounds. *)
THEOREM TypeCorrect == Spec => []TypeOK
  BY InitTypeOK, NextTypeOK, PTL DEF Spec

-----------------------------------------------------------------------------
(* The inductive invariant *)

(* The write lock is held by the one request that is between Lock and unlock. *)
Exclusive == \A r \in Requests : writer = r <=> req[r].pc \in {"locked", "sign"}

(* A reading of the clock is never older than the lag. *)
ClockFresh ==
    \A r \in Requests : Timed(r) => req[r].at <= now /\ now - req[r].at <= MaxLag

(* The exp claim loses less than a second of the lifetime. *)
ClaimClose == cache.set => cache.jwt.exp > cache.jwt.expires - Second

(* An assertion in hand outlives the lag, counted from the reading it was chosen on. *)
InHandAlive ==
    Leeway => \A r \in Requests :
        req[r].pc = "send" => req[r].jwt.exp > req[r].at + MaxLag

(* Who is about to sign has found the cached assertion too old, and nobody has
   replaced it since. *)
SignsStale == \A r \in Requests : req[r].pc = "sign" => ~Usable(req[r].at)

(* The history keeps up with the token while a request is served. *)
Witnessed ==
    \A r \in Requests : req[r].pc # "idle" =>
        /\ token.active => seen[r].active
        /\ token.verified => seen[r].verified

ReviewInv ==
    /\ TypeOK
    /\ Exclusive /\ ClockFresh /\ ClaimClose /\ InHandAlive /\ SignsStale
    /\ Witnessed /\ ReviewSound

LEMMA InitReviewInv == Init => ReviewInv
  BY InitTypeOK, RequestsAssumption
     DEF Init, ReviewInv, Exclusive, ClockFresh, Timed, ClaimClose, InHandAlive, SignsStale,
         Witnessed, ReviewSound, IdleRequest, Denied, NoOne

(* Where a request's record goes in each step, field by field *)
LEMMA Records ==
  ASSUME TypeOK, NEW r \in Requests
  PROVE  /\ req[r].pc \in {"idle", "start", "rlock", "lock", "locked", "sign", "send"}
         /\ req[r].at \in Int /\ req[r].jwt.exp \in Int /\ req[r].jwt.expires \in Int
         /\ cache.jwt.exp \in Int /\ cache.jwt.expires \in Int
         /\ now \in Int
  BY DEF TypeOK, RequestRecords, Assertions, CacheEntries

LEMMA TickStep ==
  ASSUME ReviewInv, Tick
  PROVE  /\ Exclusive' /\ ClockFresh' /\ ClaimClose' /\ InHandAlive' /\ SignsStale'
         /\ Witnessed' /\ ReviewSound'
  BY Records, ClockAssumption
     DEF Tick, ReviewInv, Exclusive, ClockFresh, Timed, ClaimClose, InHandAlive, SignsStale,
         Usable, Witnessed, ReviewSound

LEMMA TokenStep ==
  ASSUME ReviewInv, NEW new \in Tokens, ChangeToken(new)
  PROVE  /\ Exclusive' /\ ClockFresh' /\ ClaimClose' /\ InHandAlive' /\ SignsStale'
         /\ Witnessed' /\ ReviewSound'
  <1>1. Exclusive' /\ ClockFresh' /\ ClaimClose' /\ InHandAlive' /\ SignsStale'
    BY DEF ChangeToken, ReviewInv, Exclusive, ClockFresh, Timed, ClaimClose, InHandAlive,
           SignsStale, Usable
  <1>2. ASSUME NEW r \in Requests
        PROVE  /\ req[r].pc = "idle" => seen'[r] = seen[r]
               /\ req[r].pc # "idle" => /\ seen'[r].active = (seen[r].active \/ new.active)
                                        /\ seen'[r].verified = (seen[r].verified \/ new.verified)
    BY DEF ChangeToken
  <1>3. Witnessed'
    BY <1>2 DEF ChangeToken, ReviewInv, Witnessed
  <1>4. ReviewSound'
    BY <1>2 DEF ChangeToken, ReviewInv, ReviewSound
  <1> QED BY <1>1, <1>3, <1>4
(* A request that is answered lets go of its assertion, and its answer is of this moment. *)
LEMMA RespondStep ==
  ASSUME ReviewInv, NEW r \in Requests, NEW review \in Reviews, Respond(r, review),
         req[r].pc # "idle",
         review.authenticated => /\ token.active
                                 /\ review.verified = "true" => token.verified
                                 /\ token.name = IF review.verified = "absent" THEN "machine" ELSE "email",
         UNCHANGED <<now, token, cache, seen>>
  PROVE  ClockFresh' /\ ClaimClose' /\ InHandAlive' /\ SignsStale' /\ Witnessed' /\ ReviewSound'
  <1>1. \A q \in Requests : /\ req'[q] = (IF q = r THEN IdleRequest ELSE req[q])
                            /\ answer'[q] = (IF q = r THEN review ELSE answer[q])
    BY DEF Respond, ReviewInv, TypeOK
  <1>2. IdleRequest.pc = "idle"
    BY DEF IdleRequest
  <1>3. ClockFresh' /\ ClaimClose' /\ InHandAlive' /\ SignsStale' /\ Witnessed'
    BY <1>1, <1>2 DEF ReviewInv, ClockFresh, Timed, ClaimClose, InHandAlive, SignsStale,
                      Usable, Witnessed
  <1>4. ReviewSound'
    BY <1>1, <1>2 DEF ReviewInv, ReviewSound, Witnessed
  <1> QED BY <1>3, <1>4

LEMMA DeniedSays == Denied \in Reviews /\ ~Denied.authenticated
  BY DEF Denied, Reviews

LEMMA ReviewSays ==
  ASSUME TypeOK, Review(token).authenticated
  PROVE  /\ token.active
         /\ Review(token).verified = "true" => token.verified
         /\ token.name = IF Review(token).verified = "absent" THEN "machine" ELSE "email"
  BY DEF TypeOK, Tokens, Review, EmailVerifiedKey, Denied

LEMMA ArriveStep ==
  ASSUME ReviewInv, NEW r \in Requests, NEW wellFormed, Arrive(r, wellFormed)
  PROVE  /\ Exclusive' /\ ClockFresh' /\ ClaimClose' /\ InHandAlive' /\ SignsStale'
         /\ Witnessed' /\ ReviewSound'
  <1>1. \A q \in Requests : q # r => req'[q] = req[q] /\ answer'[q] = answer[q] /\ seen'[q] = seen[q]
    BY DEF Arrive, Goto, Respond, ReviewInv, TypeOK
  <1>2. seen'[r] = [active |-> token.active, verified |-> token.verified]
    BY DEF Arrive, ReviewInv, TypeOK
  <1>3. req'[r].pc = "start" \/ (req'[r].pc = "idle" /\ answer'[r] = Denied)
    BY DEF Arrive, Goto, Respond, ReviewInv, TypeOK, RequestRecords, IdleRequest
  <1>4. UNCHANGED <<now, token, cache, writer>> /\ req[r].pc = "idle"
    BY DEF Arrive
  <1>5. Exclusive' /\ ClockFresh' /\ ClaimClose' /\ InHandAlive' /\ SignsStale'
    BY <1>1, <1>3, <1>4 DEF ReviewInv, Exclusive, ClockFresh, Timed, ClaimClose, InHandAlive,
                            SignsStale, Usable
  <1>6. Witnessed'
    BY <1>1, <1>2, <1>4 DEF ReviewInv, Witnessed
  <1>7. ReviewSound'
    BY <1>1, <1>3, <1>4, DeniedSays DEF ReviewInv, ReviewSound
  <1> QED BY <1>5, <1>6, <1>7

(* A step on the way to an assertion changes one request and nothing the answers are about. *)
LEMMA OnTheWay ==
  ASSUME ReviewInv, NEW r \in Requests, req[r].pc # "idle", req'[r].pc # "idle",
         \A q \in Requests : q # r => req'[q] = req[q],
         UNCHANGED <<token, answer, seen>>
  PROVE  Witnessed' /\ ReviewSound'
  BY DEF ReviewInv, Witnessed, ReviewSound

LEMMA AssertionSteps ==
  ASSUME ReviewInv, NEW r \in Requests,
         ReadClock(r) \/ GetCachedAssertion(r) \/ Lock(r) \/ DoubleCheck(r)
  PROVE  /\ Exclusive' /\ ClockFresh' /\ ClaimClose' /\ InHandAlive' /\ SignsStale'
         /\ Witnessed' /\ ReviewSound'
  <1> USE Records, ClockAssumption, DurationsAssumption, RequestsAssumption
  <1>1. \A q \in Requests : q # r => req'[q] = req[q]
    BY DEF ReadClock, GetCachedAssertion, Lock, DoubleCheck, Goto, ReviewInv, TypeOK
  <1>2. UNCHANGED <<now, token, cache, answer, seen>> /\ req[r].pc # "idle"
    BY DEF ReadClock, GetCachedAssertion, Lock, DoubleCheck, Goto
  <1>3. CASE ReadClock(r)
    <2>1. req'[r].pc = "rlock" /\ req'[r].at = now /\ writer' = writer /\ req[r].pc = "start"
      BY <1>3 DEF ReadClock, ReviewInv, TypeOK, RequestRecords
    <2>2. Exclusive' /\ ClockFresh' /\ ClaimClose' /\ InHandAlive' /\ SignsStale'
      BY <1>1, <1>2, <2>1 DEF ReviewInv, Exclusive, ClockFresh, Timed, ClaimClose, InHandAlive,
                              SignsStale, Usable
    <2> QED BY <1>1, <1>2, <2>1, <2>2, OnTheWay
  <1>4. CASE GetCachedAssertion(r)
    <2>1. /\ writer' = writer /\ req[r].pc = "rlock" /\ req'[r].at = req[r].at
          /\ \/ Usable(req[r].at) /\ req'[r].pc = "send" /\ req'[r].jwt = cache.jwt
             \/ req'[r].pc = "lock"
      BY <1>4 DEF GetCachedAssertion, ReviewInv, TypeOK, RequestRecords
    <2>2. Exclusive' /\ ClockFresh' /\ ClaimClose' /\ SignsStale'
      BY <1>1, <1>2, <2>1 DEF ReviewInv, Exclusive, ClockFresh, Timed, ClaimClose,
                              SignsStale, Usable
    <2>3. InHandAlive'
      BY <1>1, <1>2, <2>1 DEF ReviewInv, TypeOK, ClaimClose, InHandAlive, Usable, Leeway
    <2> QED BY <1>1, <1>2, <2>1, <2>2, <2>3, OnTheWay
  <1>5. CASE Lock(r)
    <2>1. req'[r].pc = "locked" /\ writer' = r /\ writer = NoOne
      BY <1>5 DEF Lock, Goto, ReviewInv, TypeOK, RequestRecords
    <2>2. Exclusive' /\ ClockFresh' /\ ClaimClose' /\ InHandAlive' /\ SignsStale'
      BY <1>1, <1>2, <2>1 DEF ReviewInv, Exclusive, ClockFresh, Timed, ClaimClose, InHandAlive,
                              SignsStale, Usable, NoOne
    <2> QED BY <1>1, <1>2, <2>1, <2>2, OnTheWay
  <1>6. CASE DoubleCheck(r)
    <2>1. /\ req[r].pc = "locked" /\ req'[r].at = now
          /\ \/ /\ Usable(now) /\ req'[r].pc = "send" /\ req'[r].jwt = cache.jwt
                /\ writer' = NoOne
             \/ ~Usable(now) /\ req'[r].pc = "sign" /\ writer' = writer
      BY <1>6 DEF DoubleCheck, StillUsable, ReviewInv, TypeOK, RequestRecords
    <2>2. writer = r
      BY <2>1 DEF ReviewInv, Exclusive
    <2>3. Exclusive' /\ ClockFresh' /\ ClaimClose' /\ SignsStale'
      BY <1>1, <1>2, <2>1, <2>2 DEF ReviewInv, Exclusive, ClockFresh, Timed, ClaimClose,
                                    SignsStale, Usable, NoOne
    <2>4. InHandAlive'
      BY <1>1, <1>2, <2>1 DEF ReviewInv, TypeOK, ClaimClose, InHandAlive, Usable, Leeway
    <2> QED BY <1>1, <1>2, <2>1, <2>3, <2>4, OnTheWay
  <1> QED BY <1>3, <1>4, <1>5, <1>6
LEMMA SignStep ==
  ASSUME ReviewInv, NEW r \in Requests, Sign(r)
  PROVE  /\ Exclusive' /\ ClockFresh' /\ ClaimClose' /\ InHandAlive' /\ SignsStale'
         /\ Witnessed' /\ ReviewSound'
  <1> DEFINE jwt == BuildSignedJWT(req[r].at)
  <1> USE Records, ClockAssumption, DurationsAssumption, RequestsAssumption
  <1>1. req[r].pc = "sign" /\ writer = r /\ writer' = NoOne
    BY DEF Sign, AfterSignError, ReviewInv, Exclusive
  <1>2. UNCHANGED <<now, token, seen>>
    BY DEF Sign
  <1>3. \A q \in Requests : q # r => req'[q] = req[q]
    BY DEF Sign, Respond, ReviewInv, TypeOK
  <1>4. CASE /\ cache' = [set |-> TRUE, jwt |-> jwt]
             /\ req' = [req EXCEPT ![r].pc = "send", ![r].jwt = jwt]
             /\ UNCHANGED answer
    <2>1. jwt.expires = req[r].at + Expiration /\ jwt.exp > req[r].at + Expiration - Second
          /\ jwt.exp \in Int
      BY JWTType DEF ReviewInv, Assertions
    <2>2. req'[r].pc = "send" /\ req'[r].jwt = jwt /\ req'[r].at = req[r].at
      BY <1>4 DEF ReviewInv, TypeOK, RequestRecords
    <2> HIDE DEF jwt
    <2>3. cache'.set /\ cache'.jwt = jwt
      BY <1>4
    <2>4. Exclusive' /\ ClockFresh'
      BY <1>1, <1>2, <1>3, <2>2 DEF ReviewInv, Exclusive, ClockFresh, Timed, NoOne
    <2>5. ClaimClose'
      BY <2>1, <2>3 DEF ReviewInv, ClaimClose
    <2>6. InHandAlive'
      BY <1>3, <2>1, <2>2 DEF ReviewInv, InHandAlive, Leeway
    <2>7. SignsStale'
      BY <1>1, <1>3, <2>2 DEF ReviewInv, Exclusive, SignsStale
    <2>8. Witnessed' /\ ReviewSound'
      BY <1>1, <1>2, <1>3, <1>4, <2>2, OnTheWay
    <2> QED BY <2>4, <2>5, <2>6, <2>7, <2>8
  <1>5. CASE Respond(r, Denied) /\ UNCHANGED cache
    <2>1. ClockFresh' /\ ClaimClose' /\ InHandAlive' /\ SignsStale' /\ Witnessed' /\ ReviewSound'
      BY <1>1, <1>2, <1>5, RespondStep, DeniedSays
    <2>2. req'[r].pc = "idle"
      BY <1>5 DEF Respond, IdleRequest, ReviewInv, TypeOK
    <2>3. Exclusive'
      BY <1>1, <1>3, <2>2 DEF ReviewInv, Exclusive, NoOne
    <2> QED BY <2>1, <2>3
  <1> QED BY <1>4, <1>5 DEF Sign

LEMMA IntrospectStep ==
  ASSUME ReviewInv, NEW r \in Requests, Introspect(r)
  PROVE  /\ Exclusive' /\ ClockFresh' /\ ClaimClose' /\ InHandAlive' /\ SignsStale'
         /\ Witnessed' /\ ReviewSound'
  <1>1. PICK review \in {Denied, Review(token)} : Respond(r, review)
    BY DEF Introspect
  <1>2. /\ review \in Reviews
        /\ review.authenticated => /\ token.active
                                   /\ review.verified = "true" => token.verified
                                   /\ token.name = IF review.verified = "absent" THEN "machine" ELSE "email"
    BY ReviewType, ReviewSays, DeniedSays DEF ReviewInv
  <1>3. req[r].pc = "send" /\ UNCHANGED <<now, token, cache, writer, seen>>
    BY DEF Introspect
  <1>4. ClockFresh' /\ ClaimClose' /\ InHandAlive' /\ SignsStale' /\ Witnessed' /\ ReviewSound'
    BY <1>1, <1>2, <1>3, RespondStep
  <1>5. \A q \in Requests : req'[q] = (IF q = r THEN IdleRequest ELSE req[q])
    BY <1>1 DEF Respond, ReviewInv, TypeOK
  <1>6. Exclusive'
    BY <1>3, <1>5 DEF ReviewInv, Exclusive, IdleRequest
  <1> QED BY <1>4, <1>6

LEMMA NextReviewInv == ReviewInv /\ [Next]_vars => ReviewInv'
  <1> SUFFICES ASSUME ReviewInv, [Next]_vars PROVE ReviewInv'
    OBVIOUS
  <1>1. TypeOK'
    BY NextTypeOK DEF ReviewInv
  <1>2. CASE UNCHANGED vars
    BY <1>1, <1>2 DEF vars, ReviewInv, Exclusive, ClockFresh, Timed, ClaimClose, InHandAlive,
                      SignsStale, Usable, Witnessed, ReviewSound
  <1>3. CASE Tick
    BY <1>1, <1>3, TickStep DEF ReviewInv
  <1>4. CASE \E new \in Tokens : ChangeToken(new)
    BY <1>1, <1>4, TokenStep DEF ReviewInv
  <1>5. ASSUME NEW r \in Requests, NEW wellFormed, Arrive(r, wellFormed) PROVE ReviewInv'
    BY <1>1, <1>5, ArriveStep DEF ReviewInv
  <1>6. ASSUME NEW r \in Requests, Serve(r) PROVE ReviewInv'
    BY <1>1, <1>6, AssertionSteps, SignStep, IntrospectStep DEF ReviewInv, Serve
  <1> QED BY <1>2, <1>3, <1>4, <1>5, <1>6 DEF Next

LEMMA ReviewInvariant == Spec => []ReviewInv
  BY InitReviewInv, NextReviewInv, PTL DEF Spec

-----------------------------------------------------------------------------
(* The theorems *)

(* getCachedAssertion, createAndCacheAssertion: if the refresh margin covers a second and
   the lag, no request goes out with an assertion whose exp claim has passed. *)
THEOREM AssertionsAlive == Spec => []AssertionAlive
  <1>1. ReviewInv => AssertionAlive
    BY Records, ClockAssumption
       DEF ReviewInv, AssertionAlive, InHandAlive, ClockFresh, Timed
  <1> QED BY <1>1, ReviewInvariant, PTL

(* The double check of createAndCacheAssertion: an assertion that could still be used is
   never replaced by another. *)
THEOREM SignedOnce == Spec => NoDuplicateSigning
  <1>1. ReviewInv /\ [Next]_vars => [cache' # cache => ~Usable(now)]_vars
    <2> SUFFICES ASSUME ReviewInv, Next, cache' # cache PROVE ~Usable(now)
      OBVIOUS
    <2>1. PICK r \in Requests : Sign(r)
      BY DEF Next, Tick, ChangeToken, Arrive, Serve, ReadClock, GetCachedAssertion, Lock,
             DoubleCheck, Introspect
    <2>2. ~Usable(req[r].at) /\ req[r].at <= now
      BY <2>1 DEF Sign, ReviewInv, SignsStale, ClockFresh, Timed
    <2> QED BY <2>2, Records, DurationsAssumption DEF Usable, ReviewInv
  <1> QED BY <1>1, ReviewInvariant, PTL DEF Spec, NoDuplicateSigning

(* webhook.go, response.go: whatever an authenticated answer says of the token was true
   at some time while the request was served. *)
THEOREM ReviewsSound == Spec => []ReviewSound
  <1>1. ReviewInv => ReviewSound
    BY DEF ReviewInv
  <1> QED BY <1>1, ReviewInvariant, PTL

=============================================================================
