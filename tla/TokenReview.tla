---------------------------- MODULE TokenReview ----------------------------
(***************************************************************************)
(* The authentication webhook (internal/webhook/webhook.go, response.go,   *)
(* http.go) and its Introspector (pkg/token/introspector.go).  Requests    *)
(* are served concurrently; they share the signed client assertion the     *)
(* Introspector caches under a read-write lock.  One bearer token is       *)
(* reviewed, whose state changes in Zitadel while requests are under way.  *)
(*                                                                         *)
(* Time is counted in ticks, Second of them to a second: expiresAt is kept *)
(* to the tick, the exp claim of the assertion is cut down to the second.  *)
(* A goroutine may be held up between reading the clock and sending the    *)
(* request, for MaxLag ticks at most.                                      *)
(***************************************************************************)
EXTENDS Integers

CONSTANTS
    Requests,       \* requests that may be served at the same time
    Expiration,     \* jwtExpiration
    RefreshBefore,  \* jwtRefreshBefore
    Second,
    MaxLag,
    MaxTime,        \* bound on the clock
    MaxReviews,     \* bound on the requests
    MaxFaults       \* bound on failed calls

\* NewIntrospector refuses other durations
ASSUME DurationsAssumption == Expiration \in Nat \ {0} /\ RefreshBefore \in Nat
ASSUME ClockAssumption == Second \in Nat \ {0} /\ MaxLag \in Nat
\* "noOne" stands for nobody holding the lock
ASSUME RequestsAssumption == "noOne" \notin Requests
ASSUME BoundsAssumption == MaxTime \in Nat /\ MaxReviews \in Nat /\ MaxFaults \in Nat

VARIABLES
    now,        \* the clock
    token,      \* what Zitadel knows of the reviewed token and its owner
    cache,      \* cachedAssertion and assertionExpiresAt
    writer,     \* the request that holds the write lock
    req,        \* the requests
    answer,     \* the last TokenReview answered to each
    seen,       \* history: what was true of the token at some time of the request
    reviews, faults

vars == <<now, token, cache, writer, req, answer, seen, reviews, faults>>

-----------------------------------------------------------------------------
(* Data *)

\* name is the claim EffectiveUsername finds: email (a human), machine (client_id, or
\* else username) or none; verified: the address is proven
Tokens == [active : BOOLEAN, name : {"email", "machine", "none"}, verified : BOOLEAN]
Seen == [active : BOOLEAN, verified : BOOLEAN]

\* expires is assertionExpiresAt, exp the claim in the signed JWT
Assertions == [expires : Int, exp : Int]
NoAssertion == [expires |-> 0, exp |-> 0]
CacheEntries == [set : BOOLEAN, jwt : Assertions]

\* at is the last reading of the clock, jwt the assertion in hand
RequestRecords == [pc : {"idle", "start", "rlock", "lock", "locked", "sign", "send"},
                   at : Int, jwt : Assertions]
IdleRequest == [pc |-> "idle", at |-> 0, jwt |-> NoAssertion]

\* verified is the emailVerified extra key, absent when the key is left off
Reviews == [authenticated : BOOLEAN, verified : {"true", "false", "absent"}]
Denied == [authenticated |-> FALSE, verified |-> "absent"]

NoOne == "noOne"

TypeOK ==
    /\ now \in Nat
    /\ token \in Tokens
    /\ cache \in CacheEntries
    /\ writer \in Requests \cup {NoOne}
    /\ req \in [Requests -> RequestRecords]
    /\ answer \in [Requests -> Reviews]
    /\ seen \in [Requests -> Seen]
    /\ reviews \in Nat
    /\ faults \in Nat

Init ==
    /\ now = 0
    /\ token \in Tokens
    /\ cache = [set |-> FALSE, jwt |-> NoAssertion]
    /\ writer = NoOne
    /\ req = [r \in Requests |-> IdleRequest]
    /\ answer = [r \in Requests |-> Denied]
    /\ seen = [r \in Requests |-> [active |-> FALSE, verified |-> FALSE]]
    /\ reviews = 0
    /\ faults = 0

Fault == faults < MaxFaults /\ faults' = faults + 1
NoFault == UNCHANGED faults

-----------------------------------------------------------------------------
(* The surroundings *)

\* Holds a reading of the clock on which an assertion is or will be handed out
Timed(r) == req[r].pc \in {"rlock", "sign", "send"}

Tick ==
    /\ now < MaxTime
    /\ \A r \in Requests : Timed(r) => now - req[r].at < MaxLag
    /\ now' = now + 1
    /\ UNCHANGED <<token, cache, writer, req, answer, seen, reviews, faults>>

\* The token is revoked or expires, or its owner proves or replaces the address.
ChangeToken(new) ==
    /\ new # token
    /\ new.name = token.name
    /\ new.active => token.active
    /\ token' = new
    /\ seen' = [r \in Requests |->
                  IF req[r].pc = "idle" THEN seen[r]
                  ELSE [active   |-> seen[r].active \/ new.active,
                        verified |-> seen[r].verified \/ new.verified]]
    /\ UNCHANGED <<now, cache, writer, req, answer, reviews, faults>>

-----------------------------------------------------------------------------
(* The webhook *)

Goto(r, pc) == req' = [req EXCEPT ![r].pc = pc] /\ UNCHANGED answer
Respond(r, review) ==
    /\ req' = [req EXCEPT ![r] = IdleRequest]
    /\ answer' = [answer EXCEPT ![r] = review]

\* ServeHTTP and the handler up to Introspect.  A body that cannot be decoded and
\* an empty token are denied at once.
Arrive(r, wellFormed) ==
    /\ req[r].pc = "idle"
    /\ reviews < MaxReviews
    /\ reviews' = reviews + 1
    /\ seen' = [seen EXCEPT ![r] = [active |-> token.active, verified |-> token.verified]]
    /\ IF wellFormed THEN Goto(r, "start") ELSE Respond(r, Denied)
    /\ UNCHANGED <<now, token, cache, writer, faults>>

\* Only the presence of an assertion is looked at
Usable_Any(t) == cache.set
\* now.Add(jwtRefreshBefore).Before(assertionExpiresAt)
Usable(t) == cache.set /\ t + RefreshBefore < cache.jwt.expires

\* getCachedAssertion reads the clock before it takes the read lock ...
ReadClock(r) ==
    /\ req[r].pc = "start"
    /\ req' = [req EXCEPT ![r].pc = "rlock", ![r].at = now]
    /\ UNCHANGED <<now, token, cache, writer, answer, seen, reviews, faults>>

\* ... which is free when nobody writes.
GetCachedAssertion(r) ==
    /\ req[r].pc = "rlock"
    /\ writer = NoOne
    /\ req' = [req EXCEPT ![r] = IF Usable(req[r].at)
                                   THEN [@ EXCEPT !.pc = "send", !.jwt = cache.jwt]
                                   ELSE [@ EXCEPT !.pc = "lock"]]
    /\ UNCHANGED <<now, token, cache, writer, answer, seen, reviews, faults>>

\* createAndCacheAssertion: take the write lock ...
Lock(r) ==
    /\ req[r].pc = "lock"
    /\ writer = NoOne
    /\ writer' = r
    /\ Goto(r, "locked")
    /\ UNCHANGED <<now, token, cache, seen, reviews, faults>>

\* The second check is left out
StillUsable_Never(t) == FALSE
StillUsable(t) == Usable(t)

\* ... read the clock and look again ...
DoubleCheck(r) ==
    /\ req[r].pc = "locked"
    /\ IF StillUsable(now)
         THEN /\ req' = [req EXCEPT ![r].pc = "send", ![r].at = now, ![r].jwt = cache.jwt]
              /\ writer' = NoOne
         ELSE /\ req' = [req EXCEPT ![r].pc = "sign", ![r].at = now]
              /\ UNCHANGED writer
    /\ UNCHANGED <<now, token, cache, answer, seen, reviews, faults>>

\* expiresAt, and its Unix() in the exp claim
BuildSignedJWT(issuedAt) ==
    LET expires == issuedAt + Expiration IN
    [expires |-> expires, exp |-> expires - (expires % Second)]

\* The error path returns with the lock held
AfterSignError_Locked(r) == r
AfterSignError(r) == NoOne

\* ... and sign and cache a new one.
Sign(r) ==
    /\ req[r].pc = "sign"
    /\ \/ LET jwt == BuildSignedJWT(req[r].at) IN
          /\ cache' = [set |-> TRUE, jwt |-> jwt]
          /\ req' = [req EXCEPT ![r].pc = "send", ![r].jwt = jwt]
          /\ writer' = NoOne
          /\ UNCHANGED answer
          /\ NoFault
       \/ /\ Respond(r, Denied)
          /\ writer' = AfterSignError(r)
          /\ UNCHANGED cache
          /\ Fault
    /\ UNCHANGED <<now, token, seen, reviews>>

\* The key is left off when Zitadel leaves off the claim
EmailVerifiedKey_FromWire(t) == IF t.name = "email" /\ t.verified THEN "true" ELSE "absent"
\* The handler after Introspect.  Zitadel leaves a false email_verified off the wire
\* and the decoder reads that as false; only a token with no email has no key.  An
\* active token is denied when EffectiveUsername finds none of the three claims.
EmailVerifiedKey(t) ==
    IF t.name # "email" THEN "absent" ELSE IF t.verified THEN "true" ELSE "false"
Review(t) ==
    IF t.active /\ t.name # "none"
      THEN [authenticated |-> TRUE, verified |-> EmailVerifiedKey(t)]
      ELSE Denied

\* The introspection call; Zitadel refuses an assertion that has expired.
Introspect(r) ==
    /\ req[r].pc = "send"
    /\ \/ Respond(r, IF req[r].jwt.exp > now THEN Review(token) ELSE Denied) /\ NoFault
       \/ Respond(r, Denied) /\ Fault
    /\ UNCHANGED <<now, token, cache, writer, seen, reviews>>

Serve(r) ==
    \/ ReadClock(r)
    \/ GetCachedAssertion(r)
    \/ Lock(r)
    \/ DoubleCheck(r)
    \/ Sign(r)
    \/ Introspect(r)

Next ==
    \/ Tick
    \/ \E new \in Tokens : ChangeToken(new)
    \/ \E r \in Requests : (\E wellFormed \in BOOLEAN : Arrive(r, wellFormed)) \/ Serve(r)

Spec == Init /\ [][Next]_vars
\* The server runs the goroutine of every request it accepted, and the lock is fair.
FairSpec == Spec /\ \A r \in Requests : WF_vars(Serve(r))

-----------------------------------------------------------------------------
(* Properties *)

\* The leeway covers the second the exp claim loses and the time a goroutine is
\* held up; the defaults (5 minutes of an hour) do by far.
Leeway == RefreshBefore >= Second + MaxLag /\ Expiration >= Second + MaxLag

\* The cached assertion is "still valid" when it is used: no request goes out with
\* an assertion whose exp claim has passed, whoever signed it and however long the
\* goroutine waited for the lock (getCachedAssertion, createAndCacheAssertion).
AssertionAlive ==
    Leeway => \A r \in Requests : req[r].pc = "send" => req[r].jwt.exp > now

\* "Implements double-check pattern to avoid duplicate JWT creation": an assertion
\* that could still be used is never replaced.
NoDuplicateSigning == [][cache' # cache => ~Usable(now)]_vars

\* An authenticated answer is true of some moment of the request: the token was
\* active and names its owner, a "true" key stands for a proven address, and the key is
\* absent just for a machine (webhook.go; response.go: "Presence is the signal").
ReviewSound ==
    \A r \in Requests : req[r].pc = "idle" /\ answer[r].authenticated =>
        /\ seen[r].active
        /\ answer[r].verified = "true" => seen[r].verified
        /\ token.name = IF answer[r].verified = "absent" THEN "machine" ELSE "email"

\* Every review is answered: nobody keeps the lock, whatever fails under it.
EveryReviewAnswered == \A r \in Requests : req[r].pc # "idle" ~> req[r].pc = "idle"

=============================================================================
