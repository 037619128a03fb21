------------------------- MODULE IdentityAPIProofs -------------------------
(***************************************************************************)
(* Proofs about IdentityAPI, for any number of handlers, service accounts, *)
(* keys, sessions, passkeys and providers, any page size, and any number   *)
(* of requests, changes and failures.                                      *)
(***************************************************************************)
EXTENDS IdentityAPI, FiniteSetTheorems, TLAPS

-----------------------------------------------------------------------------
(* The inductive invariant *)

\* What Zitadel keeps: an account that exists has a generation; a key is registered for
\* a generation its account has reached, and is there only while that one is; a deleted
\* person has nothing, and what is over does not come back.
WorldSound ==
    /\ \A n \in Names : account[n].exists => account[n].gen >= 1
    /\ \A k \in Keys : owner[k] # None => owner[k][2] <= account[owner[k][1]].gen
    /\ \A k \in live : owner[k] # None /\ account[owner[k][1]].exists /\ owner[k] = Generation(owner[k][1])
    /\ ~person => things = {}
    /\ things \cap ended = {}

\* The questions clients ask
Asked(h) == LET r == req[h] IN
    /\ r.kind = "key" => r.own
    /\ r.op = "create" => r.kind = "key"
    /\ r.kind = "key" /\ r.op \in {"get", "delete"} => r.obj \in Keys /\ owner[r.obj] # None
    /\ r.kind \in {"passkey", "identity"} => r.op \in {"list", "get"}
    /\ r.kind = "session" /\ r.op # "list" => r.obj \in Sessions

\* The questions each step is there for
KeySteps == {"lookup", "addKey", "listAccounts", "listKeys", "lookupOwner", "removeKey"}
Placed(h) == LET r == req[h] IN
    /\ r.pc # "done" => r.kind # "" /\ (r.kind = "key" <=> r.pc \in KeySteps)
    /\ r.pc = "lookup" => r.op \in {"create", "list"} /\ r.name # None
    /\ r.pc = "addKey" => r.op = "create" /\ r.name # None
    /\ r.pc \in {"listAccounts", "listKeys"} => r.op \in {"list", "get", "delete"}
    /\ r.pc = "listAccounts" => r.name = None
    /\ r.pc \in {"lookupOwner", "removeKey"} => r.op = "delete"
    /\ r.pc = "review" => r.op = "list"
    /\ r.pc = "local" => r.kind = "identity"

\* What the request asks about, as it is now, lies between what the history kept
Now(h) == Existing(req[h])
Watched(h) == req[h].pc # "done" => was[h].always \subseteq Now(h) /\ Now(h) \subseteq was[h].ever

\* What a handler carries from one call to the next is still good for the next, whatever
\* happened between them: the listing so far, the account found again by its name, the
\* links that were missing, the permission.
Knows(h) == LET r == req[h] IN
    /\ r.kind = "key" /\ r.pc # "done" => r.seen \subseteq was[h].ever
    /\ r.pc = "listKeys" /\ ~r.cut => \A k \in was[h].always : k \in r.seen \/ owner[k] \in r.todo
    /\ r.pc = "listKeys" /\ r.op = "list" /\ r.name # None => \A u \in r.todo : u[1] = r.name
    /\ r.pc = "addKey" /\ r.name \in was[h].always => account[r.name].exists /\ r.user = Generation(r.name)
    /\ r.pc = "removeKey" =>
          /\ r.user \in MachineUser /\ r.user[1] = owner[r.obj][1]
          /\ owner[r.obj][2] <= r.user[2] /\ r.user[2] <= account[r.user[1]].gen
    /\ r.pc = "local" => /\ person /\ HasLoginName => "local" \in was[h].ever
                         /\ was[h].always \subseteq IF HasLoginName THEN {"local"} ELSE {}
    /\ r.pc \in {"fetch", "local"} /\ r.op = "list" /\ ~r.own => was[h].granted

\* What the answers say, in a form no later step can make false
Verdict(h) == LET r == req[h] IN r.pc = "done" =>
    /\ r.op = "get" /\ r.ans = "ok" => r.obj \in was[h].ever
    /\ r.op \in {"get", "delete"} /\ r.ans = "notFound" =>
          \/ r.obj \notin was[h].always
          \/ r.cut
          \/ r.kind = "key" /\ owner[r.obj] # None /\ owner[r.obj][1] \in Suffixed
    /\ r.ans = "deleted" => \/ r.kind = "key" /\ r.op = "delete" /\ r.obj \notin live
                            \/ r.kind = "session" /\ r.obj \in ended
    /\ r.op = "list" /\ r.ans = "ok" =>
          /\ r.seen \subseteq was[h].ever
          /\ ~r.cut => was[h].always \subseteq r.seen
          /\ ~r.own => was[h].granted
    /\ r.op = "create" /\ r.ans = "notFound" => r.name \notin was[h].always

HandlerSound(h) == Asked(h) /\ Placed(h) /\ Watched(h) /\ Knows(h) /\ Verdict(h)

AnswerInv == TypeOK /\ WorldSound /\ \A h \in Handlers : HandlerSound(h)

-----------------------------------------------------------------------------
(* Machine users and pages *)

LEMMA MachineUserFacts ==
  ASSUME NEW u \in MachineUser
  PROVE  u = <<u[1], u[2]>> /\ u[1] \in Names /\ u[2] \in 1 .. MaxGeneration /\ u # None
  BY NoneAssumption DEF MachineUser

LEMMA GenerationFacts ==
  ASSUME TypeOK, WorldSound, NEW n \in Names, account[n].exists
  PROVE  /\ Generation(n) \in MachineUser /\ Generation(n) \in MachineUsers
         /\ Generation(n)[1] = n /\ Generation(n)[2] = account[n].gen
  <1>1. account[n].gen \in 1 .. MaxGeneration
    BY ConstantsAssumption DEF TypeOK, WorldSound
  <1> QED BY <1>1 DEF Generation, MachineUser, MachineUsers

LEMMA MachineUsersFacts ==
  ASSUME TypeOK, WorldSound, NEW u \in MachineUsers
  PROVE  u \in MachineUser /\ account[u[1]].exists /\ u = Generation(u[1])
  <1>1. PICK n \in Names : account[n].exists /\ u = Generation(n)
    BY DEF MachineUsers
  <1> QED BY <1>1, GenerationFacts

LEMMA LiveKeyFacts ==
  ASSUME TypeOK, WorldSound, NEW k \in live
  PROVE  /\ k \in Keys /\ owner[k] \in MachineUsers /\ owner[k] \in MachineUser
         /\ account[owner[k][1]].exists /\ owner[k] = Generation(owner[k][1])
  <1>1. k \in Keys /\ owner[k] \in MachineUser
    BY DEF TypeOK, WorldSound
  <1>2. owner[k][1] \in Names
    BY <1>1, MachineUserFacts
  <1> QED BY <1>1, <1>2, GenerationFacts DEF WorldSound

LEMMA PageFacts ==
  ASSUME NEW rows, NEW p \in Page(rows)
  PROVE  p \subseteq rows
  BY DEF Page

LEMMA KeysOfFacts ==
  ASSUME TypeOK, NEW u
  PROVE  KeysOf(u) \subseteq live /\ KeysOf(u) \subseteq Objects
  BY DEF KeysOf, TypeOK, Objects

-----------------------------------------------------------------------------
(* What a listing holds *)

LEMMA NowFacts ==
  ASSUME NEW h
  PROVE  /\ req[h].kind = "key" /\ req[h].op = "create" =>
              Now(h) = {n \in Names : n = req[h].name /\ account[n].exists}
         /\ req[h].kind = "key" /\ req[h].op # "create" =>
              Now(h) = {k \in live : req[h].op = "list" /\ req[h].name # None => owner[k][1] = req[h].name}
         /\ req[h].kind = "session" => Now(h) = things \cap Sessions
         /\ req[h].kind = "passkey" => Now(h) = things \cap Passkeys
         /\ req[h].kind = "identity" => Now(h) = Identities
         /\ req[h].kind = "" => Now(h) = {}
  BY DEF Now, Existing

LEMMA NowFactsNext ==
  ASSUME NEW h
  PROVE  /\ req'[h].kind = "key" /\ req'[h].op = "create" =>
              Now(h)' = {n \in Names : n = req'[h].name /\ account'[n].exists}
         /\ req'[h].kind = "key" /\ req'[h].op # "create" =>
              Now(h)' = {k \in live' : req'[h].op = "list" /\ req'[h].name # None => owner'[k][1] = req'[h].name}
         /\ req'[h].kind = "session" => Now(h)' = things' \cap Sessions
         /\ req'[h].kind = "passkey" => Now(h)' = things' \cap Passkeys
         /\ req'[h].kind = "identity" => Now(h)' = Identities'
         /\ req'[h].kind = "" => Now(h)' = {}
  BY DEF Now, Existing

LEMMA NowType ==
  ASSUME NEW h \in Handlers, TypeOK
  PROVE  Now(h) \subseteq Objects
  <1>1. req[h].kind \in {"", "key", "session", "passkey", "identity"}
    BY DEF TypeOK, RequestRecords
  <1>2. /\ live \subseteq Objects /\ things \subseteq Objects /\ Identities \subseteq Objects
        /\ Names \subseteq Objects
    BY DEF TypeOK, Objects, Identities
  <1> QED BY <1>1, <1>2, NowFacts

-----------------------------------------------------------------------------
(* Records *)

LEMMA AnsweredFacts ==
  ASSUME NEW r \in RequestRecords, NEW a \in Answers
  PROVE  LET d == Answered(r, a) IN
         /\ d \in RequestRecords
         /\ d.kind = r.kind /\ d.op = r.op /\ d.name = r.name /\ d.obj = r.obj /\ d.own = r.own
         /\ d.seen = r.seen /\ d.cut = r.cut
         /\ d.pc = "done" /\ d.ans = a /\ d.user = None /\ d.todo = {}
  BY DEF Answered, RequestRecords, Steps

\* A step of a request keeps what was asked (Create names the object it made).
SameQuestion(r, s) ==
    /\ s.kind = r.kind /\ s.op = r.op /\ s.name = r.name /\ s.own = r.own
    /\ s.op # "create" => s.obj = r.obj

LEMMA AnswerMoves ==
  ASSUME TypeOK, NEW h \in Handlers, NEW a \in Answers, Answer(h, a)
  PROVE  /\ req' = [req EXCEPT ![h] = Answered(req[h], a)]
         /\ Answered(req[h], a) \in RequestRecords /\ SameQuestion(req[h], Answered(req[h], a))
         /\ req'[h].kind = req[h].kind /\ req'[h].op = req[h].op /\ req'[h].obj = req[h].obj
         /\ req'[h].seen = req[h].seen /\ req'[h].cut = req[h].cut /\ req'[h].own = req[h].own
         /\ req'[h].pc = "done" /\ req'[h].ans = a /\ req'[h].name = req[h].name
  <1>1. req[h] \in RequestRecords /\ req \in [Handlers -> RequestRecords]
    BY DEF TypeOK
  <1>2. req' = [req EXCEPT ![h] = Answered(req[h], a)]
    BY DEF Answer, Become
  <1>3. req'[h] = Answered(req[h], a)
    BY <1>1, <1>2
  <1> QED BY <1>1, <1>2, <1>3, AnsweredFacts DEF SameQuestion

LEMMA AfterListingFacts ==
  ASSUME NEW r \in RequestRecords, r.op \in {"list", "get", "delete"}
  PROVE  /\ AfterListing(r) \in RequestRecords /\ SameQuestion(r, AfterListing(r))
         /\ AfterListing(r).seen = r.seen /\ AfterListing(r).cut = r.cut
         /\ \/ AfterListing(r).pc = "done" /\ r.op \in {"list", "get"} /\ AfterListing(r).ans = "ok"
               /\ (r.op = "get" => r.obj \in r.seen)
            \/ AfterListing(r).pc = "done" /\ r.op \in {"get", "delete"} /\ AfterListing(r).ans = "notFound"
               /\ r.obj \notin r.seen
            \/ AfterListing(r).pc = "lookupOwner" /\ r.op = "delete"
  <1> DEFINE Is(d, a) == /\ d \in RequestRecords /\ SameQuestion(r, d) /\ d.seen = r.seen /\ d.cut = r.cut
                         /\ d.pc = "done" /\ d.ans = a
  <1>1. Is(Answered(r, "ok"), "ok") /\ Is(Answered(r, "notFound"), "notFound")
    BY AnsweredFacts DEF Answers, SameQuestion
  <1>2. CASE r.op = "list" \/ (r.op = "get" /\ r.obj \in r.seen)
    <2>1. AfterListing(r) = Answered(r, "ok")
      BY <1>2 DEF AfterListing
    <2> QED BY <1>1, <1>2, <2>1
  <1>3. CASE r.op # "list" /\ r.obj \notin r.seen
    <2>1. AfterListing(r) = Answered(r, "notFound")
      BY <1>3 DEF AfterListing
    <2> QED BY <1>1, <1>3, <2>1
  <1>5. CASE r.op = "delete" /\ r.obj \in r.seen
    <2>1. AfterListing(r) = [r EXCEPT !.pc = "lookupOwner"]
      BY <1>5 DEF AfterListing
    <2>2. [r EXCEPT !.pc = "lookupOwner"] \in RequestRecords
      BY DEF RequestRecords, Steps
    <2> QED BY <1>5, <2>1, <2>2 DEF SameQuestion, RequestRecords
  <1> QED BY <1>2, <1>3, <1>5

LEMMA ContinueFacts ==
  ASSUME NEW r \in RequestRecords, r.op \in {"list", "get", "delete"}
  PROVE  /\ Continue(r) \in RequestRecords /\ SameQuestion(r, Continue(r))
         /\ Continue(r).seen = r.seen /\ Continue(r).cut = r.cut
         /\ \/ Continue(r).pc = "listKeys" /\ Continue(r).todo = r.todo
            \/ r.todo = {} /\ Continue(r) = AfterListing(r)
  <1>1. CASE r.todo = {}
    BY <1>1, AfterListingFacts DEF Continue
  <1>2. CASE r.todo # {}
    <2>1. Continue(r) = [r EXCEPT !.pc = "listKeys"]
      BY <1>2 DEF Continue
    <2>2. [r EXCEPT !.pc = "listKeys"] \in RequestRecords
      BY DEF RequestRecords, Steps
    <2> QED BY <2>1, <2>2 DEF SameQuestion, RequestRecords
  <1> QED BY <1>1, <1>2

LEMMA FoundFacts ==
  ASSUME NEW r \in RequestRecords, NEW rows \in SUBSET Objects
  PROVE  /\ Found(r, rows) \in RequestRecords /\ SameQuestion(r, Found(r, rows))
         /\ Found(r, rows).pc = "done"
         /\ \/ r.op = "get" /\ r.obj \notin rows /\ Found(r, rows).ans = "notFound"
            \/ /\ (r.op = "get" => r.obj \in rows) /\ Found(r, rows).ans = "ok"
               /\ Found(r, rows).seen = rows /\ Found(r, rows).user = None
  <1>1. CASE r.op = "get" /\ r.obj \notin rows
    <2> DEFINE a == Answered(r, "notFound")
    <2>1. a \in RequestRecords /\ SameQuestion(r, a) /\ a.pc = "done" /\ a.ans = "notFound"
      BY AnsweredFacts DEF Answers, SameQuestion
    <2>2. Found(r, rows) = a
      BY <1>1 DEF Found
    <2> HIDE DEF a
    <2> QED BY <1>1, <2>1, <2>2
  <1>2. CASE ~(r.op = "get" /\ r.obj \notin rows)
    <2> DEFINE a == Answered(r, "ok")
    <2>1. a \in RequestRecords /\ SameQuestion(r, a) /\ a.pc = "done" /\ a.ans = "ok" /\ a.user = None
      BY AnsweredFacts DEF Answers, SameQuestion
    <2>2. Found(r, rows) = [a EXCEPT !.seen = rows]
      BY <1>2 DEF Found
    <2> HIDE DEF a
    <2> QED BY <1>2, <2>1, <2>2 DEF RequestRecords, SameQuestion
  <1> QED BY <1>1, <1>2

LEMMA FoundCut ==
  ASSUME NEW r \in RequestRecords, NEW rows \in SUBSET Objects, NEW cut \in BOOLEAN
  PROVE  /\ [Found(r, rows) EXCEPT !.cut = cut] \in RequestRecords
         /\ SameQuestion(r, [Found(r, rows) EXCEPT !.cut = cut])
         /\ [Found(r, rows) EXCEPT !.cut = cut].cut = cut
         /\ [Found(r, rows) EXCEPT !.cut = cut].pc = "done"
         /\ \/ r.op = "get" /\ r.obj \notin rows /\ [Found(r, rows) EXCEPT !.cut = cut].ans = "notFound"
            \/ /\ (r.op = "get" => r.obj \in rows) /\ [Found(r, rows) EXCEPT !.cut = cut].ans = "ok"
               /\ [Found(r, rows) EXCEPT !.cut = cut].seen = rows
               /\ [Found(r, rows) EXCEPT !.cut = cut].user = None
  <1> DEFINE f == Found(r, rows)
  <1>1. /\ f \in RequestRecords /\ SameQuestion(r, f) /\ f.pc = "done"
        /\ \/ r.op = "get" /\ r.obj \notin rows /\ f.ans = "notFound"
           \/ (r.op = "get" => r.obj \in rows) /\ f.ans = "ok" /\ f.seen = rows /\ f.user = None
    BY FoundFacts
  <1> HIDE DEF f
  <1> SUFFICES LET g == [f EXCEPT !.cut = cut] IN
               /\ g \in RequestRecords /\ SameQuestion(r, g) /\ g.cut = cut /\ g.pc = "done"
               /\ g.ans = f.ans /\ g.seen = f.seen /\ g.user = f.user
    BY <1>1 DEF f
  <1> QED BY <1>1 DEF RequestRecords, SameQuestion

-----------------------------------------------------------------------------
(* What Zitadel and milo keep *)

WorldType ==
    /\ account \in [Names -> [gen : 0 .. MaxGeneration, exists : BOOLEAN]]
    /\ owner \in [Keys -> MachineUser \cup {None}]
    /\ live \subseteq Keys /\ given \subseteq Keys
    /\ person \in BOOLEAN /\ grant \in BOOLEAN
    /\ things \subseteq Things /\ ended \subseteq Things
    /\ requests \in Nat /\ changes \in Nat /\ faults \in Nat

\* What a handler found stays true in this much: a key keeps the account it was made for,
\* and neither it nor a session, a passkey or the person comes back; a service account
\* comes back as another machine user.
Onward ==
    /\ \A k \in Keys : owner[k] # None => owner'[k] = owner[k] /\ (k \in live' => k \in live)
    /\ \A n \in Names : /\ account[n].gen <= account'[n].gen
                        /\ account[n].exists => account'[n].gen = account[n].gen
    /\ ended \subseteq ended'
    /\ person' => person

LEMMA ReadsWorld ==
  ASSUME TypeOK, WorldSound, UNCHANGED <<keyVars, given, personVars>>,
         requests' \in Nat, changes' \in Nat, faults' \in Nat
  PROVE  WorldType' /\ WorldSound' /\ Onward
  <1>1. /\ account' = account /\ owner' = owner /\ live' = live /\ given' = given
        /\ person' = person /\ things' = things /\ ended' = ended /\ grant' = grant
    BY DEF keyVars, personVars
  <1>2. \A n \in Names : account[n].gen \in Nat
    BY DEF TypeOK
  <1> QED BY <1>1, <1>2 DEF TypeOK, WorldType, WorldSound, Onward, Generation

LEMMA CreateAccountWorld ==
  ASSUME TypeOK, WorldSound, NEW n \in Names, CreateAccount(n)
  PROVE  WorldType' /\ WorldSound' /\ Onward
  <1> DEFINE new == [gen |-> account[n].gen + 1, exists |-> TRUE]
  <1>1. account[n].gen \in 0 .. MaxGeneration /\ account[n].gen < MaxGeneration /\ ~account[n].exists
    BY DEF TypeOK, CreateAccount
  <1>2. /\ new \in [gen : 0 .. MaxGeneration, exists : BOOLEAN]
        /\ new.gen = account[n].gen + 1 /\ new.exists
    BY <1>1, ConstantsAssumption
  <1>3. account' = [account EXCEPT ![n] = new]
    BY DEF CreateAccount
  <1> HIDE DEF new
  <1>4. /\ owner' = owner /\ live' = live /\ given' = given /\ requests' = requests /\ faults' = faults
        /\ changes' = changes + 1
        /\ person' = person /\ things' = things /\ ended' = ended /\ grant' = grant
    BY DEF CreateAccount, Change, personVars
  <1>5. WorldType'
    BY <1>2, <1>3, <1>4 DEF TypeOK, WorldType
  <1>6. /\ account'[n] = new
        /\ \A m \in Names : m # n => account'[m] = account[m]
        /\ \A m \in Names : account[m].gen \in Nat /\ account'[m].gen \in Nat
        /\ \A m \in Names : account[m].gen <= account'[m].gen
        /\ \A m \in Names : account[m].exists => account'[m].gen = account[m].gen
    BY <1>1, <1>2, <1>3 DEF TypeOK
  <1>7. \A m \in Names : account'[m].exists => account'[m].gen >= 1
    BY <1>1, <1>2, <1>6 DEF WorldSound
  <1>8. \A k \in Keys : owner[k] # None => owner[k][2] <= account'[owner[k][1]].gen
    <2> SUFFICES ASSUME NEW k \in Keys, owner[k] # None PROVE owner[k][2] <= account'[owner[k][1]].gen
      OBVIOUS
    <2>1. owner[k] \in MachineUser
      BY DEF TypeOK
    <2>2. owner[k][1] \in Names /\ owner[k][2] \in 1 .. MaxGeneration
      BY <2>1, MachineUserFacts
    <2> QED BY <1>6, <2>2, ConstantsAssumption DEF WorldSound
  <1>9. \A k \in live : /\ owner[k] # None /\ account'[owner[k][1]].exists
                        /\ owner[k] = <<owner[k][1], account'[owner[k][1]].gen>>
    <2> SUFFICES ASSUME NEW k \in live
                 PROVE  /\ owner[k] # None /\ account'[owner[k][1]].exists
                        /\ owner[k] = <<owner[k][1], account'[owner[k][1]].gen>>
      OBVIOUS
    <2>1. owner[k] \in MachineUser /\ account[owner[k][1]].exists /\ owner[k] = Generation(owner[k][1])
      BY LiveKeyFacts
    <2>2. owner[k][1] \in Names /\ owner[k] # None
      BY <2>1, MachineUserFacts
    <2>3. account'[owner[k][1]] = account[owner[k][1]]
      BY <1>1, <1>6, <2>1, <2>2
    <2> QED BY <2>1, <2>2, <2>3 DEF Generation
  <1> QED BY <1>4, <1>5, <1>6, <1>7, <1>8, <1>9 DEF WorldSound, Onward, Generation

LEMMA DeleteAccountWorld ==
  ASSUME TypeOK, WorldSound, NEW n \in Names, DeleteAccount(n)
  PROVE  WorldType' /\ WorldSound' /\ Onward
  <1> DEFINE new == [account[n] EXCEPT !.exists = FALSE]
  <1>1. /\ new \in [gen : 0 .. MaxGeneration, exists : BOOLEAN]
        /\ new.gen = account[n].gen /\ ~new.exists
    BY DEF TypeOK
  <1>2. account' = [account EXCEPT ![n] = new]
    BY DEF DeleteAccount
  <1> HIDE DEF new
  <1>3. /\ owner' = owner /\ live' = live \ KeysOf(Generation(n)) /\ given' = given
        /\ requests' = requests /\ faults' = faults /\ changes' = changes + 1
        /\ person' = person /\ things' = things /\ ended' = ended /\ grant' = grant
    BY DEF DeleteAccount, Change, personVars
  <1>4. WorldType'
    BY <1>1, <1>2, <1>3 DEF TypeOK, WorldType
  <1>5. /\ account'[n] = new
        /\ \A m \in Names : m # n => account'[m] = account[m]
        /\ \A m \in Names : account[m].gen \in Nat /\ account'[m].gen = account[m].gen
        /\ \A m \in Names : account'[m].exists => account[m].exists
    BY <1>1, <1>2 DEF TypeOK
  <1>6. \A k \in Keys : owner[k] # None => owner[k][2] <= account'[owner[k][1]].gen
    <2> SUFFICES ASSUME NEW k \in Keys, owner[k] # None PROVE owner[k][2] <= account'[owner[k][1]].gen
      OBVIOUS
    <2>1. owner[k] \in MachineUser
      BY DEF TypeOK
    <2>2. owner[k][1] \in Names
      BY <2>1, MachineUserFacts
    <2> QED BY <1>5, <2>2 DEF WorldSound
  <1>7. \A k \in live' : /\ owner[k] # None /\ account'[owner[k][1]].exists
                         /\ owner[k] = <<owner[k][1], account'[owner[k][1]].gen>>
    <2> SUFFICES ASSUME NEW k \in live'
                 PROVE  /\ owner[k] # None /\ account'[owner[k][1]].exists
                        /\ owner[k] = <<owner[k][1], account'[owner[k][1]].gen>>
      OBVIOUS
    <2>1. k \in live /\ owner[k] # Generation(n)
      BY <1>3 DEF KeysOf
    <2>2. owner[k] \in MachineUser /\ account[owner[k][1]].exists /\ owner[k] = Generation(owner[k][1])
      BY <2>1, LiveKeyFacts
    <2>3. owner[k][1] \in Names /\ owner[k] # None /\ owner[k][1] # n
      BY <2>1, <2>2, MachineUserFacts
    <2> QED BY <1>5, <2>2, <2>3 DEF Generation
  <1>8. \A m \in Names : account'[m].exists => account'[m].gen >= 1
    BY <1>5 DEF WorldSound
  <1> QED BY <1>3, <1>4, <1>5, <1>6, <1>7, <1>8 DEF WorldSound, Onward, Generation

LEMMA PersonWorld ==
  ASSUME TypeOK, WorldSound, UNCHANGED keyVars, given' = given,
         requests' \in Nat, changes' \in Nat, faults' \in Nat, grant' \in BOOLEAN,
         person' \in BOOLEAN, person' => person,
         things' \subseteq Things, ended' \subseteq Things, ended \subseteq ended',
         things' \cap ended' = {}, ~person' => things' = {}
  PROVE  WorldType' /\ WorldSound' /\ Onward
  <1>1. account' = account /\ owner' = owner /\ live' = live
    BY DEF keyVars
  <1>2. \A n \in Names : account[n].gen \in Nat
    BY DEF TypeOK
  <1> QED BY <1>1, <1>2 DEF TypeOK, WorldType, WorldSound, Onward, Generation

LEMMA EnvironmentWorld ==
  ASSUME TypeOK, WorldSound, Environment
  PROVE  WorldType' /\ WorldSound' /\ Onward /\ req' = req
  <1>1. req' = req /\ given' = given /\ requests' = requests /\ faults' = faults /\ changes' = changes + 1
    BY DEF Environment, CreateAccount, DeleteAccount, Appear, Disappear, DeletePerson, ChangeGrant, Change
  <1>2. requests' \in Nat /\ faults' \in Nat /\ changes' \in Nat
    BY <1>1 DEF TypeOK
  <1>3. CASE \E n \in Names : CreateAccount(n) \/ DeleteAccount(n)
    BY <1>1, <1>3, CreateAccountWorld, DeleteAccountWorld
  <1>4. ASSUME NEW t \in Things, Appear(t) PROVE WorldType' /\ WorldSound' /\ Onward
    BY <1>1, <1>2, <1>4, PersonWorld DEF Appear, TypeOK, WorldSound
  <1>5. ASSUME NEW t \in Things, Disappear(t) PROVE WorldType' /\ WorldSound' /\ Onward
    BY <1>1, <1>2, <1>5, PersonWorld DEF Disappear, TypeOK, WorldSound
  <1>6. CASE DeletePerson
    BY <1>1, <1>2, <1>6, PersonWorld DEF DeletePerson, TypeOK, WorldSound
  <1>7. CASE ChangeGrant
    BY <1>1, <1>2, <1>7, PersonWorld DEF ChangeGrant, TypeOK, WorldSound
  <1> QED BY <1>1, <1>3, <1>4, <1>5, <1>6, <1>7 DEF Environment

LEMMA RegisterWorld ==
  ASSUME TypeOK, WorldSound, NEW k \in Keys, owner[k] = None, NEW u \in MachineUsers, Register(k, u),
         account' = account, UNCHANGED personVars,
         given' \subseteq Keys, requests' \in Nat, changes' \in Nat, faults' \in Nat
  PROVE  WorldType' /\ WorldSound' /\ Onward /\ owner'[k] = u
  <1>1. u \in MachineUser /\ account[u[1]].exists /\ u = Generation(u[1])
    BY MachineUsersFacts
  <1>2. u # None /\ u[1] \in Names /\ u[2] = account[u[1]].gen /\ account[u[1]].gen \in Nat
    BY <1>1, MachineUserFacts, GenerationFacts DEF TypeOK
  <1>3. /\ owner' = [owner EXCEPT ![k] = u] /\ live' = live \cup {k}
        /\ person' = person /\ things' = things /\ ended' = ended /\ grant' = grant
    BY DEF Register, personVars
  <1>4. /\ owner' \in [Keys -> MachineUser \cup {None}] /\ owner'[k] = u
        /\ \A j \in Keys : j # k => owner'[j] = owner[j]
    BY <1>1, <1>3 DEF TypeOK
  <1>5. WorldType'
    BY <1>3, <1>4 DEF TypeOK, WorldType
  <1>6. k \notin live
    BY DEF WorldSound
  <1>7. \A j \in Keys : owner'[j] # None => owner'[j][2] <= account[owner'[j][1]].gen
    BY <1>2, <1>4 DEF WorldSound
  <1>8. \A j \in live' : /\ owner'[j] # None /\ account[owner'[j][1]].exists
                         /\ owner'[j] = Generation(owner'[j][1])
    BY <1>1, <1>2, <1>3, <1>4 DEF WorldSound, TypeOK
  <1>9. Onward
    <2>1. \A n \in Names : account[n].gen \in Nat
      BY DEF TypeOK
    <2> QED BY <1>3, <1>4, <2>1 DEF Onward
  <1> QED BY <1>3, <1>4, <1>5, <1>7, <1>8, <1>9 DEF WorldSound, Generation

LEMMA RemoveWorld ==
  ASSUME TypeOK, WorldSound, live' \subseteq live,
         UNCHANGED <<account, owner, given, personVars, requests, changes>>, faults' \in Nat
  PROVE  WorldType' /\ WorldSound' /\ Onward
  <1>1. /\ account' = account /\ owner' = owner /\ given' = given
        /\ person' = person /\ things' = things /\ ended' = ended /\ grant' = grant
        /\ requests' = requests /\ changes' = changes
    BY DEF personVars
  <1>2. \A n \in Names : account[n].gen \in Nat
    BY DEF TypeOK
  <1> QED BY <1>1, <1>2 DEF TypeOK, WorldType, WorldSound, Onward, Generation

LEMMA FaultType ==
  ASSUME TypeOK, Fault \/ NoFault
  PROVE  faults' \in Nat
  BY DEF TypeOK, Fault, NoFault

LEMMA ServeFault ==
  ASSUME TypeOK, NEW h \in Handlers, Serve(h)
  PROVE  faults' \in Nat
  <1>1. Fault \/ NoFault
    BY DEF Serve, Lookup, AddKey, ListAccounts, ListKeys, LookupOwner, RemoveKey, RemoveFails, Review,
           ListSessions, ListPasskeys, ListIDPLinks, FetchLocal, GetSession, DeleteSession,
           Listed, Refused, Fails
  <1> QED BY <1>1, FaultType

LEMMA ServeWorld ==
  ASSUME TypeOK, WorldSound, NEW h \in Handlers, Serve(h)
  PROVE  WorldType' /\ WorldSound' /\ Onward
  <1>1. faults' \in Nat /\ requests \in Nat /\ changes \in Nat
    BY ServeFault DEF TypeOK
  <1>2. CASE Reads
    <2>1. UNCHANGED <<keyVars, given, personVars>> /\ requests' \in Nat /\ changes' \in Nat
      BY <1>1, <1>2 DEF Reads
    <2> QED BY <1>1, <2>1, ReadsWorld
  <1>3. CASE AddKey(h)
    <2>1. UNCHANGED <<account, personVars, requests, changes>> /\ requests' \in Nat /\ changes' \in Nat
      BY <1>1, <1>3 DEF AddKey
    <2>2. CASE UNCHANGED <<owner, live, given>>
      <3>1. UNCHANGED <<keyVars, given, personVars>>
        BY <2>1, <2>2 DEF keyVars
      <3> QED BY <1>1, <2>1, <3>1, ReadsWorld
    <2>3. CASE ~UNCHANGED <<owner, live, given>>
      <3>1. PICK k \in Keys : /\ owner[k] = None /\ req[h].user \in MachineUsers /\ Register(k, req[h].user)
                              /\ given' \in {given, given \cup {k}}
        BY <1>3, <2>3 DEF AddKey
      <3>2. given' \subseteq Keys
        BY <3>1 DEF TypeOK
      <3> QED BY <1>1, <2>1, <3>1, <3>2, RegisterWorld
    <2> QED BY <2>2, <2>3
  <1>4. CASE RemoveKey(h)
    <2>1. live' \subseteq live /\ UNCHANGED <<account, owner, given, personVars, requests, changes>>
      BY <1>4 DEF RemoveKey
    <2> QED BY <1>1, <2>1, RemoveWorld
  <1>5. CASE DeleteSession(h)
    <2>1. /\ UNCHANGED keyVars /\ given' = given /\ requests' \in Nat /\ changes' \in Nat
          /\ person' = person /\ grant' = grant /\ person \in BOOLEAN /\ grant \in BOOLEAN
      BY <1>1, <1>5 DEF DeleteSession, TypeOK
    <2>2. \/ UNCHANGED <<things, ended>>
          \/ req[h].obj \in things /\ things' = things \ {req[h].obj} /\ ended' = ended \cup {req[h].obj}
      BY <1>5 DEF DeleteSession, EndSession
    <2>3. /\ things' \subseteq Things /\ ended' \subseteq Things /\ ended \subseteq ended'
          /\ things' \cap ended' = {} /\ (~person' => things' = {})
      BY <2>1, <2>2 DEF TypeOK, WorldSound
    <2> QED BY <1>1, <2>1, <2>3, PersonWorld
  <1>6. Reads \/ AddKey(h) \/ RemoveKey(h) \/ DeleteSession(h)
    BY DEF Serve, Lookup, ListAccounts, ListKeys, LookupOwner, Review, ListSessions, ListPasskeys,
           ListIDPLinks, FetchLocal, GetSession
  <1> QED BY <1>2, <1>3, <1>4, <1>5, <1>6

-----------------------------------------------------------------------------
(* History *)

LEMMA Going ==
  ASSUME NEW h \in Handlers, Watch, req[h].pc # "done"
  PROVE  /\ was'[h].ever = was[h].ever \cup Now(h)'
         /\ was'[h].always = was[h].always \cap Now(h)'
         /\ was'[h].granted = (was[h].granted \/ grant')
  BY DEF Watch, Now

LEMMA Starting ==
  ASSUME NEW h \in Handlers, Watch, req[h].pc = "done", req'[h].pc # "done"
  PROVE  was'[h].ever = Now(h)' /\ was'[h].always = Now(h)'
  BY DEF Watch, Now

LEMMA Resting ==
  ASSUME NEW h \in Handlers, Watch, req[h].pc = "done", req'[h].pc = "done"
  PROVE  was'[h] = was[h]
  BY DEF Watch

LEMMA WatchedNext ==
  ASSUME NEW h \in Handlers, Watch
  PROVE  Watched(h)'
  <1>1. CASE req[h].pc # "done"
    BY <1>1, Going DEF Watched
  <1>2. CASE req[h].pc = "done" /\ req'[h].pc # "done"
    BY <1>2, Starting DEF Watched
  <1>3. CASE req'[h].pc = "done"
    BY <1>3 DEF Watched
  <1> QED BY <1>1, <1>2, <1>3

LEMMA WatchType ==
  ASSUME TypeOK, Watch, \A h \in Handlers : Now(h)' \subseteq Objects, grant \in BOOLEAN, grant' \in BOOLEAN
  PROVE  was' \in [Handlers -> [ever : SUBSET Objects, always : SUBSET Objects, granted : BOOLEAN]]
  <1> DEFINE T == [ever : SUBSET Objects, always : SUBSET Objects, granted : BOOLEAN]
             F(h) == CASE req[h].pc = "done" /\ req[h]'.pc = "done" -> was[h]
          [] req[h].pc = "done" /\ req[h]'.pc # "done" -> [ever |-> Now(h)', always |-> Now(h)', granted |-> grant]
          [] OTHER -> [ever |-> was[h].ever \cup Now(h)', always |-> was[h].always \cap Now(h)',
                       granted |-> was[h].granted \/ grant']
  <1>1. was' = [h \in Handlers |-> F(h)]
    BY DEF Watch, Now
  <1>2. ASSUME NEW h \in Handlers PROVE F(h) \in T
    <2>1. was[h] \in T /\ was[h].granted \in BOOLEAN
      BY DEF TypeOK
    <2>2. CASE req[h].pc = "done" /\ req[h]'.pc = "done"
      BY <2>1, <2>2
    <2>3. CASE req[h].pc = "done" /\ req[h]'.pc # "done"
      <3>1. F(h) = [ever |-> Now(h)', always |-> Now(h)', granted |-> grant]
        BY <2>3
      <3> QED BY <3>1
    <2>4. CASE req[h].pc # "done"
      <3> DEFINE g == was[h].granted \/ grant'
      <3>1. F(h) = [ever |-> was[h].ever \cup Now(h)', always |-> was[h].always \cap Now(h)', granted |-> g]
        BY <2>4
      <3>2. g \in BOOLEAN
        BY <2>1
      <3> HIDE DEF g, F
      <3> QED BY <2>1, <3>1, <3>2
    <2> QED BY <2>2, <2>3, <2>4
  <1> HIDE DEF F
  <1> QED BY <1>1, <1>2

-----------------------------------------------------------------------------
(* A handler that does not move *)

LEMMA BystanderSound ==
  ASSUME AnswerInv, WorldType', Onward, Watch, NEW g \in Handlers, req'[g] = req[g]
  PROVE  HandlerSound(g)'
  <1> DEFINE r == req[g]
  <1>0. HandlerSound(g) /\ r \in RequestRecords /\ TypeOK /\ WorldSound
    BY DEF AnswerInv, TypeOK
  <1>1. Asked(g)'
    BY <1>0 DEF HandlerSound, Asked, Onward
  <1>2. Placed(g)'
    BY <1>0 DEF HandlerSound, Placed
  <1>3. Watched(g)'
    BY WatchedNext
  <1>4. CASE r.pc = "done"
    <2>1. was'[g] = was[g]
      BY <1>4, Resting
    <2>2. Knows(g)'
      BY <1>4 DEF Knows
    <2>3. Verdict(g)'
      <3>1. Asked(g) /\ Verdict(g)
        BY <1>0 DEF HandlerSound
      <3>2. r.kind = "key" /\ r.op = "delete" /\ r.obj \notin live => r.obj \notin live'
        BY <3>1 DEF Asked, Onward
      <3>3. r.kind = "key" /\ r.op \in {"get", "delete"} => owner'[r.obj] = owner[r.obj]
        BY <3>1 DEF Asked, Onward
      <3> QED BY <1>4, <2>1, <3>1, <3>2, <3>3 DEF Verdict, Onward
    <2> QED BY <1>1, <1>2, <1>3, <2>2, <2>3 DEF HandlerSound
  <1>5. CASE r.pc # "done"
    <2>1. /\ was[g].ever \subseteq was'[g].ever /\ was'[g].always \subseteq was[g].always
          /\ was[g].granted => was'[g].granted
      BY <1>5, Going
    <2>2. Knows(g) /\ Asked(g) /\ Placed(g) /\ Watched(g)
      BY <1>0 DEF HandlerSound
    <2>3. r.pc = "listKeys" => \A k \in was'[g].always : k \in Keys /\ owner'[k] = owner[k]
      <3> SUFFICES ASSUME r.pc = "listKeys", NEW k \in was'[g].always PROVE k \in Keys /\ owner'[k] = owner[k]
        OBVIOUS
      <3>1. r.kind = "key" /\ r.op # "create"
        BY <2>2 DEF Placed, KeySteps
      <3>2. k \in live
        BY <1>5, <2>1, <2>2, <3>1, NowFacts DEF Watched
      <3> QED BY <1>0, <3>2 DEF Onward, WorldSound, TypeOK
    <2>4. r.pc = "removeKey" =>
            /\ r.user \in MachineUser /\ r.user[1] = owner'[r.obj][1]
            /\ owner'[r.obj][2] <= r.user[2] /\ r.user[2] <= account'[r.user[1]].gen
      <3> SUFFICES ASSUME r.pc = "removeKey"
                   PROVE  /\ r.user \in MachineUser /\ r.user[1] = owner'[r.obj][1]
                          /\ owner'[r.obj][2] <= r.user[2] /\ r.user[2] <= account'[r.user[1]].gen
        OBVIOUS
      <3>1. /\ r.user \in MachineUser /\ r.user[1] = owner[r.obj][1]
            /\ owner[r.obj][2] <= r.user[2] /\ r.user[2] <= account[r.user[1]].gen
        BY <2>2 DEF Knows
      <3>2. r.obj \in Keys /\ owner[r.obj] # None
        BY <2>2 DEF Asked, Placed, KeySteps
      <3>3. owner'[r.obj] = owner[r.obj]
        BY <3>2 DEF Onward
      <3>4. r.user[1] \in Names /\ r.user[2] \in 1 .. MaxGeneration
        BY <3>1, MachineUserFacts
      <3>5. /\ account[r.user[1]].gen <= account'[r.user[1]].gen
            /\ account[r.user[1]].gen \in Nat /\ account'[r.user[1]].gen \in Nat
        BY <1>0, <3>4 DEF Onward, TypeOK, WorldType
      <3> QED BY <3>1, <3>3, <3>4, <3>5, ConstantsAssumption
    <2>5. r.pc = "addKey" /\ r.name \in was'[g].always =>
            account'[r.name].exists /\ r.user = Generation(r.name)'
      <3> SUFFICES ASSUME r.pc = "addKey", r.name \in was'[g].always
                   PROVE  account'[r.name].exists /\ r.user = Generation(r.name)'
        OBVIOUS
      <3>1. r.kind = "key" /\ r.op = "create" /\ r.name \in Names
        BY <1>0, <2>2 DEF Placed, KeySteps, RequestRecords
      <3>2. account[r.name].exists /\ r.user = Generation(r.name)
        BY <2>1, <2>2 DEF Knows
      <3>3. r.name \in Now(g)'
        BY <1>5, Going
      <3>4. account'[r.name].exists
        BY <3>1, <3>3, NowFactsNext
      <3>5. account'[r.name].gen = account[r.name].gen
        BY <3>1, <3>2 DEF Onward
      <3> QED BY <3>2, <3>4, <3>5 DEF Generation
    <2>7. Knows(g)'
      BY <2>1, <2>2, <2>3, <2>4, <2>5 DEF Knows, Onward
    <2>6. Verdict(g)'
      BY <1>5 DEF Verdict
    <2> QED BY <1>1, <1>2, <1>3, <2>6, <2>7 DEF HandlerSound
  <1> QED BY <1>4, <1>5

-----------------------------------------------------------------------------
(* The handler that moves *)

Moves(h) == \E r \in RequestRecords : req' = [req EXCEPT ![h] = r] /\ SameQuestion(req[h], r)
Served(h) == Moves(h) /\ (Placed(h) /\ Knows(h) /\ Verdict(h))'

LEMMA MovesFacts ==
  ASSUME TypeOK, NEW h \in Handlers, NEW r \in RequestRecords, Become(h, r)
  PROVE  req' = [req EXCEPT ![h] = r] /\ req'[h] = r /\ req' \in [Handlers -> RequestRecords]
  BY DEF TypeOK, Become

\* A handler that answers is sound when its answer is
LEMMA AnswerServed ==
  ASSUME AnswerInv, NEW h \in Handlers, NEW a \in Answers, Answer(h, a),
         a = "ok" => req[h].op = "get" /\ req[h].obj \in was'[h].ever,
         a = "notFound" /\ req[h].op \in {"get", "delete"} =>
              \/ req[h].obj \notin was'[h].always
              \/ req[h].kind = "key" /\ owner'[req[h].obj] # None /\ owner'[req[h].obj][1] \in Suffixed,
         a = "notFound" /\ req[h].op = "create" => req[h].name \notin was'[h].always,
         a = "deleted" => \/ req[h].kind = "key" /\ req[h].op = "delete" /\ req[h].obj \notin live'
                          \/ req[h].kind = "session" /\ req[h].obj \in ended'
  PROVE  Served(h)
  <1>1. TypeOK
    BY DEF AnswerInv
  <1>2. /\ req' = [req EXCEPT ![h] = Answered(req[h], a)]
        /\ Answered(req[h], a) \in RequestRecords /\ SameQuestion(req[h], Answered(req[h], a))
        /\ req'[h].kind = req[h].kind /\ req'[h].op = req[h].op /\ req'[h].obj = req[h].obj
        /\ req'[h].pc = "done" /\ req'[h].ans = a /\ req'[h].name = req[h].name
    BY <1>1, AnswerMoves
  <1>3. Moves(h)
    BY <1>2 DEF Moves
  <1>4. Placed(h)' /\ Knows(h)'
    BY <1>2 DEF Placed, Knows
  <1>5. Verdict(h)'
    BY <1>2 DEF Verdict
  <1> QED BY <1>3, <1>4, <1>5 DEF Served

LEMMA FailsServed ==
  ASSUME AnswerInv, NEW h \in Handlers, Fails(h)
  PROVE  Served(h)
  BY AnswerServed DEF Fails, Answers

LEMMA LookupServed ==
  ASSUME AnswerInv, NEW h \in Handlers, Watch, Lookup(h)
  PROVE  Served(h)
  <1> DEFINE r == req[h]
             n == r.name
  <1>1. TypeOK /\ WorldSound /\ Placed(h) /\ Knows(h) /\ Watched(h) /\ r \in RequestRecords
    BY DEF AnswerInv, HandlerSound, TypeOK
  <1>2. r.pc = "lookup" /\ r.kind = "key" /\ r.op \in {"create", "list"} /\ n # None /\ n \in Names
    BY <1>1 DEF Lookup, Placed, KeySteps, RequestRecords
  <1>3. UNCHANGED <<account, owner, live>>
    BY DEF Lookup, Reads, keyVars
  <1>4. was[h].ever \subseteq was'[h].ever /\ was'[h].always \subseteq Now(h)'
    BY <1>2, Going
  <1>5. CASE ~account[n].exists /\ Answer(h, "notFound")
    <2>1. r.op = "create" => n \notin was'[h].always
      <3> SUFFICES ASSUME r.op = "create" PROVE n \notin Now(h)'
        BY <1>4
      <3>1. req'[h].kind = "key" /\ req'[h].op = "create" /\ req'[h].name = n
        BY <1>1, <1>2, <1>5, AnswerMoves DEF Answers
      <3> QED BY <1>3, <1>5, <3>1, NowFactsNext
    <2> QED BY <1>2, <1>5, <2>1, AnswerServed DEF Answers
  <1>9. CASE Answer(h, "badRequest")
    BY <1>2, <1>9, AnswerServed DEF Answers
  <1>6. CASE Fails(h)
    BY <1>6, FailsServed
  <1>7. CASE account[n].exists /\ r.op = "create" /\ Become(h, [r EXCEPT !.pc = "addKey", !.user = Generation(n)])
    <2> DEFINE s == [r EXCEPT !.pc = "addKey", !.user = Generation(n)]
    <2>1. Generation(n) \in MachineUser
      BY <1>1, <1>2, <1>7, GenerationFacts
    <2>2. /\ s \in RequestRecords /\ SameQuestion(r, s) /\ s.pc = "addKey" /\ s.seen = r.seen
          /\ s.name = n /\ s.user = Generation(n)
      BY <1>1, <2>1 DEF RequestRecords, Steps, SameQuestion
    <2>3. Become(h, s)
      BY <1>7
    <2> HIDE DEF s
    <2>4. req' = [req EXCEPT ![h] = s] /\ req'[h] = s
      BY <1>1, <2>2, <2>3, MovesFacts
    <2>5. Moves(h)
      BY <2>2, <2>4 DEF Moves
    <2>6. Placed(h)'
      BY <1>2, <1>7, <2>2, <2>4 DEF Placed, KeySteps, SameQuestion
    <2>7. Knows(h)'
      BY <1>1, <1>2, <1>3, <1>4, <1>7, <2>2, <2>4 DEF Knows, Generation
    <2>8. Verdict(h)'
      BY <2>2, <2>4 DEF Verdict
    <2> QED BY <2>5, <2>6, <2>7, <2>8 DEF Served
  <1>8. CASE account[n].exists /\ r.op = "list" /\ Become(h, [r EXCEPT !.pc = "listKeys", !.todo = {Generation(n)}])
    <2> DEFINE s == [r EXCEPT !.pc = "listKeys", !.todo = {Generation(n)}]
    <2>1. Generation(n) \in MachineUser /\ Generation(n)[1] = n
      BY <1>1, <1>2, <1>8, GenerationFacts
    <2>2. /\ s \in RequestRecords /\ SameQuestion(r, s) /\ s.pc = "listKeys" /\ s.seen = r.seen
          /\ s.todo = {Generation(n)}
      BY <1>1, <2>1 DEF RequestRecords, Steps, SameQuestion
    <2>3. Become(h, s)
      BY <1>8
    <2> HIDE DEF s
    <2>4. req' = [req EXCEPT ![h] = s] /\ req'[h] = s
      BY <1>1, <2>2, <2>3, MovesFacts
    <2>5. Moves(h)
      BY <2>2, <2>4 DEF Moves
    <2>6. Placed(h)'
      BY <1>2, <1>8, <2>2, <2>4 DEF Placed, KeySteps, SameQuestion
    <2>7. s.kind = "key" /\ s.op = "list" /\ s.name = n
      BY <1>2, <1>8, <2>2 DEF SameQuestion
    <2>8. \A k \in was'[h].always : owner'[k] \in s.todo
      <3> SUFFICES ASSUME NEW k \in was'[h].always PROVE owner'[k] = Generation(n)
        BY <2>2
      <3>1. k \in live' /\ owner'[k][1] = n
        BY <1>2, <1>4, <2>4, <2>7, NowFactsNext
      <3> QED BY <1>1, <1>3, <3>1, LiveKeyFacts
    <2>9. Knows(h)'
      <3>1. s.seen \subseteq was'[h].ever
        BY <1>1, <1>2, <1>4, <2>2 DEF Knows
      <3>2. \A u \in s.todo : u[1] = s.name
        BY <2>1, <2>2, <2>7
      <3> QED BY <2>2, <2>4, <2>8, <3>1, <3>2 DEF Knows
    <2>10. Verdict(h)'
      BY <2>2, <2>4 DEF Verdict
    <2> QED BY <2>5, <2>6, <2>9, <2>10 DEF Served
  <1> QED BY <1>5, <1>6, <1>7, <1>8, <1>9 DEF Lookup

LEMMA AddKeyServed ==
  ASSUME AnswerInv, NEW h \in Handlers, Watch, AddKey(h)
  PROVE  Served(h)
  <1> DEFINE r == req[h]
  <1>1. TypeOK /\ WorldSound /\ Placed(h) /\ Knows(h) /\ r \in RequestRecords
    BY DEF AnswerInv, HandlerSound, TypeOK
  <1>2. r.pc = "addKey" /\ r.kind = "key" /\ r.op = "create" /\ r.name \in Names
    BY <1>1 DEF AddKey, Placed, KeySteps, RequestRecords
  <1>3. CASE Fails(h)
    BY <1>3, FailsServed
  <1>4. CASE r.user \notin MachineUsers /\ Answer(h, "notFound")
    <2>1. r.name \notin was[h].always
      BY <1>1, <1>2, <1>4, GenerationFacts DEF Knows
    <2>2. r.name \notin was'[h].always
      BY <1>2, <2>1, Going
    <2> QED BY <1>2, <1>4, <2>2, AnswerServed DEF Answers
  <1>5. ASSUME NEW k \in Keys, Become(h, [Answered(r, "ok") EXCEPT !.obj = k])
        PROVE  Served(h)
    <2> DEFINE a == Answered(r, "ok")
               s == [a EXCEPT !.obj = k]
    <2>1. a \in RequestRecords /\ SameQuestion(r, a) /\ a.pc = "done" /\ a.ans = "ok"
      BY <1>1, AnsweredFacts DEF Answers, SameQuestion
    <2>2. k \in Objects
      BY DEF Objects
    <2>3. Become(h, s)
      BY <1>5
    <2> HIDE DEF a
    <2>4. s \in RequestRecords /\ SameQuestion(r, s) /\ s.pc = "done" /\ s.ans = "ok" /\ s.op = "create"
      BY <1>2, <2>1, <2>2 DEF RequestRecords, SameQuestion
    <2> HIDE DEF s
    <2>5. req' = [req EXCEPT ![h] = s] /\ req'[h] = s
      BY <1>1, <2>3, <2>4, MovesFacts
    <2>6. Moves(h)
      BY <2>4, <2>5 DEF Moves
    <2>7. Placed(h)' /\ Knows(h)'
      BY <2>4, <2>5 DEF Placed, Knows
    <2>8. Verdict(h)'
      BY <2>4, <2>5 DEF Verdict
    <2> QED BY <2>6, <2>7, <2>8 DEF Served
  <1> QED BY <1>3, <1>4, <1>5 DEF AddKey

\* One more account listed: what Continue makes of the request is sound when its listing is
LEMMA ListingServed ==
  ASSUME AnswerInv, NEW h \in Handlers, NEW t \in RequestRecords, SameQuestion(req[h], t),
         req[h].kind = "key", req[h].op \in {"list", "get", "delete"}, owner' = owner,
         t.seen \subseteq was'[h].ever,
         ~t.cut => \A k \in was'[h].always : k \in t.seen \/ owner[k] \in t.todo,
         t.op = "list" /\ t.name # None => \A u \in t.todo : u[1] = t.name,
         Become(h, Continue(t))
  PROVE  Served(h)
  <1>1. TypeOK /\ Asked(h) /\ req[h] \in RequestRecords
    BY DEF AnswerInv, HandlerSound, TypeOK
  <1>2. t.op = req[h].op /\ t.kind = "key" /\ t.own
    BY <1>1 DEF SameQuestion, Asked
  <1> DEFINE s == Continue(t)
  <1>3. s \in RequestRecords /\ SameQuestion(t, s) /\ s.seen = t.seen /\ s.cut = t.cut
    BY <1>2, ContinueFacts
  <1>4. SameQuestion(req[h], s) /\ s.kind = "key" /\ s.own /\ s.op = t.op /\ s.name = t.name /\ s.obj = t.obj
    BY <1>2, <1>3 DEF SameQuestion
  <1>5. req' = [req EXCEPT ![h] = s] /\ req'[h] = s
    BY <1>1, <1>3, MovesFacts
  <1>6. Moves(h)
    BY <1>3, <1>4, <1>5 DEF Moves
  <1>7. CASE s.pc = "listKeys" /\ s.todo = t.todo
    <2> HIDE DEF s
    <2>1. Placed(h)'
      BY <1>2, <1>4, <1>5, <1>7 DEF Placed, KeySteps
    <2>2. Knows(h)'
      BY <1>3, <1>4, <1>5, <1>7 DEF Knows
    <2>3. Verdict(h)'
      BY <1>5, <1>7 DEF Verdict
    <2> QED BY <1>6, <2>1, <2>2, <2>3 DEF Served
  <1>8. CASE t.todo = {} /\ s = AfterListing(t)
    <2>1. \/ s.pc = "done" /\ t.op \in {"list", "get"} /\ s.ans = "ok" /\ (t.op = "get" => t.obj \in t.seen)
          \/ s.pc = "done" /\ t.op \in {"get", "delete"} /\ s.ans = "notFound" /\ t.obj \notin t.seen
          \/ s.pc = "lookupOwner" /\ t.op = "delete"
      BY <1>2, <1>8, AfterListingFacts
    <2>2. ~t.cut => was'[h].always \subseteq t.seen
      BY <1>8
    <2> HIDE DEF s
    <2>3. Placed(h)'
      BY <1>4, <1>5, <2>1 DEF Placed, KeySteps
    <2>4. Knows(h)'
      BY <1>3, <1>5, <2>1 DEF Knows
    <2>5. Verdict(h)'
      BY <1>3, <1>4, <1>5, <2>1, <2>2 DEF Verdict
    <2> QED BY <1>6, <2>3, <2>4, <2>5 DEF Served
  <1> QED BY <1>2, <1>7, <1>8, ContinueFacts

LEMMA ListAccountsServed ==
  ASSUME AnswerInv, NEW h \in Handlers, Watch, ListAccounts(h)
  PROVE  Served(h)
  <1> DEFINE r == req[h]
  <1>1. TypeOK /\ WorldSound /\ Placed(h) /\ Knows(h) /\ r \in RequestRecords
    BY DEF AnswerInv, HandlerSound, TypeOK
  <1>2. r.pc = "listAccounts" /\ r.kind = "key" /\ r.op \in {"list", "get", "delete"} /\ r.name = None
    BY <1>1 DEF ListAccounts, Placed, KeySteps
  <1>3. owner' = owner /\ live' = live
    BY DEF ListAccounts, Reads, keyVars
  <1>4. was[h].ever \subseteq was'[h].ever /\ was'[h].always \subseteq Now(h)'
    BY <1>2, Going
  <1>5. CASE Fails(h)
    BY <1>5, FailsServed
  <1>6. ASSUME NEW page \in Page(MachineUsers),
               Become(h, Continue([r EXCEPT !.todo = page, !.cut = page # MachineUsers]))
        PROVE  Served(h)
    <2> DEFINE cut == page # MachineUsers
               t == [r EXCEPT !.todo = page, !.cut = cut]
    <2>1. page \subseteq MachineUser
      BY <1>1, PageFacts, MachineUsersFacts
    <2>2. Become(h, Continue(t)) /\ cut \in BOOLEAN
      BY <1>6
    <2>3. ~cut => page = MachineUsers
      OBVIOUS
    <2> HIDE DEF cut
    <2>4. t \in RequestRecords /\ SameQuestion(r, t) /\ t.seen = r.seen /\ t.todo = page /\ t.cut = cut
      BY <1>1, <2>1, <2>2 DEF RequestRecords, SameQuestion
    <2> HIDE DEF t
    <2>5. t.seen \subseteq was'[h].ever
      BY <1>1, <1>2, <1>4, <2>4 DEF Knows
    <2>6. Continue(t) \in RequestRecords /\ SameQuestion(t, Continue(t))
      BY <1>2, <2>4, ContinueFacts DEF SameQuestion
    <2>7. req'[h].kind = "key" /\ req'[h].op # "create"
      <3>1. req'[h] = Continue(t)
        BY <1>1, <2>2, <2>6, MovesFacts
      <3> QED BY <1>2, <2>4, <2>6, <3>1 DEF SameQuestion
    <2>8. ~t.cut => \A k \in was'[h].always : owner[k] \in t.todo
      <3> SUFFICES ASSUME ~t.cut, NEW k \in was'[h].always PROVE owner[k] \in MachineUsers
        BY <2>3, <2>4
      <3>1. k \in live
        BY <1>3, <1>4, <2>7, NowFactsNext
      <3> QED BY <1>1, <3>1, LiveKeyFacts
    <2>9. t.name = None
      BY <1>2, <2>4 DEF SameQuestion
    <2> QED BY <1>2, <1>3, <2>2, <2>4, <2>5, <2>8, <2>9, ListingServed
  <1> QED BY <1>5, <1>6 DEF ListAccounts

LEMMA ListKeysServed ==
  ASSUME AnswerInv, NEW h \in Handlers, Watch, ListKeys(h)
  PROVE  Served(h)
  <1> DEFINE r == req[h]
  <1>1. TypeOK /\ WorldSound /\ Placed(h) /\ Knows(h) /\ r \in RequestRecords
    BY DEF AnswerInv, HandlerSound, TypeOK
  <1>2. r.pc = "listKeys" /\ r.kind = "key" /\ r.op \in {"list", "get", "delete"}
    BY <1>1 DEF ListKeys, Placed, KeySteps
  <1>3. owner' = owner /\ live' = live
    BY DEF ListKeys, Reads, keyVars
  <1>4. /\ was'[h].ever = was[h].ever \cup Now(h)' /\ was'[h].always \subseteq was[h].always
        /\ was'[h].always \subseteq Now(h)'
    BY <1>2, Going
  <1>5. CASE Fails(h)
    BY <1>5, FailsServed
  <1>6. ASSUME NEW u \in r.todo, NEW page \in Page(KeysOf(u)),
               Become(h, Continue([r EXCEPT !.todo = @ \ {u}, !.seen = @ \cup page,
                                            !.cut = @ \/ page # KeysOf(u)]))
        PROVE  Served(h)
    <2> DEFINE cut == r.cut \/ page # KeysOf(u)
               t == [r EXCEPT !.todo = r.todo \ {u}, !.seen = r.seen \cup page, !.cut = cut]
    <2>1. page \subseteq KeysOf(u) /\ page \subseteq Objects
      BY <1>1, PageFacts, KeysOfFacts
    <2>2. Become(h, Continue(t)) /\ cut \in BOOLEAN
      BY <1>6
    <2>3. ~cut => ~r.cut /\ page = KeysOf(u)
      OBVIOUS
    <2> HIDE DEF cut
    <2>4. /\ t \in RequestRecords /\ SameQuestion(r, t) /\ t.seen = r.seen \cup page
          /\ t.todo = r.todo \ {u} /\ t.cut = cut
      BY <1>1, <2>1, <2>2 DEF RequestRecords, SameQuestion
    <2> HIDE DEF t
    <2>5. Continue(t) \in RequestRecords /\ SameQuestion(t, Continue(t))
      BY <1>2, <2>4, ContinueFacts DEF SameQuestion
    <2>6. req'[h].kind = "key" /\ req'[h].op = r.op /\ req'[h].name = r.name
      <3>1. req'[h] = Continue(t)
        BY <1>1, <2>2, <2>5, MovesFacts
      <3> QED BY <1>2, <2>4, <2>5, <3>1 DEF SameQuestion
    <2>7. page \subseteq Now(h)'
      <3> SUFFICES ASSUME NEW k \in page PROVE k \in Now(h)'
        OBVIOUS
      <3>1. k \in live /\ owner[k] = u
        BY <2>1 DEF KeysOf
      <3>2. r.op = "list" /\ r.name # None => u[1] = r.name
        BY <1>1, <1>2 DEF Knows
      <3>3. Now(h)' = {j \in live' : req'[h].op = "list" /\ req'[h].name # None => owner'[j][1] = req'[h].name}
        BY <1>2, <2>6, NowFactsNext
      <3> QED BY <1>3, <2>6, <3>1, <3>2, <3>3
    <2>8. t.seen \subseteq was'[h].ever
      BY <1>1, <1>2, <1>4, <2>4, <2>7 DEF Knows
    <2>9. ~t.cut => \A k \in was'[h].always : k \in t.seen \/ owner[k] \in t.todo
      <3> SUFFICES ASSUME ~t.cut, NEW k \in was'[h].always PROVE k \in t.seen \/ owner[k] \in t.todo
        OBVIOUS
      <3>1. k \in live
        BY <1>2, <1>3, <1>4, <2>6, NowFactsNext
      <3>2. k \in r.seen \/ owner[k] \in r.todo
        BY <1>1, <1>2, <1>4, <2>3, <2>4 DEF Knows
      <3>3. owner[k] = u => k \in page
        BY <2>3, <2>4, <3>1 DEF KeysOf
      <3> QED BY <2>4, <3>2, <3>3
    <2>10. t.op = "list" /\ t.name # None => \A v \in t.todo : v[1] = t.name
      BY <1>1, <1>2, <2>4 DEF Knows, SameQuestion
    <2> QED BY <1>2, <1>3, <2>2, <2>4, <2>8, <2>9, <2>10, ListingServed
  <1> QED BY <1>5, <1>6 DEF ListKeys

LEMMA LookupOwnerServed ==
  ASSUME AnswerInv, NEW h \in Handlers, Watch, LookupOwner(h)
  PROVE  Served(h)
  <1> DEFINE r == req[h]
             n == owner[r.obj][1]
  <1>1. TypeOK /\ WorldSound /\ Asked(h) /\ Placed(h) /\ Knows(h) /\ r \in RequestRecords
    BY DEF AnswerInv, HandlerSound, TypeOK
  <1>2. /\ r.pc = "lookupOwner" /\ r.kind = "key" /\ r.op = "delete"
        /\ r.obj \in Keys /\ owner[r.obj] # None /\ owner[r.obj] \in MachineUser
    BY <1>1 DEF LookupOwner, Placed, Asked, KeySteps, TypeOK
  <1>3. n \in Names /\ owner[r.obj][2] \in 1 .. MaxGeneration
    BY <1>2, MachineUserFacts
  <1>4. owner' = owner /\ live' = live /\ account' = account
    BY DEF LookupOwner, Reads, keyVars
  <1>5. was[h].ever \subseteq was'[h].ever /\ was'[h].always \subseteq Now(h)'
    BY <1>2, Going
  <1>6. CASE Fails(h)
    BY <1>6, FailsServed
  <1>7. CASE (n \in Suffixed \/ ~account[n].exists) /\ Answer(h, "notFound")
    <2>1. req'[h].kind = "key" /\ req'[h].op = "delete"
      BY <1>1, <1>2, <1>7, AnswerMoves DEF Answers
    <2>2. ~account[n].exists => r.obj \notin live
      BY <1>1, LiveKeyFacts
    <2>3. r.obj \notin live => r.obj \notin was'[h].always
      BY <1>4, <1>5, <2>1, NowFactsNext
    <2> QED BY <1>2, <1>4, <1>7, <2>2, <2>3, AnswerServed DEF Answers
  <1>8. CASE account[n].exists /\ Become(h, [r EXCEPT !.pc = "removeKey", !.user = Generation(n)])
    <2> DEFINE s == [r EXCEPT !.pc = "removeKey", !.user = Generation(n)]
    <2>1. Generation(n) \in MachineUser /\ Generation(n)[1] = n /\ Generation(n)[2] = account[n].gen
      BY <1>1, <1>3, <1>8, GenerationFacts
    <2>2. /\ s \in RequestRecords /\ SameQuestion(r, s) /\ s.pc = "removeKey" /\ s.seen = r.seen
          /\ s.user = Generation(n)
      BY <1>1, <2>1 DEF RequestRecords, Steps, SameQuestion
    <2>3. Become(h, s)
      BY <1>8
    <2> HIDE DEF s
    <2>4. req' = [req EXCEPT ![h] = s] /\ req'[h] = s
      BY <1>1, <2>2, <2>3, MovesFacts
    <2>5. Moves(h)
      BY <2>2, <2>4 DEF Moves
    <2>6. s.kind = "key" /\ s.op = "delete" /\ s.obj = r.obj
      BY <1>2, <2>2 DEF SameQuestion
    <2>7. Placed(h)'
      BY <2>2, <2>4, <2>6 DEF Placed, KeySteps
    <2>8. owner[r.obj][2] <= account[n].gen /\ account[n].gen <= account[n].gen
      BY <1>1, <1>2, <1>3 DEF WorldSound, TypeOK
    <2>9. s.seen \subseteq was'[h].ever
      BY <1>1, <1>2, <1>5, <2>2 DEF Knows
    <2>10. Knows(h)'
      BY <1>4, <2>1, <2>2, <2>4, <2>6, <2>8, <2>9 DEF Knows
    <2>11. Verdict(h)'
      BY <2>2, <2>4 DEF Verdict
    <2> QED BY <2>5, <2>7, <2>10, <2>11 DEF Served
  <1> QED BY <1>6, <1>7, <1>8 DEF LookupOwner

LEMMA RemoveKeyServed ==
  ASSUME AnswerInv, NEW h \in Handlers, RemoveKey(h)
  PROVE  Served(h)
  <1> DEFINE r == req[h]
  <1>1. TypeOK /\ WorldSound /\ Asked(h) /\ Placed(h) /\ Knows(h)
    BY DEF AnswerInv, HandlerSound
  <1>2. r.pc = "removeKey" /\ r.kind = "key" /\ r.op = "delete" /\ r.obj \in Keys /\ owner[r.obj] # None
    BY <1>1 DEF RemoveKey, Placed, Asked, KeySteps
  <1>3. CASE Fails(h)
    BY <1>3, FailsServed
  <1>4. CASE live' = live \ (KeysOf(r.user) \cap {r.obj}) /\ Answer(h, "deleted")
    <2>1. ASSUME r.obj \in live PROVE owner[r.obj] = r.user
      <3>1. /\ owner[r.obj] \in MachineUser /\ owner[r.obj] = Generation(owner[r.obj][1])
        BY <1>1, <2>1, LiveKeyFacts
      <3>2. /\ owner[r.obj] = <<owner[r.obj][1], owner[r.obj][2]>> /\ owner[r.obj][1] \in Names
            /\ owner[r.obj][2] \in Nat /\ owner[r.obj][2] = account[owner[r.obj][1]].gen
        BY <3>1, MachineUserFacts DEF Generation
      <3>3. /\ r.user \in MachineUser /\ r.user[1] = owner[r.obj][1]
            /\ owner[r.obj][2] <= r.user[2] /\ r.user[2] <= account[r.user[1]].gen
        BY <1>1, <1>2 DEF Knows
      <3>4. r.user = <<r.user[1], r.user[2]>> /\ r.user[2] \in Nat
        BY <3>3, MachineUserFacts
      <3>5. r.user[2] = owner[r.obj][2]
        BY <3>2, <3>3, <3>4
      <3> QED BY <3>2, <3>3, <3>4, <3>5
    <2>2. r.obj \notin live'
      BY <1>4, <2>1 DEF KeysOf
    <2> QED BY <1>2, <1>4, <2>2, AnswerServed DEF Answers
  <1> QED BY <1>3, <1>4 DEF RemoveKey, RemoveFails

LEMMA NowUnchanged ==
  ASSUME NEW h, Reads, SameQuestion(req[h], req'[h])
  PROVE  Now(h)' = Now(h)
  <1>1. account' = account /\ owner' = owner /\ live' = live /\ person' = person /\ things' = things
    BY DEF Reads, keyVars, personVars
  <1>2. Identities' = Identities
    BY <1>1 DEF Identities
  <1>3. req'[h].kind = req[h].kind /\ req'[h].op = req[h].op /\ req'[h].name = req[h].name
    BY DEF SameQuestion
  <1> QED BY <1>1, <1>2, <1>3 DEF Now, Existing

LEMMA ReviewServed ==
  ASSUME AnswerInv, NEW h \in Handlers, Watch, Review(h)
  PROVE  Served(h)
  <1> DEFINE r == req[h]
             s == [r EXCEPT !.pc = "fetch"]
  <1>1. TypeOK /\ Placed(h) /\ r \in RequestRecords
    BY DEF AnswerInv, HandlerSound, TypeOK
  <1>2. r.pc = "review" /\ r.kind \notin {"", "key"}
    BY <1>1 DEF Review, Placed, KeySteps
  <1>3. CASE Fails(h)
    BY <1>3, FailsServed
  <1>4. CASE Answer(h, "forbidden")
    BY <1>4, AnswerServed DEF Answers
  <1>5. CASE grant /\ Goto(h, "fetch")
    <2>1. s \in RequestRecords /\ SameQuestion(r, s) /\ s.pc = "fetch"
      BY <1>1 DEF RequestRecords, Steps, SameQuestion
    <2>2. Become(h, s)
      BY <1>5 DEF Goto
    <2>3. was'[h].granted
      BY <1>2, <1>5, Going DEF Review, Reads, personVars
    <2> HIDE DEF s
    <2>4. req' = [req EXCEPT ![h] = s] /\ req'[h] = s
      BY <1>1, <2>1, <2>2, MovesFacts
    <2>5. Moves(h)
      BY <2>1, <2>4 DEF Moves
    <2>6. Placed(h)'
      BY <1>2, <2>1, <2>4 DEF Placed, KeySteps, SameQuestion
    <2>7. Knows(h)'
      BY <1>2, <2>1, <2>3, <2>4 DEF Knows, SameQuestion
    <2>8. Verdict(h)'
      BY <2>1, <2>4 DEF Verdict
    <2> QED BY <2>5, <2>6, <2>7, <2>8 DEF Served
  <1> QED BY <1>3, <1>4, <1>5 DEF Review, Allowed

LEMMA ListedServed ==
  ASSUME AnswerInv, NEW h \in Handlers, Watch, Reads, req[h].pc = "fetch", req[h].op \in {"list", "get"},
         NEW pages, \A rows \in pages : rows \subseteq Now(h), Listed(h, pages)
  PROVE  Served(h)
  <1> DEFINE r == req[h]
  <1>1. TypeOK /\ Knows(h) /\ Watched(h) /\ r \in RequestRecords /\ Now(h) \subseteq Objects
    BY NowType DEF AnswerInv, HandlerSound, TypeOK
  <1>2. CASE Fails(h)
    BY <1>2, FailsServed
  <1>3. ASSUME NEW rows \in pages, Become(h, [Found(r, rows) EXCEPT !.cut = rows # Existing(r)])
        PROVE  Served(h)
    <2> DEFINE cut == rows # Existing(r)
               s == [Found(r, rows) EXCEPT !.cut = cut]
    <2>1. rows \subseteq Now(h) /\ rows \in SUBSET Objects /\ cut \in BOOLEAN
      BY <1>1
    <2>2. ~cut => rows = Now(h)
      BY DEF Now
    <2>3. Become(h, s)
      BY <1>3
    <2> HIDE DEF cut
    <2>4. /\ s \in RequestRecords /\ SameQuestion(r, s) /\ s.cut = cut /\ s.pc = "done"
          /\ \/ r.op = "get" /\ r.obj \notin rows /\ s.ans = "notFound"
             \/ (r.op = "get" => r.obj \in rows) /\ s.ans = "ok" /\ s.seen = rows /\ s.user = None
      BY <1>1, <2>1, FoundCut
    <2> HIDE DEF s
    <2>5. req' = [req EXCEPT ![h] = s] /\ req'[h] = s
      BY <1>1, <2>3, <2>4, MovesFacts
    <2>6. Moves(h)
      BY <2>4, <2>5 DEF Moves
    <2>7. Placed(h)' /\ Knows(h)'
      BY <2>4, <2>5 DEF Placed, Knows
    <2>8. /\ rows \subseteq was'[h].ever /\ (~cut => was'[h].always \subseteq rows)
          /\ was[h].granted => was'[h].granted
      <3>1. Now(h)' = Now(h)
        BY <2>4, <2>5, NowUnchanged
      <3>2. /\ was'[h].ever = was[h].ever \cup Now(h) /\ was'[h].always = was[h].always \cap Now(h)
            /\ was'[h].granted = (was[h].granted \/ grant')
        BY <3>1, Going
      <3> QED BY <2>1, <2>2, <3>2
    <2>9. r.op = "list" /\ ~r.own => was'[h].granted
      BY <1>1, <2>8 DEF Knows
    <2>10. s.op = r.op /\ s.own = r.own /\ s.obj = r.obj /\ s.ans # "deleted"
      BY <2>4 DEF SameQuestion
    <2>11. Verdict(h)'
      BY <2>4, <2>5, <2>8, <2>9, <2>10 DEF Verdict
    <2> QED BY <2>6, <2>7, <2>11 DEF Served
  <1> QED BY <1>2, <1>3 DEF Listed

\* A user that Zitadel no longer knows has nothing.
LEMMA RefusedServed ==
  ASSUME AnswerInv, NEW h \in Handlers, Watch, Reads, req[h].pc # "done",
         req[h].kind \in {"session", "passkey", "identity"}, Refused(h)
  PROVE  Served(h)
  <1>1. TypeOK /\ WorldSound
    BY DEF AnswerInv
  <1>2. Answer(h, "notFound") /\ ~person /\ things = {}
    BY <1>1 DEF Refused, WorldSound
  <1>3. req'[h].kind = req[h].kind
    BY <1>1, <1>2, AnswerMoves DEF Answers
  <1>4. things' = {} /\ ~person' /\ Identities' = {}
    BY <1>2 DEF Reads, personVars, Identities
  <1>5. Now(h)' = {}
    BY <1>3, <1>4, NowFactsNext
  <1>6. was'[h].always = {}
    BY <1>5, Going
  <1> QED BY <1>2, <1>6, AnswerServed DEF Answers

LEMMA ListSessionsServed ==
  ASSUME AnswerInv, NEW h \in Handlers, Watch, ListSessions(h)
  PROVE  Served(h)
  <1>1. Reads /\ req[h].pc = "fetch" /\ req[h].kind = "session" /\ req[h].op = "list"
    BY DEF ListSessions
  <1>2. CASE Refused(h)
    BY <1>1, <1>2, RefusedServed
  <1>3. CASE Listed(h, Page(things \cap Sessions))
    <2>1. \A rows \in Page(things \cap Sessions) : rows \subseteq Now(h)
      BY <1>1, NowFacts, PageFacts
    <2> QED BY <1>1, <1>3, <2>1, ListedServed
  <1> QED BY <1>2, <1>3 DEF ListSessions

LEMMA ListPasskeysServed ==
  ASSUME AnswerInv, NEW h \in Handlers, Watch, ListPasskeys(h)
  PROVE  Served(h)
  <1>1. Reads /\ req[h].pc = "fetch" /\ req[h].kind = "passkey" /\ req[h].op \in {"list", "get"}
    BY DEF ListPasskeys, AnswerInv, HandlerSound, Asked
  <1>2. CASE Refused(h)
    BY <1>1, <1>2, RefusedServed
  <1>3. CASE Listed(h, {things \cap Passkeys})
    <2>1. \A rows \in {things \cap Passkeys} : rows \subseteq Now(h)
      BY <1>1, NowFacts
    <2> QED BY <1>1, <1>3, <2>1, ListedServed
  <1> QED BY <1>2, <1>3 DEF ListPasskeys

LEMMA ListIDPLinksServed ==
  ASSUME AnswerInv, NEW h \in Handlers, Watch, ListIDPLinks(h)
  PROVE  Served(h)
  <1> DEFINE r == req[h]
             s == [r EXCEPT !.pc = "local"]
             links == things \cap Providers
  <1>1. TypeOK /\ Asked(h) /\ Knows(h) /\ Watched(h) /\ r \in RequestRecords
    BY DEF AnswerInv, HandlerSound, TypeOK
  <1>2. Reads /\ r.pc = "fetch" /\ r.kind = "identity" /\ r.op \in {"list", "get"}
    BY <1>1 DEF ListIDPLinks, Asked
  <1>3. CASE Refused(h)
    BY <1>2, <1>3, RefusedServed
  <1>4. CASE Fails(h)
    BY <1>4, FailsServed
  <1>5. CASE links # {} /\ Listed(h, Page(links))
    <2>1. \A rows \in Page(links) : rows \subseteq Now(h)
      BY <1>2, <1>5, NowFacts, PageFacts DEF Identities
    <2> QED BY <1>2, <1>5, <2>1, ListedServed
  <1>6. CASE links = {} /\ Goto(h, "local")
    <2>1. s \in RequestRecords /\ SameQuestion(r, s) /\ s.pc = "local"
      BY <1>1 DEF RequestRecords, Steps, SameQuestion
    <2>2. Become(h, s)
      BY <1>6 DEF Goto
    <2> HIDE DEF s
    <2>3. req' = [req EXCEPT ![h] = s] /\ req'[h] = s
      BY <1>1, <2>1, <2>2, MovesFacts
    <2>4. Moves(h)
      BY <2>1, <2>3 DEF Moves
    <2>5. s.kind = "identity" /\ s.op = r.op /\ s.own = r.own
      BY <1>2, <2>1 DEF SameQuestion
    <2>6. Placed(h)'
      BY <2>1, <2>3, <2>5 DEF Placed, KeySteps
    <2>7. person' = person /\ things' = things
      BY <1>2 DEF Reads, personVars
    <2>8. Now(h)' = IF person' /\ HasLoginName THEN {"local"} ELSE {}
      BY <1>6, <2>3, <2>5, <2>7, NowFactsNext DEF Identities
    <2>9. /\ Now(h)' \subseteq was'[h].ever /\ was'[h].always \subseteq Now(h)'
          /\ was[h].granted => was'[h].granted
      BY <1>2, Going
    <2>10. r.op = "list" /\ ~r.own => was'[h].granted
      BY <1>1, <1>2, <2>9 DEF Knows
    <2>11. Knows(h)'
      BY <2>1, <2>3, <2>5, <2>8, <2>9, <2>10 DEF Knows
    <2>12. Verdict(h)'
      BY <2>1, <2>3 DEF Verdict
    <2> QED BY <2>4, <2>6, <2>11, <2>12 DEF Served
  <1> QED BY <1>3, <1>4, <1>5, <1>6 DEF ListIDPLinks

LEMMA FetchLocalServed ==
  ASSUME AnswerInv, NEW h \in Handlers, Watch, FetchLocal(h)
  PROVE  Served(h)
  <1> DEFINE r == req[h]
             rows == IF HasLoginName THEN {"local"} ELSE {}
             s == Found(r, rows)
  <1>1. TypeOK /\ Asked(h) /\ Placed(h) /\ Knows(h) /\ r \in RequestRecords
    BY DEF AnswerInv, HandlerSound, TypeOK
  <1>2. Reads /\ r.pc = "local" /\ r.kind = "identity" /\ r.op \in {"list", "get"}
    BY <1>1 DEF FetchLocal, Placed, Asked
  <1>3. CASE Refused(h)
    BY <1>2, <1>3, RefusedServed
  <1>4. CASE Fails(h)
    BY <1>4, FailsServed
  <1>5. CASE person /\ Become(h, s)
    <2>1. rows \subseteq Objects
      BY DEF Objects
    <2>2. /\ was'[h].always \subseteq was[h].always /\ was[h].ever \subseteq was'[h].ever
          /\ was[h].granted => was'[h].granted
      BY <1>2, Going
    <2>3. /\ rows \subseteq was'[h].ever /\ was'[h].always \subseteq rows
          /\ r.op = "list" /\ ~r.own => was'[h].granted
      BY <1>1, <1>2, <1>5, <2>2 DEF Knows
    <2> HIDE DEF rows
    <2>4. /\ s \in RequestRecords /\ SameQuestion(r, s) /\ s.pc = "done"
          /\ \/ r.op = "get" /\ r.obj \notin rows /\ s.ans = "notFound"
             \/ (r.op = "get" => r.obj \in rows) /\ s.ans = "ok" /\ s.seen = rows /\ s.user = None
      BY <1>1, <2>1, FoundFacts
    <2> HIDE DEF s
    <2>5. req' = [req EXCEPT ![h] = s] /\ req'[h] = s
      BY <1>1, <1>5, <2>4, MovesFacts
    <2>6. Moves(h)
      BY <2>4, <2>5 DEF Moves
    <2>7. Placed(h)' /\ Knows(h)'
      BY <2>4, <2>5 DEF Placed, Knows
    <2>8. s.op = r.op /\ s.own = r.own /\ s.obj = r.obj /\ s.ans # "deleted"
      BY <1>2, <2>4 DEF SameQuestion
    <2>9. Verdict(h)'
      BY <1>2, <2>3, <2>4, <2>5, <2>8 DEF Verdict
    <2> QED BY <2>6, <2>7, <2>9 DEF Served
  <1> QED BY <1>3, <1>4, <1>5 DEF FetchLocal

LEMMA GetSessionServed ==
  ASSUME AnswerInv, NEW h \in Handlers, Watch, GetSession(h)
  PROVE  Served(h)
  <1> DEFINE r == req[h]
  <1>1. TypeOK /\ Asked(h)
    BY DEF AnswerInv, HandlerSound
  <1>2. /\ Reads /\ r.pc = "fetch" /\ r.kind = "session" /\ r.op = "get" /\ r.obj \in Sessions
        /\ things' = things
    BY <1>1 DEF GetSession, Asked, Reads, personVars
  <1>3. Now(h)' \subseteq was'[h].ever /\ was'[h].always \subseteq Now(h)'
    BY <1>2, Going
  <1>4. CASE Fails(h)
    BY <1>4, FailsServed
  <1>5. CASE r.obj \notin things /\ Answer(h, "notFound")
    <2>1. req'[h].kind = "session"
      BY <1>1, <1>2, <1>5, AnswerMoves DEF Answers
    <2>2. r.obj \notin was'[h].always
      BY <1>2, <1>3, <1>5, <2>1, NowFactsNext
    <2> QED BY <1>2, <1>5, <2>2, AnswerServed DEF Answers
  <1>6. CASE r.obj \in things /\ Answer(h, "ok")
    <2>1. req'[h].kind = "session"
      BY <1>1, <1>2, <1>6, AnswerMoves DEF Answers
    <2>2. r.obj \in was'[h].ever
      BY <1>2, <1>3, <1>6, <2>1, NowFactsNext
    <2> QED BY <1>2, <1>6, <2>2, AnswerServed DEF Answers
  <1>7. CASE Answer(h, "forbidden")
    BY <1>7, AnswerServed DEF Answers
  <1> QED BY <1>4, <1>5, <1>6, <1>7 DEF GetSession

LEMMA DeleteSessionServed ==
  ASSUME AnswerInv, NEW h \in Handlers, Watch, DeleteSession(h)
  PROVE  Served(h)
  <1> DEFINE r == req[h]
  <1>1. TypeOK /\ Asked(h)
    BY DEF AnswerInv, HandlerSound
  <1>2. r.pc = "fetch" /\ r.kind = "session" /\ r.op = "delete" /\ r.obj \in Sessions
    BY <1>1 DEF DeleteSession, Asked
  <1>3. was'[h].always \subseteq Now(h)'
    BY <1>2, Going
  <1>4. CASE Fails(h)
    BY <1>4, FailsServed
  <1>5. CASE EndSession(r.obj) /\ Answer(h, "deleted")
    <2>1. r.obj \in ended'
      BY <1>5 DEF EndSession
    <2> QED BY <1>2, <1>5, <2>1, AnswerServed DEF Answers
  <1>6. CASE r.obj \notin things /\ things' = things /\ Answer(h, "notFound")
    <2>1. req'[h].kind = "session"
      BY <1>1, <1>2, <1>6, AnswerMoves DEF Answers
    <2>2. r.obj \notin was'[h].always
      BY <1>3, <1>6, <2>1, NowFactsNext
    <2> QED BY <1>2, <1>6, <2>2, AnswerServed DEF Answers
  <1> QED BY <1>4, <1>5, <1>6 DEF DeleteSession

LEMMA ServeServed ==
  ASSUME AnswerInv, NEW h \in Handlers, Watch, Serve(h)
  PROVE  Served(h)
  BY LookupServed, AddKeyServed, ListAccountsServed, ListKeysServed, LookupOwnerServed, RemoveKeyServed,
     ReviewServed, ListSessionsServed, ListPasskeysServed, ListIDPLinksServed, FetchLocalServed,
     GetSessionServed, DeleteSessionServed DEF Serve

-----------------------------------------------------------------------------
(* A new request *)

Request(r, kind, op, name, obj, own) ==
    /\ r \in RequestRecords
    /\ r.kind = kind /\ r.op = op /\ r.name = name /\ r.obj = obj /\ r.own = own
    /\ r.pc = "done" /\ r.seen = {} /\ r.ans = ""

LEMMA NewRequestFacts ==
  ASSUME NEW kind \in {"", "key", "session", "passkey", "identity"},
         NEW op \in {"", "create", "list", "get", "delete"},
         NEW name \in Names \cup {None}, NEW obj \in Objects \cup {None}, NEW own \in BOOLEAN
  PROVE  Request(NewRequest(kind, op, name, obj, own), kind, op, name, obj, own)
  BY DEF Request, NewRequest, RequestRecords, Steps, Answers

LEMMA RequestFacts ==
  ASSUME TypeOK, NEW r \in Requests
  PROVE  /\ r \in RequestRecords /\ r.kind # "" /\ r.seen = {}
         /\ r.kind = "key" => /\ r.own
                              /\ r.name # None => r.op \in {"create", "list"}
                              /\ r.name = None => r.op \in {"list", "get", "delete"}
                              /\ r.op \in {"get", "delete"} => r.obj \in Keys /\ owner[r.obj] # None
         /\ r.op = "create" => r.kind = "key"
         /\ r.kind \in {"passkey", "identity"} => r.op \in {"list", "get"}
         /\ r.kind = "session" /\ r.op # "list" => r.obj \in Sessions
  <1> DEFINE Registered == {j \in Keys : owner[j] # None}
             Named(op, k) == NewRequest("key", op, None, k, TRUE)
             S1 == {NewRequest("key", "create", n, None, TRUE) : n \in Names}
             S2 == {NewRequest("key", "list", n, None, TRUE) : n \in Names \cup {None}}
             S3 == {Named(op, k) : op \in {"get", "delete"}, k \in Registered}
             S4 == {NewRequest(kind, "list", None, None, own) :
                     kind \in {"session", "passkey", "identity"}, own \in BOOLEAN}
             S5 == {NewRequest("session", op, None, s, own) :
                     op \in {"get", "delete"}, s \in Sessions, own \in BOOLEAN}
             S6 == {NewRequest("passkey", "get", None, p, TRUE) : p \in Passkeys}
             S7 == {NewRequest("identity", "get", None, i, TRUE) : i \in Providers \cup {"local"}}
  <1>0. KeyRequests = S1 \cup S2 \cup S3 /\ PersonRequests = S4 \cup S5 \cup S6 \cup S7
    BY DEF KeyRequests, PersonRequests
  <1> HIDE DEF Registered, Named, S1, S2, S3, S4, S5, S6, S7
  <1>1. CASE r \in S1
    <2>1. PICK n \in Names : r = NewRequest("key", "create", n, None, TRUE)
      BY <1>1 DEF S1
    <2>2. Request(r, "key", "create", n, None, TRUE) /\ n # None
      BY <2>1, NewRequestFacts, NoneAssumption
    <2> QED BY <2>2 DEF Request
  <1>2. CASE r \in S2
    <2>1. PICK n \in Names \cup {None} : r = NewRequest("key", "list", n, None, TRUE)
      BY <1>2 DEF S2
    <2>2. Request(r, "key", "list", n, None, TRUE)
      BY <2>1, NewRequestFacts
    <2> QED BY <2>2 DEF Request
  <1>3. CASE r \in S3
    <2>1. PICK op \in {"get", "delete"}, k \in Registered : r = Named(op, k)
      BY <1>3 DEF S3
    <2>2. Request(r, "key", op, None, k, TRUE)
      BY <2>1, NewRequestFacts DEF Objects, Registered, Named
    <2> QED BY <2>1, <2>2 DEF Request, Registered
  <1>4. CASE r \in S4
    <2>1. PICK kind \in {"session", "passkey", "identity"}, own \in BOOLEAN :
                 r = NewRequest(kind, "list", None, None, own)
      BY <1>4 DEF S4
    <2>2. Request(r, kind, "list", None, None, own)
      BY <2>1, NewRequestFacts
    <2> QED BY <2>2 DEF Request
  <1>5. CASE r \in S5
    <2>1. PICK op \in {"get", "delete"}, s \in Sessions, own \in BOOLEAN :
                 r = NewRequest("session", op, None, s, own)
      BY <1>5 DEF S5
    <2>2. Request(r, "session", op, None, s, own)
      BY <2>1, NewRequestFacts DEF Objects, Things
    <2> QED BY <2>2 DEF Request
  <1>6. CASE r \in S6
    <2>1. PICK p \in Passkeys : r = NewRequest("passkey", "get", None, p, TRUE)
      BY <1>6 DEF S6
    <2>2. Request(r, "passkey", "get", None, p, TRUE)
      BY <2>1, NewRequestFacts DEF Objects, Things
    <2> QED BY <2>2 DEF Request
  <1>7. CASE r \in S7
    <2>1. PICK i \in Providers \cup {"local"} : r = NewRequest("identity", "get", None, i, TRUE)
      BY <1>7 DEF S7
    <2>2. Request(r, "identity", "get", None, i, TRUE)
      BY <2>1, NewRequestFacts DEF Objects, Things
    <2> QED BY <2>2 DEF Request
  <1> QED BY <1>0, <1>1, <1>2, <1>3, <1>4, <1>5, <1>6, <1>7 DEF Requests

LEMMA NoRequestFacts ==
  /\ NoRequest \in RequestRecords /\ NoRequest.kind = "" /\ NoRequest.op = ""
  /\ NoRequest.pc = "done" /\ NoRequest.ans = ""
  BY DEF NoRequest, NewRequest, RequestRecords, Steps, Answers

\* A handler without a question is sound whatever it answered (but for "deleted")
LEMMA IdleSound ==
  ASSUME NEW h \in Handlers, Watch, req'[h].kind = "", req'[h].op = "", req'[h].pc = "done",
         req'[h].ans # "deleted"
  PROVE  HandlerSound(h)'
  <1>1. Asked(h)' /\ Placed(h)' /\ Watched(h)' /\ Knows(h)' /\ Verdict(h)'
    BY DEF Asked, Placed, Watched, Knows, Verdict
  <1> QED BY <1>1 DEF HandlerSound

LEMMA ReceiveSound ==
  ASSUME AnswerInv, NEW h \in Handlers, NEW r \in Requests, Watch, Receive(h, r)
  PROVE  HandlerSound(h)' /\ \E s \in RequestRecords : req' = [req EXCEPT ![h] = s]
  <1>1. TypeOK
    BY DEF AnswerInv
  <1>2. req[h].pc = "done" /\ owner' = owner
    BY DEF Receive, keyVars
  <1>3. CASE Become(h, [NoRequest EXCEPT !.ans = "badRequest"])
    <2> DEFINE n == NoRequest
               s == [n EXCEPT !.ans = "badRequest"]
    <2>1. n \in RequestRecords /\ n.kind = "" /\ n.op = "" /\ n.pc = "done"
      BY NoRequestFacts
    <2>2. Become(h, s)
      BY <1>3
    <2> HIDE DEF n
    <2>3. s \in RequestRecords /\ s.kind = "" /\ s.op = "" /\ s.pc = "done" /\ s.ans # "deleted"
      BY <2>1 DEF RequestRecords, Answers
    <2> HIDE DEF s
    <2>4. req' = [req EXCEPT ![h] = s] /\ req'[h] = s
      BY <1>1, <2>2, <2>3, MovesFacts
    <2> QED BY <2>3, <2>4, IdleSound
  <1>4. CASE Become(h, [r EXCEPT !.pc = FirstStep(r)])
    <2> DEFINE pc == FirstStep(r)
               s == [r EXCEPT !.pc = pc]
    <2>1. r \in RequestRecords /\ r.kind # "" /\ r.seen = {}
      BY <1>1, RequestFacts
    <2>2. /\ pc \in Steps /\ pc # "done" /\ pc \in {"lookup", "listAccounts", "review", "fetch"}
          /\ r.kind = "key" <=> pc \in KeySteps
          /\ pc = "lookup" => r.name # None /\ r.kind = "key"
          /\ pc = "listAccounts" => r.name = None /\ r.kind = "key"
          /\ pc = "review" => r.op = "list"
          /\ pc = "fetch" => ~(r.op = "list" /\ ~r.own)
      BY DEF FirstStep, Steps, KeySteps
    <2>3. Become(h, s)
      BY <1>4
    <2> HIDE DEF pc
    <2>4. s \in RequestRecords /\ SameQuestion(r, s) /\ s.obj = r.obj /\ s.pc = pc /\ s.seen = {}
      BY <2>1, <2>2 DEF RequestRecords, SameQuestion
    <2> HIDE DEF s
    <2>5. req' = [req EXCEPT ![h] = s] /\ req'[h] = s
      BY <1>1, <2>3, <2>4, MovesFacts
    <2>6. s.kind = r.kind /\ s.op = r.op /\ s.name = r.name /\ s.own = r.own
      BY <2>4 DEF SameQuestion
    <2>7. Asked(h)'
      <3>1. /\ r.kind = "key" => r.own /\ (r.op \in {"get", "delete"} => r.obj \in Keys /\ owner[r.obj] # None)
            /\ r.op = "create" => r.kind = "key"
            /\ r.kind \in {"passkey", "identity"} => r.op \in {"list", "get"}
            /\ r.kind = "session" /\ r.op # "list" => r.obj \in Sessions
        BY <1>1, RequestFacts
      <3> QED BY <1>2, <2>4, <2>5, <2>6, <3>1 DEF Asked
    <2>8. Placed(h)'
      <3>1. pc = "lookup" => r.op \in {"create", "list"}
        BY <1>1, <2>2, RequestFacts
      <3>2. pc = "listAccounts" => r.op \in {"list", "get", "delete"}
        BY <1>1, <2>2, RequestFacts
      <3> QED BY <2>1, <2>2, <2>4, <2>5, <2>6, <3>1, <3>2 DEF Placed
    <2>9. Knows(h)'
      BY <2>2, <2>4, <2>5, <2>6 DEF Knows
    <2>10. Watched(h)' /\ Verdict(h)'
      BY <2>2, <2>4, <2>5, WatchedNext DEF Verdict
    <2> QED BY <2>4, <2>5, <2>7, <2>8, <2>9, <2>10 DEF HandlerSound
  <1> QED BY <1>3, <1>4 DEF Receive

LEMMA ReceiveWorld ==
  ASSUME TypeOK, WorldSound, NEW h, NEW r, Receive(h, r)
  PROVE  WorldType' /\ WorldSound' /\ Onward
  <1>1. UNCHANGED <<keyVars, given, personVars>> /\ requests' \in Nat /\ changes' \in Nat /\ faults' \in Nat
    BY DEF Receive, TypeOK
  <1> QED BY <1>1, ReadsWorld

-----------------------------------------------------------------------------
(* The invariant *)

LEMMA AnswerInvInit == Init => AnswerInv
  <1> SUFFICES ASSUME Init PROVE AnswerInv
    OBVIOUS
  <1>1. PICK n \in Names, others \in BOOLEAN :
          /\ account = [m \in Names |-> IF m = n \/ others THEN [gen |-> 1, exists |-> TRUE]
                                                           ELSE [gen |-> 0, exists |-> FALSE]]
          /\ owner = [k \in Keys |-> IF k = FirstKey THEN <<n, 1>> ELSE None]
    BY DEF Init
  <1>2. /\ live = {FirstKey} /\ given = {FirstKey} /\ person = TRUE /\ things \in {{}, Things} /\ ended = {}
        /\ grant \in BOOLEAN /\ req = [h \in Handlers |-> NoRequest]
        /\ was = [h \in Handlers |-> [ever |-> {}, always |-> {}, granted |-> FALSE]]
        /\ requests = 0 /\ changes = 0 /\ faults = 0 /\ subject \in {"project", "person"}
    BY DEF Init
  <1>3. 1 \in 1 .. MaxGeneration /\ 0 \in 0 .. MaxGeneration /\ 1 \in 0 .. MaxGeneration
    BY ConstantsAssumption
  <1>4. account \in [Names -> [gen : 0 .. MaxGeneration, exists : BOOLEAN]]
    BY <1>1, <1>3
  <1>5. <<n, 1>> \in MachineUser
    BY <1>3 DEF MachineUser
  <1>6. owner \in [Keys -> MachineUser \cup {None}] /\ FirstKey \in Keys
    BY <1>1, <1>5, ConstantsAssumption
  <1>7. TypeOK
    BY <1>2, <1>4, <1>6, NoRequestFacts DEF TypeOK
  <1>8. WorldSound
    <2>1. <<n, 1>> # None
      BY <1>5, NoneAssumption
    <2>2. account[n].gen = 1 /\ account[n].exists
      BY <1>1
    <2>3. \A m \in Names : account[m].exists => account[m].gen >= 1
      BY <1>1
    <2>4. \A k \in Keys : owner[k] # None => owner[k] = <<n, 1>>
      BY <1>1
    <2>5. owner[FirstKey] = <<n, 1>>
      BY <1>1, <1>6
    <2>6. \A k \in Keys : owner[k] # None => owner[k][1] = n /\ owner[k][2] = 1
      BY <2>4
    <2>7. /\ owner[FirstKey] # None /\ account[owner[FirstKey][1]].exists
          /\ owner[FirstKey] = Generation(owner[FirstKey][1])
      BY <2>1, <2>2, <2>5 DEF Generation
    <2>8. \A k \in Keys : owner[k] # None => owner[k][2] <= account[owner[k][1]].gen
      BY <2>2, <2>6
    <2> QED BY <1>2, <2>3, <2>7, <2>8 DEF WorldSound
  <1>9. ASSUME NEW h \in Handlers PROVE HandlerSound(h)
    <2>1. req[h].kind = "" /\ req[h].op = "" /\ req[h].pc = "done" /\ req[h].ans = ""
      BY <1>2, NoRequestFacts
    <2>2. Asked(h) /\ Placed(h) /\ Watched(h) /\ Knows(h) /\ Verdict(h)
      BY <2>1 DEF Asked, Placed, Watched, Knows, Verdict
    <2> QED BY <2>2 DEF HandlerSound
  <1> QED BY <1>7, <1>8, <1>9 DEF AnswerInv

LEMMA NextTypeOK ==
  ASSUME TypeOK, WorldType', Watch, req' \in [Handlers -> RequestRecords], subject' = subject
  PROVE  TypeOK'
  <1>1. ASSUME NEW h \in Handlers PROVE Now(h)' \subseteq Objects
    <2>1. req'[h].kind \in {"", "key", "session", "passkey", "identity"}
      BY DEF RequestRecords
    <2>2. /\ live' \subseteq Objects /\ things' \subseteq Objects /\ Identities' \subseteq Objects
          /\ Names \subseteq Objects
      BY DEF WorldType, Objects, Identities
    <2> QED BY <2>1, <2>2, NowFactsNext
  <1>2. was' \in [Handlers -> [ever : SUBSET Objects, always : SUBSET Objects, granted : BOOLEAN]]
    BY <1>1, WatchType DEF TypeOK, WorldType
  <1> QED BY <1>2 DEF TypeOK, WorldType

LEMMA MoverSound ==
  ASSUME AnswerInv, Onward, Watch, NEW h \in Handlers, Served(h)
  PROVE  HandlerSound(h)'
  <1>1. TypeOK /\ Asked(h)
    BY DEF AnswerInv, HandlerSound
  <1>2. SameQuestion(req[h], req'[h])
    BY <1>1 DEF Served, Moves, TypeOK
  <1>3. Asked(h)'
    BY <1>1, <1>2 DEF Asked, SameQuestion, Onward
  <1>4. Watched(h)'
    BY WatchedNext
  <1> QED BY <1>3, <1>4 DEF HandlerSound, Served

LEMMA AnswerInvNext ==
  ASSUME AnswerInv, [Next]_vars
  PROVE  AnswerInv'
  <1>1. TypeOK /\ WorldSound
    BY DEF AnswerInv
  <1>2. CASE Next
    <2>1. Watch /\ subject' = subject
      BY <1>2 DEF Next
    <2>2. CASE Environment
      <3>1. WorldType' /\ WorldSound' /\ Onward /\ req' = req
        BY <1>1, <2>2, EnvironmentWorld
      <3>2. TypeOK'
        BY <1>1, <2>1, <3>1, NextTypeOK DEF TypeOK
      <3>3. \A g \in Handlers : HandlerSound(g)'
        BY <2>1, <3>1, BystanderSound
      <3> QED BY <3>1, <3>2, <3>3 DEF AnswerInv
    <2>3. ASSUME NEW h \in Handlers, Serve(h) \/ \E r \in Requests : Receive(h, r) PROVE AnswerInv'
      <3>1. WorldType' /\ WorldSound' /\ Onward
        BY <1>1, <2>3, ServeWorld, ReceiveWorld
      <3>2. HandlerSound(h)' /\ \E s \in RequestRecords : req' = [req EXCEPT ![h] = s]
        <4>1. CASE Serve(h)
          <5>1. Served(h)
            BY <2>1, <4>1, ServeServed
          <5> QED BY <2>1, <3>1, <5>1, MoverSound DEF Served, Moves
        <4>2. CASE \E r \in Requests : Receive(h, r)
          BY <2>1, <4>2, ReceiveSound
        <4> QED BY <2>3, <4>1, <4>2
      <3>3. req' \in [Handlers -> RequestRecords] /\ \A g \in Handlers : g # h => req'[g] = req[g]
        BY <1>1, <3>2 DEF TypeOK
      <3>4. TypeOK'
        BY <1>1, <2>1, <3>1, <3>3, NextTypeOK
      <3>5. \A g \in Handlers : HandlerSound(g)'
        BY <2>1, <3>1, <3>2, <3>3, BystanderSound
      <3> QED BY <3>1, <3>4, <3>5 DEF AnswerInv
    <2> QED BY <1>2, <2>2, <2>3 DEF Next
  <1>3. CASE UNCHANGED vars
    <2>1. TypeOK' /\ WorldSound'
      BY <1>1, <1>3 DEF vars, keyVars, personVars, TypeOK, WorldSound, Generation
    <2>2. ASSUME NEW h \in Handlers PROVE HandlerSound(h)'
      <3>1. HandlerSound(h) /\ UNCHANGED <<account, owner, live, person, things, ended, req, was>>
        BY <1>3 DEF AnswerInv, vars, keyVars, personVars
      <3>2. Now(h)' = Now(h)
        BY <3>1 DEF Now, Existing, Identities
      <3>3. Asked(h)' /\ Placed(h)' /\ Watched(h)'
        BY <3>1, <3>2 DEF HandlerSound, Asked, Placed, Watched
      <3>4. Knows(h)'
        BY <3>1 DEF HandlerSound, Knows, Generation
      <3>5. Verdict(h)'
        BY <3>1 DEF HandlerSound, Verdict
      <3> QED BY <3>3, <3>4, <3>5 DEF HandlerSound
    <2> QED BY <2>1, <2>2 DEF AnswerInv
  <1> QED BY <1>2, <1>3

LEMMA AnswerInvariant == Spec => []AnswerInv
  BY AnswerInvInit, AnswerInvNext, PTL DEF Spec

-----------------------------------------------------------------------------
(* Keys nobody holds the credentials of *)

KeyInv == IsFiniteSet(live \ given) /\ UndeliveredKeysBounded

\* A step leaves no more undelivered keys, or one more, through a failed AddKey.
LEMMA UndeliveredStep ==
  ASSUME TypeOK, [Next]_vars
  PROVE  \/ live' \ given' \subseteq live \ given /\ faults' \in {faults, faults + 1}
         \/ \E k : live' \ given' \subseteq (live \ given) \cup {k} /\ faults' = faults + 1
  <1>0. faults \in Nat
    BY DEF TypeOK
  <1> DEFINE Fewer == live' \subseteq live /\ given' = given /\ faults' \in {faults, faults + 1}
  <1>1. Fewer => live' \ given' \subseteq live \ given /\ faults' \in {faults, faults + 1}
    BY <1>0
  <1>2. CASE UNCHANGED vars
    BY <1>0, <1>2 DEF vars, keyVars
  <1>3. CASE Environment
    <2>1. Fewer
      BY <1>3 DEF Environment, CreateAccount, DeleteAccount, Appear, Disappear, DeletePerson,
                  ChangeGrant, Change, keyVars
    <2> QED BY <1>1, <2>1
  <1>4. ASSUME NEW h \in Handlers, NEW r \in Requests, Receive(h, r)
        PROVE  Fewer
    BY <1>4 DEF Receive, keyVars
  <1>5. ASSUME NEW h \in Handlers, Serve(h), ~AddKey(h)
        PROVE  Fewer
    <2>1. live' \subseteq live /\ given' = given
      BY <1>5 DEF Serve, Lookup, ListAccounts, ListKeys, LookupOwner, RemoveKey, Review,
                  ListSessions, ListPasskeys, ListIDPLinks, FetchLocal, GetSession, DeleteSession,
                  Reads, keyVars
    <2>2. Fault \/ NoFault
      BY <1>5 DEF Serve, Lookup, ListAccounts, ListKeys, LookupOwner, RemoveKey, RemoveFails, Review,
                  ListSessions, ListPasskeys, ListIDPLinks, FetchLocal, GetSession, DeleteSession,
                  Listed, Refused, Fails
    <2> QED BY <2>1, <2>2 DEF Fault, NoFault
  <1>6. ASSUME NEW h \in Handlers, AddKey(h)
        PROVE  \/ live' \ given' \subseteq live \ given /\ faults' \in {faults, faults + 1}
               \/ \E k : live' \ given' \subseteq (live \ given) \cup {k} /\ faults' = faults + 1
    <2>1. CASE UNCHANGED <<owner, live, given>>
      <3>1. Fault \/ NoFault
        BY <1>6 DEF AddKey, Fails
      <3> QED BY <1>1, <2>1, <3>1 DEF Fault, NoFault
    <2>2. CASE ~UNCHANGED <<owner, live, given>>
      <3>1. PICK k \in Keys : /\ live' = live \cup {k}
                              /\ \/ given' = given \cup {k} /\ faults' = faults
                                 \/ given' = given /\ faults' = faults + 1
        BY <1>6, <2>2 DEF AddKey, Register, Fails, Fault, NoFault
      <3>2. CASE given' = given \cup {k} /\ faults' = faults
        BY <1>0, <3>1, <3>2
      <3>3. CASE given' = given /\ faults' = faults + 1
        <4>1. live' \ given' \subseteq (live \ given) \cup {k}
          BY <3>1, <3>3
        <4> QED BY <3>3, <4>1
      <3> QED BY <3>1, <3>2, <3>3
    <2> QED BY <2>1, <2>2
  <1> QED BY <1>1, <1>2, <1>3, <1>4, <1>5, <1>6 DEF Next

LEMMA KeyInvNext ==
  ASSUME TypeOK, KeyInv, [Next]_vars
  PROVE  KeyInv'
  <1> DEFINE S == live \ given
             T == live' \ given'
  <1>1. IsFiniteSet(S) /\ Cardinality(S) <= faults /\ faults \in Nat /\ Cardinality(S) \in Nat
    BY FS_CardinalityType DEF KeyInv, UndeliveredKeysBounded, TypeOK
  <1>2. \/ T \subseteq S /\ faults' \in {faults, faults + 1}
        \/ \E k : T \subseteq S \cup {k} /\ faults' = faults + 1
    BY UndeliveredStep
  <1> SUFFICES IsFiniteSet(T) /\ Cardinality(T) <= faults'
    BY DEF KeyInv, UndeliveredKeysBounded
  <1> HIDE DEF S, T
  <1>3. CASE T \subseteq S /\ faults' \in {faults, faults + 1}
    <2>1. IsFiniteSet(T) /\ Cardinality(T) <= Cardinality(S) /\ Cardinality(T) \in Nat
      BY <1>1, <1>3, FS_Subset, FS_CardinalityType
    <2> QED BY <1>1, <1>3, <2>1
  <1>4. ASSUME NEW k, T \subseteq S \cup {k}, faults' = faults + 1
        PROVE  IsFiniteSet(T) /\ Cardinality(T) <= faults'
    <2>1. IsFiniteSet(S \cup {k}) /\ Cardinality(S \cup {k}) \in {Cardinality(S), Cardinality(S) + 1}
      BY <1>1, FS_AddElement
    <2>2. IsFiniteSet(T) /\ Cardinality(T) <= Cardinality(S \cup {k}) /\ Cardinality(T) \in Nat
      BY <1>4, <2>1, FS_Subset, FS_CardinalityType
    <2> QED BY <1>1, <1>4, <2>1, <2>2
  <1> QED BY <1>2, <1>3, <1>4

LEMMA KeyInvariant == Spec => []KeyInv
  <1>1. Init => KeyInv
    <2> SUFFICES ASSUME Init PROVE KeyInv
      OBVIOUS
    <2>1. live \ given = {} /\ faults = 0
      BY DEF Init
    <2> QED BY <2>1, FS_EmptySet DEF KeyInv, UndeliveredKeysBounded
  <1>2. TypeOK /\ KeyInv /\ [Next]_vars => KeyInv'
    BY KeyInvNext
  <1>3. AnswerInv => TypeOK
    BY DEF AnswerInv
  <1> QED BY <1>1, <1>2, <1>3, AnswerInvariant, PTL DEF Spec

-----------------------------------------------------------------------------
(* The theorems *)

(* The type invariant holds for any handlers, accounts, keys, page size and bounds. *)
THEOREM TypeCorrect == Spec => []TypeOK
  <1>1. AnswerInv => TypeOK
    BY DEF AnswerInv
  <1> QED BY <1>1, AnswerInvariant, PTL

(* Get and Delete of the four resources: with any number of requests served at once and
   any changes in Zitadel between their calls, an object returned existed, one not found
   did not (or the listing was cut off, or its account cannot be found by its login name),
   and one whose deletion was confirmed is gone; a Create that finds no account did so at
   a time when there was none. *)
THEOREM AnswersHold == Spec => []AnswersTrue
  <1>1. AnswerInv => AnswersTrue
    <2> SUFFICES ASSUME AnswerInv, NEW h \in Handlers, Done(h)
                 PROVE  LET r == req[h] IN
                        /\ r.op = "get" /\ r.ans = "ok" => r.obj \in was[h].ever
                        /\ r.op \in {"get", "delete"} /\ r.ans = "notFound" =>
                              \/ r.obj \notin was[h].always
                              \/ r.cut
                              \/ r.kind = "key" /\ owner[r.obj] # None /\ owner[r.obj][1] \in Suffixed
                        /\ r.ans = "deleted" => r.obj \notin Existing(r)
                        /\ r.op = "create" /\ r.ans = "notFound" => r.name \notin was[h].always
      BY DEF AnswersTrue
    <2>1. WorldSound /\ Verdict(h)
      BY DEF AnswerInv, HandlerSound
    <2>2. ASSUME req[h].ans = "deleted" PROVE req[h].obj \notin Now(h)
      BY <2>1, <2>2, NowFacts DEF Done, Verdict, WorldSound
    <2> QED BY <2>1, <2>2 DEF Done, Verdict, Now
  <1> QED BY <1>1, AnswerInvariant, PTL

(* List of the four resources: a listing put together account by account, or from the
   links and the user, holds nothing that did not exist while it was served and, unless a
   page was cut off, all that existed all the time. *)
THEOREM ListsHold == Spec => []ListsTrue
  <1>1. AnswerInv => ListsTrue
    BY DEF AnswerInv, HandlerSound, Verdict, ListsTrue, Done
  <1> QED BY <1>1, AnswerInvariant, PTL

(* CanGetUser: what is listed for somebody else was allowed during the same request, for
   any interleaving of requests and changes of the permission. *)
THEOREM ForeignReadsAllowed == Spec => []ForeignReadsGranted
  <1>1. AnswerInv => ForeignReadsGranted
    BY DEF AnswerInv, HandlerSound, Verdict, ForeignReadsGranted, Done
  <1> QED BY <1>1, AnswerInvariant, PTL

(* AddMachineKeyInOrganization, buildDatumCredentials: keys whose credentials nobody got
   are at most as many as calls that failed. *)
THEOREM UndeliveredBounded == Spec => []UndeliveredKeysBounded
  <1>1. KeyInv => UndeliveredKeysBounded
    BY DEF KeyInv
  <1> QED BY <1>1, KeyInvariant, PTL

=============================================================================
