---------------------------- MODULE IdentityAPI ----------------------------
(***************************************************************************)
(* The aggregated API server's resources that are backed by Zitadel        *)
(* (internal/apiserver/identity): service account keys of one project, and *)
(* sessions, passkeys and identities of one person, read by herself or by  *)
(* somebody else.  The server keeps nothing: a request is a sequence of    *)
(* calls to Zitadel and to milo's SubjectAccessReview, and what it found   *)
(* in one call may be gone at the next.                                    *)
(*                                                                         *)
(* Zitadel and milo change by themselves, among others through the         *)
(* controllers of ServiceAccounts, which create and delete the machine     *)
(* users.  A service account that is created again under its name is       *)
(* another machine user: <<name, generation>>.                             *)
(*                                                                         *)
(* Keys and persons share nothing, so a behaviour is about one of the two: *)
(* its subject.                                                            *)
(***************************************************************************)
EXTENDS Naturals, FiniteSets

CONSTANTS
    Handlers,      \* goroutines that serve requests
    Names,         \* user names of the project's service accounts
    Suffixed,      \* those whose preferred login name is not their user name
    Keys,          \* IDs Zitadel gives to machine keys
    FirstKey,      \* the key that exists at the start
    Sessions, Passkeys, Providers,
    HasLoginName,  \* the person has a login name
    QueryLimit,    \* rows Zitadel lists for a query that asks for no number
    None,
    MaxGeneration, MaxRequests, MaxChanges, MaxFaults

ASSUME ConstantsAssumption ==
    /\ Suffixed \subseteq Names
    /\ FirstKey \in Keys
    /\ QueryLimit \in Nat \ {0}
    /\ MaxRequests \in Nat /\ MaxChanges \in Nat /\ MaxFaults \in Nat
    /\ MaxGeneration \in Nat \ {0}

VARIABLES
    subject,   \* "project" or "person": what the requests are about
    account,   \* generation of each service account, and whether it exists
    owner,     \* the machine user each key was registered for
    live,      \* the keys in Zitadel
    given,     \* history: keys whose Create was answered with success
    person,    \* the person exists in Zitadel
    things,    \* her sessions, passkeys and linked providers
    ended,     \* history: sessions and passkeys that are over
    grant,     \* milo allows others to get the person
    req,       \* the request each handler works on
    was,       \* history: what existed during the request
    requests, changes, faults

keyVars == <<account, owner, live>>
personVars == <<person, things, ended, grant>>
vars == <<subject, keyVars, given, personVars, req, was, requests, changes, faults>>

-----------------------------------------------------------------------------
(* Data *)

Things == Sessions \cup Passkeys \cup Providers
MachineUser == Names \X (1 .. MaxGeneration)
ASSUME NoneAssumption == None \notin Names /\ None \notin MachineUser
Generation(n) == <<n, account[n].gen>>
MachineUsers == {Generation(n) : n \in {m \in Names : account[m].exists}}
KeysOf(u) == {k \in live : owner[k] = u}

\* What a request is about as it is now: for Create the account, else what a listing of
\* the kind holds; identities are the linked providers, or one made
\* up from the login name of a user without any.
Identities ==
    IF things \cap Providers # {} THEN things \cap Providers
    ELSE IF person /\ HasLoginName THEN {"local"} ELSE {}
Existing(r) ==
    CASE r.kind = "key" /\ r.op = "create" -> {n \in Names : n = r.name /\ account[n].exists}
      [] r.kind = "key" /\ r.op # "create" ->
            {k \in live : r.op = "list" /\ r.name # None => owner[k][1] = r.name}
      [] r.kind = "session"  -> things \cap Sessions
      [] r.kind = "passkey"  -> things \cap Passkeys
      [] r.kind = "identity" -> Identities
      [] OTHER               -> {}

\* name is the service account named by the client (or None), obj the object named,
\* own whether the caller is the person; user, todo, seen and cut are local variables:
\* the machine user found, those still to list, the objects listed, and whether a
\* listing was longer than a page.
NewRequest(kind, op, name, obj, own) ==
    [kind |-> kind, op |-> op, name |-> name, obj |-> obj, own |-> own, pc |-> "done",
     user |-> None, todo |-> {}, seen |-> {}, cut |-> FALSE, ans |-> ""]
NoRequest == NewRequest("", "", None, None, TRUE)

KeyRequests ==
    {NewRequest("key", "create", n, None, TRUE) : n \in Names}
    \cup {NewRequest("key", "list", n, None, TRUE) : n \in Names \cup {None}}
    \cup {NewRequest("key", op, None, k, TRUE) :
        op \in {"get", "delete"}, k \in {j \in Keys : owner[j] # None}}
\* Passkeys and identities are only ever looked up by name among the caller's own.
PersonRequests ==
    {NewRequest(kind, "list", None, None, own) :
        kind \in {"session", "passkey", "identity"}, own \in BOOLEAN}
    \cup {NewRequest("session", op, None, s, own) :
        op \in {"get", "delete"}, s \in Sessions, own \in BOOLEAN}
    \cup {NewRequest("passkey", "get", None, p, TRUE) : p \in Passkeys}
    \cup {NewRequest("identity", "get", None, i, TRUE) : i \in Providers \cup {"local"}}

Requests == IF subject = "project" THEN KeyRequests ELSE PersonRequests

Steps == {"lookup", "addKey", "listAccounts", "listKeys", "lookupOwner", "removeKey",
          "review", "fetch", "local", "done"}
Answers == {"", "ok", "deleted", "notFound", "forbidden", "badRequest", "error"}
Objects == Keys \cup Names \cup Things \cup {"local"}
RequestRecords ==
    [kind : {"", "key", "session", "passkey", "identity"},
     op : {"", "create", "list", "get", "delete"},
     name : Names \cup {None}, obj : Objects \cup {None}, own : BOOLEAN, pc : Steps,
     user : MachineUser \cup {None}, todo : SUBSET MachineUser, seen : SUBSET Objects,
     cut : BOOLEAN, ans : Answers]

TypeOK ==
    /\ subject \in {"project", "person"}
    /\ account \in [Names -> [gen : 0 .. MaxGeneration, exists : BOOLEAN]]
    /\ owner \in [Keys -> MachineUser \cup {None}]
    /\ live \subseteq Keys /\ given \subseteq Keys
    /\ person \in BOOLEAN /\ grant \in BOOLEAN
    /\ things \subseteq Things /\ ended \subseteq Things
    /\ req \in [Handlers -> RequestRecords]
    /\ was \in [Handlers -> [ever : SUBSET Objects, always : SUBSET Objects, granted : BOOLEAN]]
    /\ requests \in Nat /\ changes \in Nat /\ faults \in Nat

Init ==
    /\ subject \in {"project", "person"}
    /\ \E n \in Names, others \in BOOLEAN :
        /\ subject = "person" => others /\ n = CHOOSE m \in Names : TRUE
        /\ account = [m \in Names |-> IF m = n \/ others THEN [gen |-> 1, exists |-> TRUE]
                                                         ELSE [gen |-> 0, exists |-> FALSE]]
        /\ owner = [k \in Keys |-> IF k = FirstKey THEN <<n, 1>> ELSE None]
    /\ live = {FirstKey} /\ given = {FirstKey}
    /\ person = TRUE
    /\ things \in IF subject = "person" THEN {{}, Things} ELSE {{}}
    /\ ended = {}
    /\ grant \in IF subject = "person" THEN BOOLEAN ELSE {FALSE}
    /\ req = [h \in Handlers |-> NoRequest]
    /\ was = [h \in Handlers |-> [ever |-> {}, always |-> {}, granted |-> FALSE]]
    /\ requests = 0 /\ changes = 0 /\ faults = 0

Fault == faults < MaxFaults /\ faults' = faults + 1
NoFault == UNCHANGED faults
Change == changes < MaxChanges /\ changes' = changes + 1 /\ UNCHANGED <<given, req, requests, faults>>

-----------------------------------------------------------------------------
(* Zitadel and milo change (outside this code) *)

CreateAccount(n) ==
    /\ ~account[n].exists /\ account[n].gen < MaxGeneration
    /\ account' = [account EXCEPT ![n] = [gen |-> @.gen + 1, exists |-> TRUE]]
    /\ Change
    /\ UNCHANGED <<owner, live, personVars>>

\* A machine user's keys go with it.
DeleteAccount(n) ==
    /\ account[n].exists
    /\ account' = [account EXCEPT ![n].exists = FALSE]
    /\ live' = live \ KeysOf(Generation(n))
    /\ Change
    /\ UNCHANGED <<owner, personVars>>

Appear(t) ==
    /\ person /\ t \notin things /\ t \notin ended
    /\ things' = things \cup {t}
    /\ Change
    /\ UNCHANGED <<keyVars, person, ended, grant>>

Disappear(t) ==
    /\ t \in things
    /\ things' = things \ {t}
    /\ ended' = ended \cup ({t} \ Providers)
    /\ Change
    /\ UNCHANGED <<keyVars, person, grant>>

DeletePerson ==
    /\ person
    /\ person' = FALSE
    /\ things' = {}
    /\ ended' = ended \cup (things \ Providers)
    /\ Change
    /\ UNCHANGED <<keyVars, grant>>

ChangeGrant ==
    /\ grant' = ~grant
    /\ Change
    /\ UNCHANGED <<keyVars, person, things, ended>>

Environment ==
    \/ /\ subject = "project"
       /\ \E n \in Names : CreateAccount(n) \/ DeleteAccount(n)
    \/ /\ subject = "person"
       /\ (\E t \in Things : Appear(t) \/ Disappear(t)) \/ DeletePerson \/ ChangeGrant

-----------------------------------------------------------------------------
(* Requests *)

Become(h, r) == req' = [req EXCEPT ![h] = r]
Goto(h, pc) == Become(h, [req[h] EXCEPT !.pc = pc])
Answered(r, ans) == [r EXCEPT !.pc = "done", !.ans = ans, !.todo = {}, !.user = None]
Answer(h, ans) == Become(h, Answered(req[h], ans))
\* translateErr: every failure of a call but NotFound, which answers say of missing
\* objects, is some other error of the API; which one is not told apart.
Fails(h) == Answer(h, "error") /\ Fault

Reads == UNCHANGED <<keyVars, given, personVars, requests, changes>>

\* Where the handler begins
FirstStep(r) ==
    IF r.kind = "key" THEN IF r.name # None THEN "lookup" ELSE "listAccounts"
    ELSE IF r.op = "list" /\ ~r.own THEN "review" ELSE "fetch"
\* A request is rejected by the checks that need no call (user, organization, name, and
\* whether there is a client for milo's reviews).
Receive(h, r) ==
    /\ req[h].pc = "done"
    /\ requests < MaxRequests /\ requests' = requests + 1
    /\ Become(h, [r EXCEPT !.pc = FirstStep(r)]) \/ Become(h, [NoRequest EXCEPT !.ans = "badRequest"])
    /\ UNCHANGED <<keyVars, given, personVars, changes, faults>>

\* Of a query without a limit Zitadel returns the first rows only.
Page(rows) == {p \in SUBSET rows : Cardinality(p) = IF Cardinality(rows) < QueryLimit
                                                    THEN Cardinality(rows) ELSE QueryLimit}

\* GetMachineUserByUsername in Create, and in List for a given service account; Create
\* then checks the public key and the expiration.
Lookup(h) ==
    /\ req[h].pc = "lookup"
    /\ LET r == req[h]
           n == r.name IN
       \/ ~account[n].exists /\ Answer(h, "notFound") /\ NoFault
       \/ /\ account[n].exists /\ r.op = "create"
          /\ \/ Become(h, [r EXCEPT !.pc = "addKey", !.user = Generation(n)])
             \/ Answer(h, "badRequest")
          /\ NoFault
       \/ /\ account[n].exists /\ r.op = "list"
          /\ Become(h, [r EXCEPT !.pc = "listKeys", !.todo = {Generation(n)}])
          /\ NoFault
       \/ Fails(h)
    /\ Reads

Register(k, u) ==
    /\ owner' = [owner EXCEPT ![k] = u]
    /\ live' = live \cup {k}

\* The public key is looked at only after the key was added
AddKey_ValidatesLast(h) ==
    /\ req[h].pc = "addKey" /\ req[h].user \in MachineUsers
    /\ \E k \in Keys : owner[k] = None /\ Register(k, req[h].user)
    /\ Answer(h, "badRequest") /\ NoFault
    /\ UNCHANGED <<account, given, personVars, requests, changes>>
\* AddMachineKeyInOrganization and buildDatumCredentials.  The key exists when the
\* credentials cannot be built, and perhaps when the call fails.
AddKey(h) ==
    /\ req[h].pc = "addKey"
    /\ LET r == req[h]
           Unused == {k \in Keys : owner[k] = None} IN
       \/ /\ r.user \in MachineUsers
          /\ \E k \in Unused :
              /\ Register(k, r.user)
              /\ \/ /\ Become(h, [Answered(r, "ok") EXCEPT !.obj = k])
                    /\ given' = given \cup {k}
                    /\ NoFault
                 \/ Fails(h) /\ UNCHANGED given
       \/ r.user \notin MachineUsers /\ Answer(h, "notFound") /\ NoFault /\ UNCHANGED <<owner, live, given>>
       \/ Fails(h) /\ UNCHANGED <<owner, live, given>>
    /\ UNCHANGED <<account, personVars, requests, changes>>

\* List, Get and Delete of a key: ListMachineAccountsInOrganization, then the keys of
\* one account after the other
AfterListing(r) ==
    IF r.op # "list" /\ r.obj \notin r.seen THEN Answered(r, "notFound")
    ELSE IF r.op = "delete" THEN [r EXCEPT !.pc = "lookupOwner"] ELSE Answered(r, "ok")
Continue_First(r) == AfterListing(r)
Continue(r) == IF r.todo = {} THEN AfterListing(r) ELSE [r EXCEPT !.pc = "listKeys"]

ListAccounts(h) ==
    /\ req[h].pc = "listAccounts"
    /\ \/ /\ \E page \in Page(MachineUsers) :
              Become(h, Continue([req[h] EXCEPT !.todo = page, !.cut = page # MachineUsers]))
          /\ NoFault
       \/ Fails(h)
    /\ Reads

ListKeys(h) ==
    /\ req[h].pc = "listKeys"
    /\ \/ /\ \E u \in req[h].todo : \E page \in Page(KeysOf(u)) :
              Become(h, Continue([req[h] EXCEPT !.todo = @ \ {u}, !.seen = @ \cup page,
                                                !.cut = @ \/ page # KeysOf(u)]))
          /\ NoFault
       \/ Fails(h)
    /\ Reads

\* Delete looks the account up again, by the login name the listing showed.
LookupOwner(h) ==
    /\ req[h].pc = "lookupOwner"
    /\ LET n == owner[req[h].obj][1] IN
       \/ /\ n \notin Suffixed /\ account[n].exists
          /\ Become(h, [req[h] EXCEPT !.pc = "removeKey", !.user = Generation(n)])
          /\ NoFault
       \/ (n \in Suffixed \/ ~account[n].exists) /\ Answer(h, "notFound") /\ NoFault
       \/ Fails(h)
    /\ Reads

\* Any error is taken for success
RemoveFails_Swallowed(h) == Answer(h, "deleted") /\ Fault
RemoveFails(h) == Fails(h)
\* RemoveMachineKeyInOrganization, for which NotFound is success
RemoveKey(h) ==
    /\ req[h].pc = "removeKey"
    /\ LET removed == live \ (KeysOf(req[h].user) \cap {req[h].obj}) IN
       \/ live' = removed /\ Answer(h, "deleted") /\ NoFault
       \/ live' \in {live, removed} /\ RemoveFails(h)
    /\ UNCHANGED <<account, owner, given, personVars, requests, changes>>

-----------------------------------------------------------------------------
(* Sessions, passkeys and identities *)

\* Milo's answer is not looked at
Allowed_Always == TRUE
Allowed == grant
\* CanGetUser
Review(h) ==
    /\ req[h].pc = "review"
    /\ \/ Allowed /\ Goto(h, "fetch") /\ NoFault
       \/ ~Allowed /\ Answer(h, "forbidden") /\ NoFault
       \/ Fails(h)
    /\ Reads

\* The listing is searched for the object, if one is named.
Found(r, rows) ==
    IF r.op = "get" /\ r.obj \notin rows THEN Answered(r, "notFound")
    ELSE [Answered(r, "ok") EXCEPT !.seen = rows]

\* A listing of Zitadel answers with one of the pages, or fails; one of a missing user
\* is empty or refused.
Listed(h, pages) ==
    \/ /\ \E rows \in pages :
           Become(h, [Found(req[h], rows) EXCEPT !.cut = rows # Existing(req[h])])
       /\ NoFault
    \/ Fails(h)
Refused(h) == ~person /\ Answer(h, "notFound") /\ NoFault

ListSessions(h) ==
    /\ req[h].pc = "fetch"
    /\ req[h].kind = "session" /\ req[h].op = "list"
    /\ Listed(h, Page(things \cap Sessions)) \/ Refused(h)
    /\ Reads

\* ListPasskeys returns all of them.
ListPasskeys(h) ==
    /\ req[h].pc = "fetch"
    /\ req[h].kind = "passkey"
    /\ Listed(h, {things \cap Passkeys}) \/ Refused(h)
    /\ Reads

\* ListIDPLinks; without links the user is asked for next.
ListIDPLinks(h) ==
    /\ req[h].pc = "fetch"
    /\ req[h].kind = "identity"
    /\ LET links == things \cap Providers IN
       \/ links # {} /\ Listed(h, Page(links))
       \/ links = {} /\ ((Goto(h, "local") /\ NoFault) \/ Refused(h) \/ Fails(h))
    /\ Reads

\* getLocalIdentityLink
FetchLocal(h) ==
    /\ req[h].pc = "local"
    /\ \/ person /\ Become(h, Found(req[h], IF HasLoginName THEN {"local"} ELSE {})) /\ NoFault
       \/ Refused(h)
       \/ Fails(h)
    /\ Reads

\* GetSession, then the owner is compared
GetSession(h) ==
    /\ req[h].pc = "fetch"
    /\ req[h].kind = "session" /\ req[h].op = "get"
    /\ \/ req[h].obj \notin things /\ Answer(h, "notFound") /\ NoFault
       \/ req[h].obj \in things /\ Answer(h, IF req[h].own THEN "ok" ELSE "forbidden") /\ NoFault
       \/ Fails(h)
    /\ Reads

EndSession(s) == things' = things \ {s} /\ ended' = ended \cup {s}

\* DeleteSession: the handler passes the name on, Zitadel decides.
DeleteSession(h) ==
    /\ req[h].pc = "fetch"
    /\ req[h].kind = "session" /\ req[h].op = "delete"
    /\ LET s == req[h].obj IN
       \/ s \in things /\ EndSession(s) /\ Answer(h, "deleted") /\ NoFault
       \/ s \notin things /\ Answer(h, "notFound") /\ NoFault /\ UNCHANGED <<things, ended>>
       \/ s \in things /\ EndSession(s) /\ Fails(h)
       \/ Fails(h) /\ UNCHANGED <<things, ended>>
    /\ UNCHANGED <<keyVars, given, person, grant, requests, changes>>

Serve(h) ==
    \/ Lookup(h) \/ AddKey(h)
    \/ ListAccounts(h) \/ ListKeys(h)
    \/ LookupOwner(h) \/ RemoveKey(h)
    \/ Review(h)
    \/ ListSessions(h) \/ ListPasskeys(h) \/ ListIDPLinks(h) \/ FetchLocal(h)
    \/ GetSession(h) \/ DeleteSession(h)

\* History: while a request is served, what exists at some time, and at all times
Watch ==
    was' = [h \in Handlers |->
        LET now == Existing(req[h])' IN
        CASE req[h].pc = "done" /\ req[h]'.pc = "done" -> was[h]
          [] req[h].pc = "done" /\ req[h]'.pc # "done" -> [ever |-> now, always |-> now, granted |-> grant]
          [] OTHER -> [ever |-> was[h].ever \cup now, always |-> was[h].always \cap now,
                       granted |-> was[h].granted \/ grant']]

Next ==
    /\ \/ \E h \in Handlers : Serve(h) \/ (\E r \in Requests : Receive(h, r))
       \/ Environment
    /\ Watch
    /\ UNCHANGED subject

Spec == Init /\ [][Next]_vars

-----------------------------------------------------------------------------
(* Properties *)

Done(h) == req[h].pc = "done"

\* What a request for one object says was true at some time while it was served, whoever
\* else changed Zitadel between its calls: an object that is returned existed, one that is
\* not found did not, and one whose deletion was confirmed is gone, although Delete looks
\* its account up again by name and takes NotFound for success.  A page that was cut off,
\* and an account that cannot be found by its login name, excuse a notFound.  A Create
\* that finds no account did so at a time when there was none, although it keeps the ID of
\* the account it looked up and the account may be created again meanwhile.
AnswersTrue ==
    \A h \in Handlers : LET r == req[h] IN Done(h) =>
        /\ r.op = "get" /\ r.ans = "ok" => r.obj \in was[h].ever
        /\ r.op \in {"get", "delete"} /\ r.ans = "notFound" =>
              \/ r.obj \notin was[h].always
              \/ r.cut
              \/ r.kind = "key" /\ owner[r.obj] # None /\ owner[r.obj][1] \in Suffixed
        /\ r.ans = "deleted" => r.obj \notin Existing(r)
        /\ r.op = "create" /\ r.ans = "notFound" => r.name \notin was[h].always

\* List, for which Zitadel is asked account by account: it returns only what existed while
\* it was served, and, unless a page was cut off, everything that existed all the time.
ListsTrue ==
    \A h \in Handlers : LET r == req[h] IN Done(h) /\ r.op = "list" /\ r.ans = "ok" =>
        /\ r.seen \subseteq was[h].ever
        /\ ~r.cut => was[h].always \subseteq r.seen

\* A key nobody holds the credentials of is left in Zitadel only by a failed call: at
\* most one for each failure, whatever is rejected, repeated or interleaved.
UndeliveredKeysBounded == Cardinality(live \ given) <= faults

\* CanGetUser: sessions, passkeys and identities of the person are listed for somebody
\* else only if milo allowed it at some time during that request.
ForeignReadsGranted ==
    \A h \in Handlers : Done(h) /\ req[h].op = "list" /\ ~req[h].own /\ req[h].ans = "ok" =>
        was[h].granted

=============================================================================
