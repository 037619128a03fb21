---------------------------- MODULE AvatarCustody ----------------------------
(***************************************************************************)
(* What the map of pending avatars promises: an avatar that was put into   *)
(* it is there, in the hands of one handler, or spent, and a spent one     *)
(* never comes back.  Only the handler that holds an avatar writes it, at  *)
(* least once before it is spent by being applied: a write nobody          *)
(* confirmed is made again.                                                *)
(***************************************************************************)
CONSTANTS Handlers, Avatars, None

VARIABLES
    entry,  \* the avatar in the map, or None
    held,   \* the avatar each handler has taken out of it, or None
    written, \* avatars that were written to the status
    spent    \* avatars that were applied, replaced, expired or lost with the process

vars == <<entry, held, written, spent>>

Init ==
    /\ entry = None
    /\ held = [h \in Handlers |-> None]
    /\ written = {}
    /\ spent = {}

\* What is replaced in the map is spent.
Enter(a) ==
    /\ entry' = a
    /\ spent' = spent \cup ({entry} \ {None})

Store(a) ==
    /\ a \notin spent \cup {entry} \cup {held[h] : h \in Handlers}
    /\ Enter(a)
    /\ UNCHANGED <<held, written>>

Take(h) ==
    /\ entry # None
    /\ held[h] = None
    /\ entry' = None
    /\ held' = [held EXCEPT ![h] = entry]
    /\ UNCHANGED <<written, spent>>

\* The write failed, or was not seen to succeed.
PutBack(h) ==
    /\ held[h] # None
    /\ Enter(held[h])
    /\ written' \in {written, written \cup {held[h]}}
    /\ held' = [held EXCEPT ![h] = None]

Apply(h) ==
    /\ held[h] # None
    /\ written' = written \cup {held[h]}
    /\ spent' = spent \cup {held[h]}
    /\ held' = [held EXCEPT ![h] = None]
    /\ UNCHANGED entry

Expire ==
    /\ entry # None
    /\ Enter(None)
    /\ UNCHANGED <<held, written>>

Crash ==
    /\ entry' = None
    /\ held' = [h \in Handlers |-> None]
    /\ spent' = spent \cup (({entry} \cup {held[h] : h \in Handlers}) \ {None})
    /\ UNCHANGED written

Next ==
    \/ \E a \in Avatars : Store(a)
    \/ \E h \in Handlers : Take(h) \/ PutBack(h) \/ Apply(h)
    \/ Expire
    \/ Crash

Spec == Init /\ [][Next]_vars

=============================================================================
