--------------------------- MODULE AccountRemoval ---------------------------
(***************************************************************************)
(* What the provider promises of the end of an account, which is kept as a *)
(* user of Zitadel and as a User resource of milo: an ID is used once; the *)
(* account goes only for a User that an operator deleted, or because it    *)
(* was found past its time and condemned, although it may have been        *)
(* renewed since; nobody but an operator touches the User while the        *)
(* account exists; and a User that is held by the finalizer goes last.     *)
(* Who does it, in how many calls, and what fails is left to the           *)
(* specification that implements this one.                                 *)
(***************************************************************************)
CONSTANT Users

VARIABLES
    account,   \* never / present / deleted
    resource,  \* absent / live / held (by the finalizer) / deleting
    doomed,    \* whose User an operator deleted
    expired,   \* who is past its time
    condemned  \* who was when it was decided on

vars == <<account, resource, doomed, expired, condemned>>

Init ==
    /\ account = [u \in Users |-> "never"]
    /\ resource = [u \in Users |-> "absent"]
    /\ doomed = {}
    /\ expired = {}
    /\ condemned = {}

SignUp(u) ==
    /\ account[u] = "never"
    /\ account' = [account EXCEPT ![u] = "present"]
    /\ UNCHANGED <<resource, doomed, expired, condemned>>

\* The account gets past its time, or is no more: its user linked it to a provider.
Expire(u) ==
    /\ account[u] = "present"
    /\ expired' \in {expired \cup {u}, expired \ {u}}
    /\ UNCHANGED <<account, resource, doomed, condemned>>

Condemn(u) ==
    /\ u \in expired
    /\ condemned' = condemned \cup {u}
    /\ UNCHANGED <<account, resource, doomed, expired>>

Spare(u) ==
    /\ condemned' = condemned \ {u}
    /\ UNCHANGED <<account, resource, doomed, expired>>

Provision(u) ==
    /\ account[u] # "never"
    /\ resource[u] = "absent"
    /\ resource' = [resource EXCEPT ![u] = "live"]
    /\ UNCHANGED <<account, doomed, expired, condemned>>

Hold(u) ==
    /\ resource[u] = "live"
    /\ resource' = [resource EXCEPT ![u] = "held"]
    /\ UNCHANGED <<account, doomed, expired, condemned>>

\* The User goes at once, or waits for the finalizer.
Withdraw(u) ==
    /\ resource[u] \in {"live", "held"}
    /\ resource' = [resource EXCEPT ![u] = IF @ = "held" THEN "deleting" ELSE "absent"]

OperatorDelete(u) ==
    /\ Withdraw(u)
    /\ doomed' = doomed \cup {u}
    /\ UNCHANGED <<account, expired, condemned>>

\* Without a request, only after the account
Collect(u) ==
    /\ account[u] = "deleted"
    /\ Withdraw(u)
    /\ UNCHANGED <<account, doomed, expired, condemned>>

Remove(u) ==
    /\ account[u] = "present"
    /\ u \in condemned \/ (u \in doomed /\ resource[u] = "deleting")
    /\ account' = [account EXCEPT ![u] = "deleted"]
    /\ condemned' \in {condemned, condemned \ {u}}
    /\ UNCHANGED <<resource, doomed, expired>>

Release(u) ==
    /\ account[u] = "deleted"
    /\ resource[u] = "deleting"
    /\ resource' = [resource EXCEPT ![u] = "absent"]
    /\ UNCHANGED <<account, doomed, expired, condemned>>

Next ==
    \E u \in Users :
        \/ SignUp(u) \/ Expire(u) \/ Condemn(u) \/ Spare(u) \/ Provision(u) \/ Hold(u)
        \/ OperatorDelete(u) \/ Collect(u) \/ Remove(u) \/ Release(u)

Spec == Init /\ [][Next]_vars

=============================================================================
