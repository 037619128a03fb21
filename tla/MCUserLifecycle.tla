-------------------------- MODULE MCUserLifecycle --------------------------
(***************************************************************************)
(* TLC instances of UserLifecycle; the .cfg files give the constants.      *)
(***************************************************************************)
EXTENDS UserLifecycle

\* A settled population: every user is registered but unverified, past the
\* retention window, and has a User resource that carries the finalizer or has
\* none because its webhook call was lost.  Runs with several users start here,
\* so that paging is what they explore.
Settled ==
    /\ zitadel = [u \in Users |-> "present"]
    /\ verified = [u \in Users |-> FALSE]
    /\ address = [u \in Users |-> 1]
    /\ idp \in SUBSET Linkable
    /\ aged = Users
    /\ cr \in [Users -> {NoUser, [phase |-> "live", fin |-> TRUE, ev |-> "Unverified", of |-> 0]}]
    /\ queue = {}
    /\ rec = [u \in Users |-> NotReconciling]
    /\ hook = [u \in Users |-> NoRequest]
    /\ mail = {}
    /\ sw = NotSweeping
    /\ gc = NotCollecting
    /\ doomed = {}
    /\ proved = {}
    /\ emailSteps = 0
    /\ faults = 0

SettledSpec == Settled /\ [][Next]_vars /\ Fairness
=============================================================================
