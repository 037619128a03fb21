--------------------------- MODULE ServerRequests ---------------------------
(***************************************************************************)
(* What the two models of the actions server, ActionsServer and            *)
(* AvatarSync, have in common: handlers that serve one request each, and   *)
(* calls that fail.                                                        *)
(***************************************************************************)
EXTENDS Naturals

CONSTANTS
    Handlers,   \* requests served at the same time
    MaxFaults   \* bound on failed calls and restarts

VARIABLES
    req,        \* the request of each handler
    faults      \* failed calls and restarts so far

Fault == faults < MaxFaults /\ faults' = faults + 1
NoFault == UNCHANGED faults

=============================================================================
