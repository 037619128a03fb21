-------------------------- MODULE MCActionsServer --------------------------
(***************************************************************************)
(* TLC instances of ActionsServer: the devices logins come from.           *)
(***************************************************************************)
EXTENDS ActionsServer

Laptop  == [ip |-> "home", ua |-> [family |-> "Chrome on Mac", version |-> 1], fp |-> "f1"]
\* The same laptop after a browser update
Updated == [Laptop EXCEPT !.ua.version = 2]
\* A client that says nothing of itself but an unknown user agent
Script  == [ip |-> "home", ua |-> [family |-> "unknown", version |-> 1], fp |-> ""]

HomeDevices == {Laptop, Updated, Script}
=============================================================================
