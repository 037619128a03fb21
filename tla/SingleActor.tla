---------------------------- MODULE SingleActor ----------------------------
(***************************************************************************)
(* What docs/architecture.md, "Leadership coordination", promises of the   *)
(* replicas of the controller deployment: the controllers act in one of    *)
(* them at a time, and the next one starts only after the last one has     *)
(* stopped.                                                                *)
(***************************************************************************)
CONSTANT Replicas

VARIABLE actors  \* the replicas whose controllers take up work

Init == actors = {}

Start(p) == actors = {} /\ actors' = {p}

Stop(p) == p \in actors /\ actors' = actors \ {p}

Next == \E p \in Replicas : Start(p) \/ Stop(p)

Spec == Init /\ [][Next]_actors

=============================================================================
