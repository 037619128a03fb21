SPECIFICATION FairSpec
CONSTANTS
  Replicas = {p1, p2}
  MiloDiscovery = FALSE
  LeaseDuration = 3
  RenewDeadline = 2
  ReleaseOnCancel = TRUE
  MaxFaults = 4
INVARIANTS OverlapOnlyOnTheWayOut ExitTellsFailure
PROPERTIES OneActorAtATime ProcessEnds LeaderReturns
