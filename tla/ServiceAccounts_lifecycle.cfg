SPECIFICATION FairSpec
CONSTANTS
  SAs = {a1, a2}
  Held = {a2}
  MaxChanges = 2
  MaxFaults = 1
INVARIANTS AccountHeldByFinalizer
PROPERTIES DeletionCompletes AccountProvisioned StateFollowsSpec
CHECK_DEADLOCK FALSE
