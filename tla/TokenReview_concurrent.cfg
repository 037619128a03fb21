SPECIFICATION FairSpec
CONSTANTS
  Requests = {r1, r2}
  Expiration = 5
  RefreshBefore = 3
  Second = 2
  MaxLag = 1
  MaxTime = 4
  MaxReviews = 3
  MaxFaults = 1
INVARIANTS AssertionAlive ReviewSound
PROPERTIES NoDuplicateSigning EveryReviewAnswered
CHECK_DEADLOCK FALSE
