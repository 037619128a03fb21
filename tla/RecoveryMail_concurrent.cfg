SPECIFICATION FairSpec
CONSTANTS
  Handlers = {h1, h2}
  Codes = {c1}
  Attempts = 2
  Cooldown = 1
  MaxPerHour = 1
  Window = 2
  MaxTime = 2
  MaxRequests = 3
  MaxFaults = 1
INVARIANTS OverrunBounded OneMailPerCode SuccessMeansMailed NothingForUnproven
PROPERTIES EveryRequestAnswered
CHECK_DEADLOCK FALSE
