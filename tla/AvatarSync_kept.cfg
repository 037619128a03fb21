SPECIFICATION Spec
CONSTANTS
  Handlers = {h1, h2}
  Google = {g1, g2}
  GitHub = {b1}
  Attempts = 2
  TTL = 1
  MaxTime = 2
  MaxEvents = 2
  MaxChanges = 2
  MaxFaults = 1
INVARIANTS PendingKept
PROPERTIES MixedOnlyFromStaleCopy OneCustodian
CHECK_DEADLOCK FALSE
