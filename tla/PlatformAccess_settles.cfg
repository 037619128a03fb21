SPECIFICATION FairSpec
CONSTANTS
  States = {"Approved", "Suspended"}
  MaxChanges = 4
  MaxFaults = 2
INVARIANTS ReadyIsTrueOrPending
PROPERTIES StatusSettles AlignedUnlessAstray
CHECK_DEADLOCK FALSE
