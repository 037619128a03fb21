SPECIFICATION SettledSpec
CONSTANTS
  Users = {1}
  Nameless = {}
  Undated = {}
  Linkable = {1}
  Deletable = {1}
  PageSize = 1
  SweepEnabled = FALSE
  GCEnabled = TRUE
  DryRun = FALSE
  MaxEmailSteps = 0
  MaxFaults = 0
PROPERTIES AbandonedAccountsCollected
