SPECIFICATION SettledSpec
CONSTANTS
  Users = {1, 2}
  Nameless = {1, 2}
  Undated = {}
  Linkable = {1}
  Deletable = {}
  PageSize = 1
  SweepEnabled = TRUE
  GCEnabled = TRUE
  DryRun = FALSE
  MaxEmailSteps = 0
  MaxFaults = 0
PROPERTIES AbandonedAccountsCollected Backfilled
