SPECIFICATION FairSpec
CONSTANTS
  Users = {1}
  Nameless = {}
  Undated = {}
  Linkable = {}
  Deletable = {1}
  PageSize = 1
  SweepEnabled = TRUE
  GCEnabled = FALSE
  DryRun = FALSE
  MaxEmailSteps = 2
  MaxFaults = 1
INVARIANTS VerifiedWasProved
PROPERTIES EmailVerificationConverges DeletionCompletes
