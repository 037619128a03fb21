SPECIFICATION Spec
CONSTANTS
  Users = {1}
  Nameless = {1}
  Undated = {}
  Linkable = {1}
  Deletable = {1}
  PageSize = 1
  SweepEnabled = TRUE
  GCEnabled = TRUE
  DryRun = FALSE
  MaxEmailSteps = 1
  MaxFaults = 1
INVARIANTS MiloDeletedAfterZitadel
PROPERTIES AccountGoneOnlyWithCause RemovedInOrder
