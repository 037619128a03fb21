SPECIFICATION Spec
CONSTANTS
  Handlers = {h1, h2}
  Names = {n1, n2, n3}
  Suffixed = {n2}
  Keys = {k1, k2, k3}
  FirstKey = k1
  Sessions = {s1, s2, s3}
  Passkeys = {p1}
  Providers = {g1}
  HasLoginName = TRUE
  QueryLimit = 2
  None = None
  MaxGeneration = 2
  MaxRequests = 2
  MaxChanges = 2
  MaxFaults = 1
INVARIANTS AnswersTrue ListsTrue UndeliveredKeysBounded ForeignReadsGranted
SYMMETRY HandlerSymmetry
CHECK_DEADLOCK FALSE
