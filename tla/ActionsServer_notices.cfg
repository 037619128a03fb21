SPECIFICATION FairSpec
CONSTANTS
  Handlers = {h1}
  Devices <- HomeDevices
  Templates = {"session", "passkeyAdded", "passkeyRemoved"}
  QueryLimit = 2
  MaxNotices = 3
  MaxFaults = 2
INVARIANTS NoFalseAlarm PasskeyChangeAccounted
PROPERTIES ServerComesUp
CHECK_DEADLOCK FALSE
