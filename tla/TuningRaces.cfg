CONSTANTS
  None = None
  Malformed = Malformed
  Param = {"upper", "volume"}
  Bounds <- BoundsOfParam
  Strategies <- OneStrategy
  Recent <- Shifting
  MinSamples = 2
  DryRun = FALSE
  NudgeEpsilon = 1
  ManualValues <- ByHand
  Failures = {"request_lost", "reply_lost", "query_failed"}
  AuditMaxLen = 1
  MaxRestarts = 1
SPECIFICATION Spec
INVARIANTS TypeOK NudgesAreSafe NewestEntryHolds
PROPERTY RegistryMovesStepwise
