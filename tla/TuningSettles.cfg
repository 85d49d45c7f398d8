CONSTANTS
  None = None
  Malformed = Malformed
  Param = {"upper", "volume"}
  Bounds <- BoundsOfParam
  Strategies <- OneStrategy
  Recent <- Steady
  MinSamples = 2
  DryRun = FALSE
  NudgeEpsilon = 2
  ManualValues <- Nobody
  Failures = {"query_failed"}
  AuditMaxLen = 1
  MaxRestarts = 0
SPECIFICATION SettlingSpec
PROPERTY SettlesOnTheBestBin
