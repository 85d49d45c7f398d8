CONSTANTS
  None = None
  Malformed = Malformed
  Param = {"upper", "volume"}
  Bounds <- BoundsOfParam
  Strategies <- OneStrategy
  Recent <- Shifting
  MinSamples = 2
  DryRun = FALSE
  NudgeEpsilon = 1
  ManualValues <- Nobody
  Failures = {"request_lost"}
  AuditMaxLen = 3
  MaxRestarts = 0
SPECIFICATION CycleSpec
INVARIANT NoBigMovePerCycle
