CONSTANTS
  None = None
  Malformed = Malformed
  Param = {"upper"}
  Bounds <- Upper
  Strategies <- TwicePerCycle
  Recent <- AnyRows
  MinSamples = 2
  DryRun = FALSE
  NudgeEpsilon = 1
  ManualValues <- Nobody
  Failures = {"query_failed"}
  AuditMaxLen = 2
  MaxRestarts = 0
  Alpha = {"h1", "h2", "n1", "n2"}
  Trade = {"h1", "h2", "n1", "n2"}
  AlphaOf <- AlphaOfTrade
  AlphasOf <- AllAlphas
  Pnl = {None, 3}
  DaysWindow = 2
  ClosedLimit = 3
  History <- OnceAtOne
SPECIFICATION CycleSpec
INVARIANTS AuditExplainsRegistry TunerNeverExplores OneStepPerVisit
