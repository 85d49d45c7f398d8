CONSTANTS
  None = None
  MaxClosed = 4
  MinSamples = 2
  Ats <- SomeAts
  Pnls <- SomePnls
  Currents <- AnyValue
SPECIFICATION Spec
INVARIANTS MovesTowardsEvidence OrderOnlyBreaksTies
CHECK_DEADLOCK FALSE
