CONSTANTS
  None = None
  Pnls <- MixedPnls
  MaxTrades = 6
  MaxDays = 2
  MinNClosed = 5
  MinDays = 1
  CatastrophicFloor <- FloorOf8
SPECIFICATION Spec
INVARIANTS HaltsExactlyByCriteria BadgeAgreesWithVerdict HaltsTheLosers
PROPERTY LossNeverRescues
CHECK_DEADLOCK FALSE
