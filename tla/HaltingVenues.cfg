CONSTANTS
  None = None
  Slot <- TwoVenues
  Slug = {"alpha", "beta"}
  Venue = {"poly", "perp"}
  SlugOf <- SlugOfSlot
  VenueOf <- VenueOfSlot
  Pnl <- BadLossOrWin
  Day = 1
  WindowDays = 1
  MaxAge = 2
  EnforceHalts = TRUE
  Rules <- ScaledRules
  HaltFastVenues <- BothVenues
  HaltFastFloor <- FastFloor
  HaltFastMinClosed = 1
  Failures = {"request_lost", "reply_lost", "query_failed"}
  MaxRestarts = 1
SPECIFICATION Spec
INVARIANTS TypeOK NoTargetForgotten OnlyTheChargedArePending ReportAddsUp
PROPERTIES KeepsThePromise CountsTellWhatWasDone
