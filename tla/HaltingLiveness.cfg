CONSTANTS
  None = None
  Slot <- OneStrategy
  Slug = {"alpha"}
  Venue = {"poly"}
  SlugOf <- SlugOfSlot
  VenueOf <- VenueOfSlot
  Pnl <- BadLoss
  Day = 1
  WindowDays = 2
  MaxAge = 3
  EnforceHalts = TRUE
  Rules <- ScaledRules
  HaltFastVenues <- OnlyPoly
  HaltFastFloor <- FastFloor
  HaltFastMinClosed = 2
  Failures = {"request_lost", "reply_lost", "query_failed"}
  MaxRestarts = 1
SPECIFICATION FairSpec
PROPERTY BadStrategyIsHalted
