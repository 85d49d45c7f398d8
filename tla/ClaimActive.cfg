CONSTANTS
  None = None
  Slot <- TwoStrategies
  Slug = {"alpha", "beta"}
  Venue = {"poly", "perp"}
  SlugOf <- SlugOfSlot
  VenueOf <- VenueOfSlot
  Pnl <- BadLossOrWin
  Day = 1
  WindowDays = 1
  MaxAge = 2
  EnforceHalts = TRUE
  Rules <- ScaledRules
  HaltFastVenues <- OnlyPoly
  HaltFastFloor <- FastFloor
  HaltFastMinClosed = 1
  Failures = {}
  MaxRestarts = 0
SPECIFICATION Spec
PROPERTY TripHaltsEveryActive
