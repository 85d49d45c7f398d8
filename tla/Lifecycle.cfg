CONSTANTS
  Loops = {"cycle", "join", "export", "tuner"}
  Idle = {"tuner"}
SPECIFICATION FairSpec
INVARIANTS TypeOK NoUseAfterClose PoolsAreCounted
PROPERTIES SignalEndsProcess SignalStopsTheLoops
CHECK_DEADLOCK FALSE
