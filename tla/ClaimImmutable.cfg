CONSTANTS
  None = None
  Torn = Torn
  Alpha = {"a1", "a2"}
  Snapshot = {"p"}
  Trade = {"t1", "t2", "t3"}
  AlphaOf <- AlphaOfTrade
  StrategyOf <- OneStrategy
  Pnl = {1}
  Day = 2
  JoinDays = 2
  MaxOutage = 3
  ExportDays = 2
  MaxGap = 2
  LastEmit = 0
  LastClose = 2
  MaxNow = 5
SPECIFICATION ExportSpec
PROPERTY RerunsDontClobber
CHECK_DEADLOCK FALSE
