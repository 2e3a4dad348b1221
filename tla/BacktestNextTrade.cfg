CONSTANTS
  Undefined = Undefined
  PauseMinDurationMs = 5
  WindowMs = 4
  SecondMs = 2
  StartMs = 10
  EndMs = 17
  TickIntervalMs = 2
  MaxReplayRows = 4
  Rows <- MCRows
  Params <- MCReplayParams
SPECIFICATION ReplaySpec
INVARIANTS NextTradeFills
CHECK_DEADLOCK FALSE
