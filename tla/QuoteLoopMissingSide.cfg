CONSTANTS
  Undefined = Undefined
  PauseMinDurationMs = 5
  TickGaps = {1, 2}
  RefreshIntervalMs = 3
  StaleCancelMs = 4
  CancelAllWithMs = 3
  CancelAllWithoutMs = 7
SPECIFICATION FairLoop
PROPERTIES MissingSideQuoted
