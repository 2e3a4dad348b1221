CONSTANTS
  Undefined = Undefined
  PauseMinDurationMs = 5
  FeatureInputs <- MCFeatures
  PositionInputs <- MCPositions
  ParamInputs <- MCParams
  MaxNow = 15
  CalmFrom = 8
  TickGaps = {1, 2}
  RefreshIntervalMs = 3
  StaleCancelMs = 4
  CancelAllWithMs = 3
  CancelAllWithoutMs = 7
  Flushes = {f1, f2}
  MaxRecords = 2
  DbFails = TRUE
  LateErrors = TRUE
  Stops = TRUE
SPECIFICATION MCSpec
INVARIANTS TypeOK PauseDeadline QuoteOutsidePauseWindow PlacementSpacing
PROPERTIES PauseLeftSafely CalmReachesNormal PauseEndsFlat ImplementsDurableQueue EventuallyStored
CHECK_DEADLOCK FALSE
