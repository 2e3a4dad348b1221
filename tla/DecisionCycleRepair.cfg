CONSTANTS
  Undefined = Undefined
  NoneOrder = NoneOrder
  PauseMinDurationMs = 1
  Ticks = {1}
  Slots = {1}
  CallsFail = TRUE
  RepliesLost = TRUE
  StartSynced = FALSE
  Miscounts = TRUE
  Stops = TRUE
SPECIFICATION FairSpec
PROPERTIES EventuallyFlat DriftRepaired
CHECK_DEADLOCK FALSE
