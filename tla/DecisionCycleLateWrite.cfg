CONSTANTS
  Undefined = Undefined
  NoneOrder = NoneOrder
  PauseMinDurationMs = 1
  Ticks = {1, 2}
  Slots = {1}
  CallsFail = FALSE
  RepliesLost = FALSE
  StartSynced = TRUE
  Miscounts = FALSE
  Stops = FALSE
SPECIFICATION Spec
PROPERTIES PauseExitsToDefensive
