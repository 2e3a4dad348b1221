CONSTANTS
  Undefined = Undefined
  NoneOrder = NoneOrder
  PauseMinDurationMs = 1
  Ticks = {1}
  Slots = {1, 2, 3}
  CallsFail = TRUE
  RepliesLost = FALSE
  StartSynced = TRUE
  Miscounts = FALSE
  Stops = FALSE
SPECIFICATION Spec
INVARIANTS TrackerCoversLive LiveOrdersBounded
