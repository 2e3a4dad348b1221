CONSTANTS
  StreamCount = 3
  Critical = {1, 3}
  Loops = {l1, l2, l3, l4, l5}
  NoLoop = NoLoop
  HandshakeFaults = {"hangs", "rejects"}
  MaxFaults = 3
  BidPrices = {1, 2, 3}
  AskPrices = {2, 3}
  MaxLevels = 2
  Mids = {1, 2}
  MaxEvents = 2
  MaxUpserts = 2
  MaxRetries = 3
  ThrottleMs = 1
  Gaps = {0, 1}
  MinChange = 1
SPECIFICATION MCSpec
INVARIANTS CleanUnlessOvertaken TopIsTrue RowsAccounted LatestCaughtUp
PROPERTIES StreamsComeBack SilenceMeansStuckWatchdog RowsSettle
CHECK_DEADLOCK FALSE
