CONSTANTS
  Jobs = {"j1", "j2"}
  Proposals = {1}
  MaxRows = 3
  RefreshOn = FALSE
  DbFails = TRUE
  Crashes = TRUE
  Undefined = Undefined
  PauseMinDurationMs = 5
  WindowMs = 4
  SecondMs = 2
  StartMs = 10
  EndMs = 17
  TickIntervalMs = 2
  MaxReplayRows = 4
  Rows <- MCRows
  Params <- MCReplayParams
SPECIFICATION MCSpec
INVARIANTS AtMostOneCurrent ChangesBuildOnCurrent AuditTruthful FillsMatchTrades TotalsAgree ReplayMatchesLive MarkoutInWindow
CHECK_DEADLOCK FALSE
