CONSTANTS
  AbsMaxGain = 500
  AbsMaxSize = 1000
  Answers <- MCAnswers
  Defaults <- MCDefaults
  Contexts <- MCContexts
  MaxPauses = 0
  MinMarkout = 0
  MaxWindows = 2
  MaxFaults = 1
  NoFillWindowMs = 2
  TightenStepBps = 2
  MinBaseHalfSpreadBps = 3
  TightenIntervalMs = 2
  Bases = {2, 6, 9}
  MaxFillLag = 1
  MaxTime = 7
  FillIds = {"f1", "f2"}
  Prices = {1, 2}
  Horizon1s = 1
  Horizon10s = 2
  MaxHorizonMs = 5
  ToleranceT0 = 0
  Tolerance1s = 0
  Tolerance10s = 1
  Tolerance60s = 1
  FeatureWindowMs = 1
  MaxDelayMs = 1
  BatchLimit = 1
  MaxMarketRows = 2
  MaxMishaps = 1
  LastMs = 7
  Jobs = {"j1"}
  Proposals = {1, 2}
  MaxRows = 5
  RefreshOn = TRUE
  DbFails = FALSE
  Crashes = FALSE
SPECIFICATION MCSpec
INVARIANTS ProposalsAccounted GatesAgree TightensSlowly EnrichedOnceForAll
PROPERTIES WindowAnswered EveryFillEnriched DecidedOnce MemoryCatchesUp
CHECK_DEADLOCK FALSE
