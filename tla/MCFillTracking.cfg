CONSTANTS
  Orders <- MCOrders
  Buys = {"bid"}
  Requested <- MCRequested
  QtyStep = 2
  MinQty = 2
  TradeModes = {TRUE, FALSE}
  Syncs = {y1, y2}
SPECIFICATION FairSpec
INVARIANTS FillsRecordedOnce OpenIsTracked
PROPERTIES PositionConverges
