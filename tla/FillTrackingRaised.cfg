CONSTANTS
  Orders <- MCOrders
  Buys = {"bid"}
  Requested <- MCRequested
  QtyStep = 2
  MinQty = 3
  TradeModes = {FALSE}
  Syncs = {y1}
SPECIFICATION Spec
INVARIANTS RemovedIfFilled
