----------------------------- MODULE MCBacktest -----------------------------
(* Rows around the quotes: a basis point is one unit of price.             *)
EXTENDS Backtest

Bbo(bid, ask) == [kind |-> "bbo", ts |-> 0, bid |-> bid, ask |-> ask]
Trade(px, side, type) == [kind |-> "trade", ts |-> 0, px |-> px, side |-> side, type |-> type]
Price(mark, index) == [kind |-> "price", ts |-> 0, markPx |-> mark, indexPx |-> index]

MCRows ==
  {Bbo(9995, 10005), Bbo(10005, 10015),
   Trade(9990, "sell", "normal"), Trade(10010, Undefined, "liq"),
   Price(10000, Undefined), Price(Undefined, 10060)}

MCReplayParams ==
  [baseHalfSpreadBps |-> 8, volSpreadGain |-> 1, toxSpreadGain |-> 1, inventorySkewGain |-> 3,
   quoteSizeUsd |-> 10050, refreshIntervalMs |-> 2, staleCancelMs |-> 3, maxInventory |-> 1,
   pauseMarkIndexBps |-> 50, pauseLiqCount10s |-> 2]
=============================================================================
