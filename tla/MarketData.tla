----------------------------- MODULE MarketData -----------------------------
(***************************************************************************)
(* The market data a decision is made from, as a record: MarketDataState   *)
(* of the backtest, fed from stored rows, and MarketDataCache of the       *)
(* executor, fed from events.  The two classes differ in three places: the *)
(* cache refuses a crossed best bid and offer, it prunes by the time of an *)
(* event where the backtest prunes by the time of its tick, and the        *)
(* backtest prunes before every tick.                                      *)
(***************************************************************************)
EXTENDS QuoteCalculator

CONSTANTS
  WindowMs,   \* TRADES_WINDOW_MS and MID_SNAPSHOTS_WINDOW_MS, 10 seconds
  SecondMs    \* the window of the trade imbalance

EmptyMarket ==
  [bestBidPx |-> 0, bestAskPx |-> 0, markPx |-> Undefined, indexPx |-> Undefined,
   lastUpdateMs |-> 0, trades |-> <<>>, midSnapshots |-> <<>>]

Later(a, b) == IF a > b THEN a ELSE b

(* A window is closed at its old end, and has no other one. *)
InWindow(items, nowMs, windowMs) ==
  FoldLeft(LAMBDA kept, item : IF item.ts >= nowMs - windowMs THEN Append(kept, item) ELSE kept,
           <<>>, items)

Prune(market, nowMs) ==
  [market EXCEPT !.trades = InWindow(@, nowMs, WindowMs),
                 !.midSnapshots = InWindow(@, nowMs, WindowMs)]

HasValidData(market) ==
  market.lastUpdateMs > 0 /\ market.bestBidPx > 0 /\ market.bestAskPx > 0

(* getSnapshot, the windows and computeFeatures, as both tick loops call   *)
(* them.                                                                   *)
FeaturesAt(market, nowMs, params) ==
  ComputeFeatures([nowMs |-> nowMs, bestBidPx |-> market.bestBidPx, bestAskPx |-> market.bestAskPx,
                   markPx |-> market.markPx, indexPx |-> market.indexPx,
                   lastUpdateMs |-> market.lastUpdateMs],
                  InWindow(market.trades, nowMs, SecondMs),
                  InWindow(market.trades, nowMs, WindowMs),
                  InWindow(market.midSnapshots, nowMs, WindowMs),
                  params)

-----------------------------------------------------------------------------
(* The backtest's MarketDataState                                          *)

UpdateBbo(market, row) ==
  [market EXCEPT !.bestBidPx = row.bid, !.bestAskPx = row.ask, !.lastUpdateMs = row.ts,
                 !.midSnapshots = Append(@, [ts |-> row.ts, midPx |-> CalculateMid(row.bid, row.ask)])]

(* A row of md_price carries the mark or the index price. *)
UpdatePrice(market, row) ==
  [market EXCEPT !.markPx = IF row.markPx = Undefined THEN @ ELSE row.markPx,
                 !.indexPx = IF row.indexPx = Undefined THEN @ ELSE row.indexPx,
                 !.lastUpdateMs = Later(@, row.ts)]

AddTrade(market, row) ==
  [market EXCEPT !.trades = Append(@, [ts |-> row.ts, px |-> row.px, side |-> row.side, type |-> row.type])]

ProcessEvent(market, row) ==
  CASE row.kind = "bbo"   -> UpdateBbo(market, row)
    [] row.kind = "trade" -> AddTrade(market, row)
    [] row.kind = "price" -> UpdatePrice(market, row)

-----------------------------------------------------------------------------
(* The executor's MarketDataCache                                          *)

CacheBbo(market, event) ==
  IF event.bid >= event.ask
  THEN [market EXCEPT !.lastUpdateMs = Later(@, event.ts)]
  ELSE Prune(UpdateBbo(market, event), event.ts)

(* Mutant: only the best bid and offer keeps the cache fresh.              *)
CachePriceSilent(market, event) ==
  [UpdatePrice(market, event) EXCEPT !.lastUpdateMs = market.lastUpdateMs]

CachePrice(market, event) == UpdatePrice(market, event)

CacheTrade(market, event) == Prune(AddTrade(market, event), event.ts)

CacheEvent(market, event) ==
  CASE event.kind = "bbo"   -> CacheBbo(market, event)
    [] event.kind = "trade" -> CacheTrade(market, event)
    [] event.kind = "price" -> CachePrice(market, event)
=============================================================================
