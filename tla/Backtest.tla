------------------------------ MODULE Backtest ------------------------------
(***************************************************************************)
(* The backtest (apps/backtest): stored market data is replayed against a  *)
(* fixed tick, with the strategy of packages/core, orders that a trade     *)
(* fills by touching them, and markouts computed once the replay is over.  *)
(*                                                                         *)
(* The program loads all rows first; here a row is chosen when the replay  *)
(* reaches its time, which is the same because the replay never looks      *)
(* ahead.  Next to it runs the executor's cache, fed with the same rows.   *)
(***************************************************************************)
EXTENDS MarketData

CONSTANTS
  Rows,             \* rows the tables may hold, without their time
  StartMs, EndMs,   \* startTime and endTime
  TickIntervalMs,
  Params,           \* StrategyParams
  MaxReplayRows     \* bound on the rows that are loaded

OptInt == Int \cup {Undefined}

(* Rows of md_bbo, md_trade and md_price: an exchange has positive prices.   *)
BboRow == [kind : {"bbo"}, ts : Int, bid : Nat \ {0}, ask : Nat \ {0}]
TradeRow ==
  [kind : {"trade"}, ts : Int, px : Int, side : Sides \cup {Undefined}, type : {"normal", "liq", "delev"}]
PriceRow == [kind : {"price"}, ts : Int, markPx : OptInt, indexPx : OptInt]

(* An order of the simulation.                                             *)
SimOrder == [price : Int, size : Nat, createdAtMs : Int]

(* A tick that is longer than the window of the trades would miss some.    *)
ASSUME BacktestAssumption ==
  /\ StartMs \in Nat \ {0} /\ EndMs \in Nat
  /\ TickIntervalMs \in 1..WindowMs /\ SecondMs \in 1..WindowMs /\ WindowMs \in Nat
  /\ Rows \subseteq BboRow \cup TradeRow \cup PriceRow
  /\ {Params.baseHalfSpreadBps, Params.volSpreadGain, Params.toxSpreadGain,
      Params.inventorySkewGain, Params.quoteSizeUsd} \subseteq Int
  /\ Params.maxInventory \in Nat
  /\ Undefined \notin SimOrder

(* The ingestor never hands on a crossed book (TopIsTrue of OrderBookFeed).  *)
ASSUME UncrossedRows == \A row \in Rows : row.kind = "bbo" => row.bid < row.ask

VARIABLES
  tickMs,      \* time of the next tick
  lastRow,     \* time and kind of the last row
  rowCount,    \* history: how many rows there were
  bboData,     \* the rows of md_bbo, which the report reads
  market,      \* marketState, a MarketDataState
  cache,       \* a MarketDataCache of an executor that saw the same rows
  strategy,    \* strategyState
  lastQuoteMs, \* time of the last QUOTE intent
  sim,         \* SimExecution
  enriched     \* the enriched fills, once the replay is over

replayVars ==
  <<tickMs, lastRow, rowCount, bboData, market, cache, strategy, lastQuoteMs, sim, enriched>>

(* Orders by side; position and counters start at zero, lastMode at PAUSE. *)
NewSim ==
  [orders |-> [side \in Sides |-> Undefined], position |-> 0, fills |-> <<>>,
   cancelCount |-> 0, orderIdCounter |-> 0, pauseTransitions |-> 0, lastMode |-> "PAUSE"]

ReplayInit ==
  /\ tickMs = StartMs
  /\ lastRow = [ts |-> StartMs, kind |-> "bbo"]
  /\ rowCount = 0 /\ bboData = <<>>
  /\ market = EmptyMarket /\ cache = EmptyMarket
  /\ strategy = [mode |-> "NORMAL", modeSinceMs |-> StartMs,
                 pauseUntilMs |-> Undefined, lastQuoteMs |-> Undefined]
  /\ lastQuoteMs = Undefined
  /\ sim = NewSim
  /\ enriched = Undefined

-----------------------------------------------------------------------------
(* Simulated execution                                                     *)

(* placeBid and placeAsk: an order that is replaced counts as cancelled.    *)
Place(s, side, price, size) ==
  [s EXCEPT !.orders[side] = [price |-> price, size |-> size, createdAtMs |-> tickMs],
            !.orderIdCounter = @ + 1,
            !.cancelCount = IF s.orders[side] = Undefined THEN @ ELSE @ + 1]

CancelAll(s) ==
  [s EXCEPT !.orders = NewSim.orders,
            !.cancelCount = @ + Cardinality({side \in Sides : s.orders[side] # Undefined})]

Touches(side, trade, order) ==
  IF side = "buy" THEN trade.px <= order.price ELSE trade.px >= order.price

Signed(side, size) == IF side = "buy" THEN size ELSE -size

(* Mutant: the order stays where it is after its fill.                     *)
TouchSideKeeping(s, side, trade, midPx) ==
  IF s.orders[side] = Undefined THEN s
  ELSE IF ~Touches(side, trade, s.orders[side]) THEN s
  ELSE [s EXCEPT !.position = @ + Signed(side, s.orders[side].size),
                 !.fills = Append(@, [ts |-> trade.ts, side |-> side, orderPx |-> s.orders[side].price,
                                      size |-> s.orders[side].size, midT0 |-> midPx,
                                      placedAt |-> s.orders[side].createdAtMs, tradePx |-> trade.px])]

(* One side of checkTouchFill with one trade, and executeFill; placedAt and *)
(* tradePx are history.                                                    *)
TouchSide(s, side, trade, midPx) ==
  IF s.orders[side] = Undefined THEN s
  ELSE IF ~Touches(side, trade, s.orders[side]) THEN s
  ELSE LET order == s.orders[side]
       IN  [s EXCEPT !.orders[side] = Undefined,
                     !.position = @ + Signed(side, order.size),
                     !.fills = Append(@, [ts |-> trade.ts, side |-> side, orderPx |-> order.price,
                                          size |-> order.size, midT0 |-> midPx,
                                          placedAt |-> order.createdAtMs, tradePx |-> trade.px])]

CheckTouchFill(s, trades, midPx) ==
  FoldLeft(LAMBDA acc, trade : TouchSide(TouchSide(acc, "buy", trade, midPx), "sell", trade, midPx),
           s, trades)

TrackModeTransition(s, newMode) ==
  [s EXCEPT !.pauseTransitions = IF newMode = "PAUSE" /\ s.lastMode # "PAUSE" THEN @ + 1 ELSE @,
            !.lastMode = newMode]

-----------------------------------------------------------------------------
(* The tick                                                                *)

MinRequoteBps == 1

(* planSimActions for one side: whether the order is placed or replaced.   *)
PlacesSide(order, targetPx, midPx) ==
  LET canRefresh == lastQuoteMs = Undefined \/ tickMs - lastQuoteMs >= Params.refreshIntervalMs
  IN  IF order = Undefined THEN canRefresh
      ELSE \/ tickMs - order.createdAtMs > Params.staleCancelMs
           \/ canRefresh /\ PriceExceedsThreshold(order.price, targetPx, midPx, MinRequoteBps)

(* planSimActions and executeSimActions with the one intent of a decision. *)
Carry(intent, s, features) ==
  LET quote == GenerateQuoteIntent(Params, features, s.position)
      Bid(x) == IF PlacesSide(x.orders["buy"], quote.bidPx, features.midPx)
                THEN Place(x, "buy", quote.bidPx, quote.size) ELSE x
      Ask(x) == IF PlacesSide(x.orders["sell"], quote.askPx, features.midPx)
                THEN Place(x, "sell", quote.askPx, quote.size) ELSE x
  IN  IF intent = "CANCEL_ALL" THEN CancelAll(s) ELSE Ask(Bid(s))

(* Mutant: liquidations are left out.                                      *)
RecentTradesNormal(m) ==
  SelectSeq(InWindow(m.trades, tickMs, TickIntervalMs), LAMBDA trade : trade.type = "normal")

(* The window is closed: a trade at the time of a tick is seen at two ticks. *)
RecentTrades(m) == InWindow(m.trades, tickMs, TickIntervalMs)

(* The body of the loop once there is valid data; m is the pruned market.  *)
Simulate(m) ==
  LET filled == CheckTouchFill(sim, RecentTrades(m), CalculateMid(m.bestBidPx, m.bestAskPx))
      features == FeaturesAt(m, tickMs, Params)
      out == Decide(tickMs, strategy, EvaluateRisk(features, filled.position, Params))
  IN  /\ strategy' = out.nextState
      /\ sim' = Carry(out.intent, TrackModeTransition(filled, out.nextState.mode), features)
      /\ lastQuoteMs' = IF out.intent = "QUOTE" THEN tickMs ELSE lastQuoteMs

ReplayTick ==
  /\ tickMs <= EndMs
  /\ tickMs' = tickMs + TickIntervalMs
  /\ market' = Prune(market, tickMs)
  /\ IF HasValidData(market')
     THEN Simulate(market')
     ELSE UNCHANGED <<strategy, sim, lastQuoteMs>>
  /\ UNCHANGED <<lastRow, rowCount, bboData, cache, enriched>>

-----------------------------------------------------------------------------
(* Rows and report                                                         *)

(* The stable sort of mergeToEventStream keeps the order bbo, trade, price  *)
(* of rows of the same time.                                               *)
Rank == [bbo |-> 1, trade |-> 2, price |-> 3]
Follows(a, b) == a.ts > b.ts \/ (a.ts = b.ts /\ Rank[a.kind] >= Rank[b.kind])

(* The rows the replay has yet to come to: those up to the time of a tick   *)
(* are processed before it.                                                *)
NextRows ==
  {row \in {[r EXCEPT !.ts = ts] : r \in Rows, ts \in StartMs..EndMs} :
     /\ Follows(row, lastRow)
     /\ tickMs > StartMs => row.ts > tickMs - TickIntervalMs}

(* A row after the last tick is never replayed; its best bid and offer may *)
(* still be the one a markout is computed with.                            *)
Row ==
  /\ rowCount < MaxReplayRows /\ enriched = Undefined
  /\ \E row \in NextRows :
       /\ tickMs <= EndMs => row.ts <= tickMs
       /\ rowCount' = rowCount + 1
       /\ lastRow' = [ts |-> row.ts, kind |-> row.kind]
       /\ bboData' = IF row.kind = "bbo"
                     THEN Append(bboData, [ts |-> row.ts, midPx |-> CalculateMid(row.bid, row.ask)])
                     ELSE bboData
       /\ IF tickMs <= EndMs
          THEN market' = ProcessEvent(market, row) /\ cache' = CacheEvent(cache, row)
          ELSE UNCHANGED <<market, cache>>
  /\ UNCHANGED <<tickMs, strategy, lastQuoteMs, sim, enriched>>

(* Mutant: the search leaves out the row at the target time.               *)
FindBboStrictly(targetMs) ==
  LET Search[span \in (1..Len(bboData) + 1) \X (0..Len(bboData))] ==
        LET left == span[1]
            right == span[2]
            mid == (left + right) \div 2
        IN  IF left > right THEN left - 1
            ELSE IF bboData[mid].ts < targetMs THEN Search[<<mid + 1, right>>]
            ELSE Search[<<left, mid - 1>>]
  IN  Search[<<1, Len(bboData)>>]

(* findBboBeforeTime: the binary search, with the index of the result, 0   *)
(* for none; what the code keeps as result is the row before left.         *)
FindBboBeforeTime(targetMs) ==
  LET Search[span \in (1..Len(bboData) + 1) \X (0..Len(bboData))] ==
        LET left == span[1]
            right == span[2]
            mid == (left + right) \div 2
        IN  IF left > right THEN left - 1
            ELSE IF bboData[mid].ts <= targetMs THEN Search[<<mid + 1, right>>]
            ELSE Search[<<left, mid - 1>>]
  IN  Search[<<1, Len(bboData)>>]

CalculateMarkoutBps(side, midT0, midT10s) ==
  IF midT0 = 0 THEN 0
  ELSE Quotient(Bps * (IF side = "buy" THEN midT10s - midT0 ELSE midT0 - midT10s), midT0)

Enriched(fill) ==
  LET i == FindBboBeforeTime(fill.ts + WindowMs)
      known == i > 0 /\ bboData[i].ts >= fill.ts
  IN  [ts |-> fill.ts, side |-> fill.side,
       midT10s |-> IF known THEN bboData[i].midPx ELSE Undefined,
       markout10sBps |-> IF known THEN CalculateMarkoutBps(fill.side, fill.midT0, bboData[i].midPx)
                         ELSE Undefined]

(* Without a row of md_bbo the program throws before the first tick. *)
Report ==
  /\ tickMs > EndMs /\ enriched = Undefined /\ bboData # <<>>
  /\ enriched' = [i \in DOMAIN sim.fills |-> Enriched(sim.fills[i])]
  /\ UNCHANGED <<tickMs, lastRow, rowCount, bboData, market, cache, strategy, lastQuoteMs, sim>>

ReplayNext == Row \/ ReplayTick \/ Report

ReplaySpec == ReplayInit /\ [][ReplayNext]_replayVars

-----------------------------------------------------------------------------
(* Properties                                                              *)

Resting == {side \in Sides : sim.orders[side] # Undefined}

(* The touch rule of requirement 11.3, kept over ticks, replaced orders and *)
(* pruned windows: an order fills only by a trade that reached its price,   *)
(* and it never rests through one: after a tick no trade since it was       *)
(* placed has reached it.                                                  *)
FillsMatchTrades ==
  /\ \A i \in DOMAIN sim.fills :
       Touches(sim.fills[i].side, [px |-> sim.fills[i].tradePx], [price |-> sim.fills[i].orderPx])
  /\ \A side \in Resting : \A i \in DOMAIN market.trades :
       LET order == sim.orders[side]
           trade == market.trades[i]
       IN  order.createdAtMs < trade.ts /\ trade.ts <= tickMs - TickIntervalMs
             => ~Touches(side, trade, order)

(* Requirement 11.3 fills an order by the next trade, and the runner by     *)
(* "trades that arrived since last tick" (backtest-runner.ts:118): a trade  *)
(* the tick that places an order has already looked at does not fill it.    *)
(* The window is closed at both ends, so a trade at the time of a tick is   *)
(* looked at once more at the next one, and fills the order placed between. *)
NextTradeFills == \A i \in DOMAIN sim.fills : sim.fills[i].ts > sim.fills[i].placedAt

(* The size of an order when the prices stay around the ones of the rows.   *)
OrderSize == Max({0} \cup {sim.fills[i].size : i \in DOMAIN sim.fills})

(* The sum of the fills, a buy counting up and a sell down.                *)
NetFilled(fills) == FoldLeft(LAMBDA sum, f : sum + Signed(f.side, f.size), 0, fills)

(* The totals the backtest reports agree with each other: every order that  *)
(* was placed was filled, counted as cancelled, or still rests, the         *)
(* position is the sum of the fills, and it is at most one order beyond the *)
(* limit, because a position beyond it pauses and cancels at the same tick. *)
TotalsAgree ==
  /\ sim.orderIdCounter = Len(sim.fills) + sim.cancelCount + Cardinality(Resting)
  /\ sim.position = NetFilled(sim.fills)
  /\ AbsVal(sim.position) <= Params.maxInventory + OrderSize
  /\ AbsVal(sim.position) > Params.maxInventory => Resting = {}

(* Paper and live decide from the same data: whatever rows came in whatever *)
(* order, the backtest's market and the executor's cache have the same      *)
(* features at the time of the tick, although they prune at other times.    *)
ReplayMatchesLive ==
  tickMs <= EndMs =>
    /\ HasValidData(market) <=> HasValidData(cache)
    /\ HasValidData(market) => FeaturesAt(market, tickMs, Params) = FeaturesAt(cache, tickMs, Params)

(* A markout never looks further than its window after the fill nor at a   *)
(* price older than the fill, and misses no newer price that it may use.    *)
MarkoutInWindow ==
  enriched # Undefined =>
    \A i \in DOMAIN enriched :
      LET usable == {j \in DOMAIN bboData :
                       bboData[j].ts \in enriched[i].ts..(enriched[i].ts + WindowMs)}
      IN  enriched[i].midT10s = IF usable = {} THEN Undefined ELSE bboData[Max(usable)].midPx
=============================================================================
