--------------------------- MODULE QuoteCalculator ---------------------------
(***************************************************************************)
(* The pure calculators of packages/core: the features of the market data  *)
(* and the quotes made from them.  Prices are integers on a scale where a  *)
(* basis point of the mid is a whole number; basis points and bps gains are *)
(* integers too, the trade imbalance is in tenths as in StrategyCore.      *)
(***************************************************************************)
EXTENDS StrategyCore, SequencesExt

Bps == 10000

(* Division as the code's numbers do it, then cut towards zero.            *)
Quotient(a, b) == IF a < 0 THEN -((-a) \div b) ELSE a \div b

CalculateMid(bid, ask) == (bid + ask) \div 2

-----------------------------------------------------------------------------
(* Features                                                                *)

Count(trades, Test(_)) == Cardinality({i \in DOMAIN trades : Test(trades[i])})

(* The side of a trade that came without one is inferred from its price.   *)
IsBuy(trade, midPx) ==
  IF trade.side = Undefined THEN trade.px >= midPx ELSE trade.side = "buy"

(* Every trade has the same size. *)
TradeImbalance1s(trades, midPx) ==
  LET Buy(t) == IsBuy(t, midPx)
      buys == Count(trades, Buy)
      n == Len(trades)
  IN  IF n = 0 THEN 0 ELSE Quotient(10 * (2 * buys - n), n)

(* The returns between neighbouring mids, simple ones for the code's logs,  *)
(* and the square root of their variance.                                  *)
RealizedVol10s(mids) ==
  LET n == Len(mids) - 1
      returns == [i \in 1..n |-> Quotient(Bps * (mids[i + 1].midPx - mids[i].midPx), mids[i].midPx)]
      mean == Quotient(FoldSeq(+, 0, returns), n)
      variance == FoldSeq(LAMBDA r, sum : sum + (r - mean) * (r - mean), 0, returns) \div n
  IN  IF n < 1 THEN 0
      ELSE CHOOSE s \in 0..variance : s * s <= variance /\ (s + 1) * (s + 1) > variance

(* "0" until both prices are known. *)
MarkIndexDivBps(markPx, indexPx, midPx) ==
  IF markPx = Undefined \/ indexPx = Undefined \/ midPx = 0 THEN 0
  ELSE Quotient(Bps * AbsVal(markPx - indexPx), midPx)

LiqCount10s(trades) ==
  LET Liquidation(t) == t.type \in {"liq", "delev"}
  IN  Count(trades, Liquidation)

IsDataStale(lastUpdateMs, nowMs, staleCancelMs) == nowMs - lastUpdateMs > staleCancelMs

ComputeFeatures(snapshot, trades1s, trades10s, mids10s, params) ==
  LET mid == CalculateMid(snapshot.bestBidPx, snapshot.bestAskPx)
  IN  [midPx |-> mid,
       tradeImbalance1s |-> TradeImbalance1s(trades1s, mid),
       realizedVol10s |-> RealizedVol10s(mids10s),
       markIndexDivBps |-> MarkIndexDivBps(snapshot.markPx, snapshot.indexPx, mid),
       liqCount10s |-> LiqCount10s(trades10s),
       dataStale |-> IsDataStale(snapshot.lastUpdateMs, snapshot.nowMs, params.staleCancelMs)]

-----------------------------------------------------------------------------
(* Quotes                                                                  *)

CalculateHalfSpreadBps(params, features) ==
  params.baseHalfSpreadBps + params.volSpreadGain * features.realizedVol10s
    + (params.toxSpreadGain * AbsVal(features.tradeImbalance1s)) \div 10

CalculateSkewBps(params, position) == params.inventorySkewGain * position

BpsToPrice(midPx, bps) == Quotient(midPx * bps, Bps)

CalculateQuotePrices(params, features, position) ==
  LET half == BpsToPrice(features.midPx, CalculateHalfSpreadBps(params, features))
      skew == BpsToPrice(features.midPx, CalculateSkewBps(params, position))
  IN  [bidPx |-> features.midPx - half - skew, askPx |-> features.midPx + half - skew]

UsdToBaseSize(quoteSizeUsd, midPx) ==
  IF quoteSizeUsd <= 0 \/ midPx <= 0 THEN 0 ELSE quoteSizeUsd \div midPx

GenerateQuoteIntent(params, features, position) ==
  LET prices == CalculateQuotePrices(params, features, position)
  IN  [bidPx |-> prices.bidPx, askPx |-> prices.askPx,
       size |-> UsdToBaseSize(params.quoteSizeUsd, features.midPx)]

PriceExceedsThreshold(currentPx, targetPx, midPx, thresholdBps) ==
  midPx = 0 \/ Quotient(Bps * AbsVal(targetPx - currentPx), midPx) >= thresholdBps
=============================================================================
