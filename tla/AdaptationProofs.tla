-------------------------- MODULE AdaptationProofs --------------------------
(***************************************************************************)
(* Proofs about the slow loop around the executor: how far and how fast     *)
(* the overlay tightens the spread, for any times and steps; the proposals  *)
(* of the reflector and what the two gates let them change, for any         *)
(* answers of the model, any caps, windows and restarts; and the enriched   *)
(* fills of the summarizer, for any fills, prices, horizons and delays.     *)
(***************************************************************************)
EXTENDS Reflector, ParamsOverlay, FillSummary, FiniteSetTheorems, TLAPS

-----------------------------------------------------------------------------
(* The overlay                                                             *)

(* The spread is tightened only after a reference for the window, and what  *)
(* it was at the last step is bounded by the steps that fit in until then. *)
Tightened ==
  /\ lastTightenAtMs # Null /\ lastFillAtMs # Null
  /\ lastTightenAtMs - quietSince - NoFillWindowMs >= 0
  /\ tightenBps <= TightenStepBps * (1 + (lastTightenAtMs - quietSince - NoFillWindowMs) \div TightenIntervalMs)
  /\ base - tightenBps >= MinBaseHalfSpreadBps

OverlayInv ==
  /\ now \in Nat /\ base \in Bases /\ quietSince \in 0 .. now
  /\ tightenBps \in Nat /\ active \in BOOLEAN
  /\ lastTightenAtMs \in Nat \cup {Null} /\ lastTightenAtMs <= now
  /\ lastFillAtMs \in Nat \cup {Null}
  /\ lastFillAtMs # Null => lastFillAtMs >= quietSince
  /\ tightenBps > 0 => Tightened
  /\ \E b \in Bases : effective \in LowerOf(b, MinBaseHalfSpreadBps) .. b

(* A window that is longer has as many intervals at least, and one more if  *)
(* it is longer by an interval.                                            *)
LEMMA MoreIntervals ==
  ASSUME NEW a \in Nat, NEW b \in Nat, NEW n \in Nat \ {0}, a <= b
  PROVE  /\ a \div n \in Nat /\ b \div n \in Nat
         /\ a \div n <= b \div n
         /\ a + n <= b => a \div n + 1 <= b \div n
OBVIOUS

LEMMA MoreSteps ==
  ASSUME NEW step \in Nat, NEW a \in Nat, NEW b \in Nat
  PROVE  /\ a <= b => step * (1 + a) <= step * (1 + b)
         /\ a + 1 <= b => step * (1 + a) + step <= step * (1 + b)
OBVIOUS

LEMMA OverlayStarts == OverlayInit => OverlayInv
<1> SUFFICES ASSUME OverlayInit PROVE OverlayInv
  OBVIOUS
<1>1. base \in Bases /\ base \in Nat /\ MinBaseHalfSpreadBps \in Nat /\ effective = base
  BY OverlayAssumption DEF OverlayInit
<1>2. effective \in LowerOf(base, MinBaseHalfSpreadBps) .. base
  BY <1>1 DEF LowerOf
<1>3. QED
  BY <1>1, <1>2 DEF OverlayInit, OverlayInv, Null

(* A tick that tightens: the window without a fill has passed, and since    *)
(* the step before it an interval.                                         *)
LEMMA TightenStep ==
  ASSUME OverlayInv, OverlayTick(TRUE), Tightens(AfterSetActive(TRUE))
  PROVE  tightenBps' \in Nat /\ Tightened' /\ lastTightenAtMs' = now
<1> DEFINE W == NoFillWindowMs
           I == TightenIntervalMs
           S == TightenStepBps
           M == MinBaseHalfSpreadBps
           before == lastTightenAtMs - quietSince - W
           after == now - quietSince - W
<1>1. W \in Nat /\ I \in Nat \ {0} /\ S \in Nat /\ M \in Nat /\ base \in Nat
  BY OverlayAssumption DEF OverlayInv
<1>2. /\ lastFillAtMs # Null /\ now - lastFillAtMs >= W
      /\ lastTightenAtMs # Null => now - lastTightenAtMs >= I
      /\ base - tightenBps > M
  BY DEF Tightens, AfterSetActive
<1>3. /\ tightenBps' = LowerOf(tightenBps + S, base - M) /\ lastTightenAtMs' = now
      /\ lastFillAtMs' = lastFillAtMs /\ UNCHANGED <<now, base, quietSince>>
  BY <1>2 DEF OverlayTick, Adjusted, AfterSetActive
<1>4. /\ now \in Nat /\ quietSince \in Nat /\ tightenBps \in Nat
      /\ lastFillAtMs \in Nat /\ lastFillAtMs >= quietSince
  BY <1>2 DEF OverlayInv
<1>5. after \in Nat
  BY <1>1, <1>2, <1>4
<1>6. tightenBps' \in Nat /\ tightenBps' <= tightenBps + S /\ base - tightenBps' >= M
  BY <1>1, <1>2, <1>3, <1>4 DEF LowerOf
<1>7. tightenBps + S <= S * (1 + after \div I)
  <2>1. CASE tightenBps = 0
    <3>1. after \div I \in Nat
      BY <1>1, <1>5, MoreIntervals
    <3>2. S * (1 + 0) <= S * (1 + after \div I) /\ S * (1 + 0) = S
      BY <1>1, <3>1, MoreSteps
    <3>3. QED
      BY <1>1, <2>1, <3>2
  <2>2. CASE tightenBps > 0
    <3>1. /\ lastTightenAtMs \in Nat /\ before >= 0
          /\ tightenBps <= S * (1 + before \div I)
          /\ now - lastTightenAtMs >= I
      BY <1>2, <2>2 DEF OverlayInv, Tightened
    <3>2. before \in Nat /\ before + I <= after
      BY <1>1, <1>4, <3>1
    <3>3. before \div I \in Nat /\ after \div I \in Nat /\ before \div I + 1 <= after \div I
      BY <1>1, <1>5, <3>2, MoreIntervals
    <3>4. S * (1 + before \div I) + S <= S * (1 + after \div I)
      BY <1>1, <3>3, MoreSteps
    <3>5. S * (1 + before \div I) \in Nat /\ S * (1 + after \div I) \in Nat
      BY <1>1, <3>3
    <3>6. QED
      BY <1>1, <1>4, <3>1, <3>4, <3>5
  <2>3. QED
    BY <1>4, <2>1, <2>2
<1>8. S * (1 + after \div I) \in Nat
  BY <1>1, <1>5, MoreIntervals
<1>9. tightenBps' <= S * (1 + after \div I)
  BY <1>1, <1>4, <1>6, <1>7, <1>8
<1>10. lastTightenAtMs' # Null /\ lastFillAtMs' # Null
  BY <1>2, <1>3, <1>4 DEF Null
<1>11. QED
  BY <1>3, <1>5, <1>6, <1>9, <1>10 DEF Tightened

LEMMA BaseStaysInRange ==
  ASSUME OverlayInv, NEW tighten \in Nat
  PROVE  /\ base \in LowerOf(base, MinBaseHalfSpreadBps) .. base
         /\ EffectiveBase(tighten) \in LowerOf(base, MinBaseHalfSpreadBps) .. base
<1>1. base \in Nat /\ MinBaseHalfSpreadBps \in Nat
  BY OverlayAssumption DEF OverlayInv
<1>2. QED
  BY <1>1 DEF EffectiveBase, LowerOf, HigherOf

LEMMA OverlayStep == OverlayInv /\ [OverlayNext]_overlayVars => OverlayInv'
<1> SUFFICES ASSUME OverlayInv, [OverlayNext]_overlayVars PROVE OverlayInv'
  OBVIOUS
<1>1. /\ now \in Nat /\ base \in Bases /\ quietSince \in Nat /\ quietSince <= now
      /\ tightenBps \in Nat
      /\ lastTightenAtMs \in Nat \cup {Null} /\ lastTightenAtMs <= now
      /\ lastFillAtMs \in Nat \cup {Null} /\ (lastFillAtMs # Null => lastFillAtMs >= quietSince)
      /\ tightenBps > 0 => Tightened
  BY DEF OverlayInv
<1>2. active \in BOOLEAN
  BY DEF OverlayInv
<1>3. \E b \in Bases : effective \in LowerOf(b, MinBaseHalfSpreadBps) .. b
  BY DEF OverlayInv
<1>4. MaxFillLag \in Nat /\ Null = -1 /\ Null \notin Nat
  BY OverlayAssumption DEF Null
<1>5. CASE Elapse
  <2>1. now' = now + 1 /\ UNCHANGED <<base, tightenBps, lastTightenAtMs, lastFillAtMs, quietSince>>
        /\ active' = active /\ effective' = effective
    BY <1>5 DEF Elapse, overlayState
  <2>2. now' \in Nat /\ lastTightenAtMs' <= now'
    BY <1>1, <1>4, <2>1
  <2>3. tightenBps' > 0 => Tightened'
    BY <1>1, <2>1 DEF Tightened
  <2>4. active' \in BOOLEAN
    BY <1>2, <2>1
  <2>5. QED
    BY <1>1, <1>3, <2>1, <2>2, <2>3, <2>4 DEF OverlayInv
<1>6. CASE Fill
  <2>1. PICK ts \in HigherOf(0, now - MaxFillLag) .. now :
           OnFill(ts) /\ quietSince' = ts /\ UNCHANGED <<now, base, effective>>
    BY <1>6 DEF Fill
  <2>2. /\ lastFillAtMs' = ts /\ tightenBps' = 0 /\ lastTightenAtMs' \in {Null, lastTightenAtMs}
        /\ active' = active
    BY <2>1 DEF OnFill
  <2>3. HigherOf(0, now - MaxFillLag) \in Nat
    BY <1>1, <1>4 DEF HigherOf
  <2>4. ts \in Nat /\ ts <= now
    BY <1>1, <2>3
  <2>5. lastTightenAtMs' \in Nat \cup {Null} /\ lastTightenAtMs' <= now'
    BY <1>1, <1>4, <2>1, <2>2
  <2>6. active' \in BOOLEAN
    BY <1>2, <2>2
  <2>7. QED
    BY <1>1, <1>3, <2>1, <2>2, <2>4, <2>5, <2>6 DEF OverlayInv
<1>7. CASE NewParams
  <2>1. /\ base' \in Bases /\ tightenBps' = 0 /\ lastTightenAtMs' = Null /\ lastFillAtMs' = Null
        /\ quietSince' = now /\ UNCHANGED <<now, effective>> /\ active' = TRUE
    BY <1>7 DEF NewParams, Reset
  <2>2. lastTightenAtMs' <= now'
    BY <1>1, <1>4, <2>1
  <2>3. active' \in BOOLEAN
    BY <2>1
  <2>4. QED
    BY <1>1, <1>3, <2>1, <2>2, <2>3 DEF OverlayInv
<1>8. CASE OverlayTick(TRUE)
  <2>1. active' = TRUE /\ UNCHANGED <<now, base, quietSince>>
        /\ lastFillAtMs' = (IF lastFillAtMs = Null THEN now ELSE lastFillAtMs)
        /\ effective' = EffectiveBase(tightenBps')
    BY <1>8 DEF OverlayTick
  <2>2. lastFillAtMs' \in Nat \cup {Null} /\ (lastFillAtMs' # Null => lastFillAtMs' >= quietSince')
    BY <1>1, <2>1
  <2>3. /\ tightenBps' \in Nat
        /\ lastTightenAtMs' \in Nat \cup {Null} /\ lastTightenAtMs' <= now'
        /\ tightenBps' > 0 => Tightened'
    <3>1. CASE Tightens(AfterSetActive(TRUE))
      <4>1. tightenBps' \in Nat /\ Tightened' /\ lastTightenAtMs' = now
        BY <1>8, <3>1, TightenStep
      <4>2. QED
        BY <1>1, <2>1, <4>1
    <3>2. CASE ~Tightens(AfterSetActive(TRUE))
      <4>1. UNCHANGED <<tightenBps, lastTightenAtMs>>
        BY <1>8, <3>2 DEF OverlayTick, Adjusted, AfterSetActive
      <4>2. tightenBps > 0 => lastFillAtMs' = lastFillAtMs
        BY <1>1, <2>1 DEF Tightened
      <4>3. tightenBps' > 0 => Tightened'
        BY <1>1, <2>1, <4>1, <4>2 DEF Tightened
      <4>4. QED
        BY <1>1, <2>1, <4>1, <4>3
    <3>3. QED
      BY <3>1, <3>2
  <2>4. effective' \in LowerOf(base, MinBaseHalfSpreadBps) .. base
    <3>1. \A tighten \in Nat : EffectiveBase(tighten) \in LowerOf(base, MinBaseHalfSpreadBps) .. base
      BY BaseStaysInRange
    <3>2. PICK tighten \in Nat : tighten = tightenBps'
      BY <2>3
    <3>3. effective' = EffectiveBase(tighten)
      BY <2>1, <3>2 DEF EffectiveBase
    <3>4. QED
      BY <3>1, <3>3
  <2>5. active' \in BOOLEAN
    BY <2>1
  <2>6. QED
    BY <1>1, <2>1, <2>2, <2>3, <2>4, <2>5 DEF OverlayInv
<1>9. CASE OverlayTick(FALSE)
  <2>1. active' = FALSE /\ effective' = base /\ UNCHANGED <<now, base, quietSince, lastFillAtMs>>
    BY <1>9 DEF OverlayTick
  <2>2. \/ tightenBps' = 0 /\ lastTightenAtMs' = Null
        \/ UNCHANGED <<tightenBps, lastTightenAtMs>>
    BY <1>9 DEF OverlayTick, AfterSetActive
  <2>3. tightenBps' \in Nat /\ lastTightenAtMs' \in Nat \cup {Null} /\ lastTightenAtMs' <= now'
    BY <1>1, <1>4, <2>1, <2>2
  <2>4. tightenBps' > 0 => Tightened'
    BY <1>1, <2>1, <2>2 DEF Tightened
  <2>5. effective' \in LowerOf(base, MinBaseHalfSpreadBps) .. base
    BY <2>1, BaseStaysInRange
  <2>6. active' \in BOOLEAN
    BY <2>1
  <2>7. QED
    BY <1>1, <2>1, <2>3, <2>4, <2>5, <2>6 DEF OverlayInv
<1>10. CASE UNCHANGED overlayVars
  <2>1. UNCHANGED <<now, base, tightenBps, lastTightenAtMs, lastFillAtMs, quietSince, active, effective>>
    BY <1>10 DEF overlayVars, overlayState
  <2>2. active' \in BOOLEAN
    BY <1>2, <2>1
  <2>3. tightenBps' > 0 => Tightened'
    BY <1>1, <2>1 DEF Tightened
  <2>4. QED
    BY <1>1, <1>3, <2>1, <2>2, <2>3 DEF OverlayInv
<1>11. QED
  BY <1>5, <1>6, <1>7, <1>8, <1>9, <1>10 DEF OverlayNext

(* The spread is not tightened before a window without a fill has passed,   *)
(* then by a step per interval at most and not below the floor: for any     *)
(* window, interval, step, floor and parameters, and for fills that are     *)
(* handled however late (ParamsOverlay: onFill, setActive, reset,           *)
(* computeEffectiveParams).                                                *)
THEOREM SpreadTightensSlowly == OverlayInit /\ [][OverlayNext]_overlayVars => []TightensSlowly
<1>1. OverlayInv => TightensSlowly
  <2> SUFFICES ASSUME OverlayInv PROVE TightensSlowly
    OBVIOUS
  <2> DEFINE before == lastTightenAtMs - quietSince - NoFillWindowMs
             quiet == now - quietSince - NoFillWindowMs
             I == TightenIntervalMs
             S == TightenStepBps
  <2>1. ASSUME tightenBps > 0
        PROVE  /\ quiet >= 0
               /\ tightenBps <= S * (1 + quiet \div I)
               /\ base - tightenBps >= MinBaseHalfSpreadBps
    <3>1. Tightened /\ now \in Nat /\ quietSince \in Nat /\ tightenBps \in Nat
          /\ lastTightenAtMs \in Nat \cup {Null} /\ lastTightenAtMs <= now
      BY <2>1 DEF OverlayInv
    <3>2. NoFillWindowMs \in Nat /\ I \in Nat \ {0} /\ S \in Nat
      BY OverlayAssumption
    <3>3. before \in Nat /\ quiet \in Nat /\ before <= quiet
      BY <3>1, <3>2 DEF Tightened
    <3>4. before \div I \in Nat /\ quiet \div I \in Nat /\ before \div I <= quiet \div I
      BY <3>2, <3>3, MoreIntervals
    <3>5. S * (1 + before \div I) <= S * (1 + quiet \div I)
          /\ S * (1 + before \div I) \in Nat /\ S * (1 + quiet \div I) \in Nat
      BY <3>2, <3>4, MoreSteps
    <3>6. tightenBps <= S * (1 + before \div I) /\ base - tightenBps >= MinBaseHalfSpreadBps
      BY <3>1 DEF Tightened
    <3>7. QED
      BY <3>1, <3>3, <3>5, <3>6
  <2>2. QED
    BY <2>1 DEF TightensSlowly, OverlayInv
<1>2. QED
  BY <1>1, OverlayStarts, OverlayStep, PTL

-----------------------------------------------------------------------------
(* The summarizer                                                          *)

MarketRows == [ts : Nat, midPx : Prices]

(* The market data before the horizon of a fill that is due is complete.   *)
Final(fill) == fill \in DOMAIN exFill /\ exFill[fill] + MaxHorizonMs <= clock

SummaryInv ==
  /\ clock \in Nat
  /\ exFill \in [DOMAIN exFill -> Nat]
  /\ stored \in SUBSET MarketRows /\ buffered \in SUBSET MarketRows
  /\ \A row \in buffered : row.ts <= clock /\ clock <= row.ts + MaxDelayMs
  /\ \A fill \in batch : Final(fill) /\ fill \notin Enriched
  /\ \A row \in current :
       /\ row.fill \in batch
       /\ row.short \in ShortLookups(stored \cup buffered, exFill[row.fill])
  /\ \A row \in enriched :
       /\ Final(row.fill)
       /\ row.short \in ShortLookups(stored \cup buffered, exFill[row.fill])
       /\ \A other \in enriched : other.fill = row.fill => other = row
  /\ busy = FALSE => batch = {}
  /\ busy \in BOOLEAN

(* Rows of market data later than a lookup's reach do not change what it    *)
(* finds.                                                                  *)
LEMMA LaterRowsNotFound ==
  ASSUME NEW rows \in SUBSET MarketRows, NEW more \in SUBSET MarketRows, rows \subseteq more,
         NEW target \in Nat, NEW tolerance \in Nat,
         \A r \in more \ rows : r.ts > target + tolerance
  PROVE  MidsAt(more, target, tolerance) = MidsAt(rows, target, tolerance)
<1> DEFINE near(s) == {r \in s : Distance(r.ts, target) <= tolerance}
<1>1. \A r \in more : r.ts \in Nat
  BY DEF MarketRows
<1>2. ASSUME NEW r \in more \ rows PROVE ~(Distance(r.ts, target) <= tolerance)
  <2>1. r.ts \in Nat /\ r.ts > target + tolerance
    BY <1>1, <1>2
  <2>2. QED
    BY <2>1 DEF Distance
<1>3. near(more) = near(rows)
  BY <1>2
<1>4. findClosestBbo(more, target, tolerance) = findClosestBbo(rows, target, tolerance)
  BY <1>3 DEF findClosestBbo
<1>5. QED
  BY <1>4 DEF MidsAt

(* What is looked up to the 10 s horizon is the same with rows behind it.  *)
LEMMA LookupsAreFinal ==
  ASSUME NEW rows \in SUBSET MarketRows, NEW more \in SUBSET MarketRows, rows \subseteq more,
         NEW ts \in Nat,
         \A r \in more \ rows : r.ts > ts + Horizon10s + Tolerance10s
  PROVE  ShortLookups(more, ts) = ShortLookups(rows, ts)
<1>1. /\ {Horizon1s, Horizon10s, ToleranceT0, Tolerance1s, Tolerance10s, FeatureWindowMs} \subseteq Nat
      /\ Horizon1s + Tolerance1s <= Horizon10s + Tolerance10s
      /\ ToleranceT0 <= Horizon10s + Tolerance10s
  BY HorizonAssumption
<1>2. \A r \in more : r.ts \in Nat
  BY DEF MarketRows
<1>3. \A r \in more \ rows : r.ts > ts + ToleranceT0 /\ r.ts > (ts + Horizon1s) + Tolerance1s
                             /\ r.ts > (ts + Horizon10s) + Tolerance10s /\ r.ts > ts
  BY <1>1, <1>2
<1>4. MidsAt(more, ts, ToleranceT0) = MidsAt(rows, ts, ToleranceT0)
  BY <1>1, <1>3, LaterRowsNotFound
<1>5. MidsAt(more, ts + Horizon1s, Tolerance1s) = MidsAt(rows, ts + Horizon1s, Tolerance1s)
  <2>1. ts + Horizon1s \in Nat
    BY <1>1
  <2>2. QED
    BY <1>1, <1>3, <2>1, LaterRowsNotFound
<1>6. MidsAt(more, ts + Horizon10s, Tolerance10s) = MidsAt(rows, ts + Horizon10s, Tolerance10s)
  <2>1. ts + Horizon10s \in Nat
    BY <1>1
  <2>2. QED
    BY <1>1, <1>3, <2>1, LaterRowsNotFound
<1>7. InFeatureWindow(more, ts) = InFeatureWindow(rows, ts)
  <2>1. \A r \in more \ rows : r.ts \notin ts - FeatureWindowMs .. ts
    BY <1>1, <1>2, <1>3
  <2>2. QED
    BY <2>1 DEF InFeatureWindow
<1>8. QED
  BY <1>4, <1>5, <1>6, <1>7 DEF ShortLookups

(* Whatever is added to the market data now is later than what a final fill *)
(* looks up.                                                               *)
LEMMA FinalIsLater ==
  ASSUME SummaryInv, NEW fill, Final(fill)
  PROVE  /\ exFill[fill] \in Nat
         /\ clock > exFill[fill] + Horizon10s + Tolerance10s
         /\ \A r \in buffered : r.ts > exFill[fill] + Horizon10s + Tolerance10s
<1>1. /\ exFill[fill] \in Nat /\ exFill[fill] + MaxHorizonMs <= clock /\ clock \in Nat
      /\ \A r \in buffered : r.ts \in Nat /\ clock <= r.ts + MaxDelayMs
  BY DEF Final, SummaryInv, MarketRows
<1>2. /\ {Horizon10s, Tolerance10s, MaxDelayMs, MaxHorizonMs} \subseteq Nat
      /\ Horizon10s + Tolerance10s + MaxDelayMs < MaxHorizonMs
  BY HorizonAssumption
<1>3. QED
  BY <1>1, <1>2

(* Time, fills and market data change nothing about final fills. *)
LEMMA WorldStep ==
  ASSUME SummaryInv, UNCHANGED <<enriched, busy, batch, current>>,
         clock' \in Nat, clock <= clock',
         exFill' \in [DOMAIN exFill' -> Nat], DOMAIN exFill \subseteq DOMAIN exFill',
         \A fill \in DOMAIN exFill : exFill'[fill] = exFill[fill],
         stored' \in SUBSET MarketRows, buffered' \in SUBSET MarketRows,
         \A row \in buffered' : row.ts <= clock' /\ clock' <= row.ts + MaxDelayMs,
         stored \cup buffered \subseteq stored' \cup buffered',
         \A row \in (stored' \cup buffered') \ (stored \cup buffered) : row.ts = clock
  PROVE  SummaryInv'
<1>1. ASSUME NEW fill, Final(fill)
      PROVE  /\ Final(fill)' /\ exFill'[fill] = exFill[fill]
             /\ ShortLookups(stored' \cup buffered', exFill'[fill])
                  = ShortLookups(stored \cup buffered, exFill[fill])
  <2>1. exFill'[fill] = exFill[fill] /\ fill \in DOMAIN exFill'
    BY <1>1 DEF Final
  <2>2. exFill[fill] \in Nat /\ clock > exFill[fill] + Horizon10s + Tolerance10s
    BY <1>1, FinalIsLater
  <2>3. Final(fill)'
    <3>1. exFill[fill] + MaxHorizonMs <= clock /\ clock \in Nat /\ MaxHorizonMs \in Nat
      BY <1>1, HorizonAssumption DEF Final, SummaryInv
    <3>2. exFill'[fill] + MaxHorizonMs <= clock'
      BY <2>1, <2>2, <3>1
    <3>3. QED
      BY <2>1, <3>2 DEF Final
  <2>4. stored \cup buffered \in SUBSET MarketRows /\ stored' \cup buffered' \in SUBSET MarketRows
    BY DEF SummaryInv
  <2>5. \A r \in (stored' \cup buffered') \ (stored \cup buffered) :
           r.ts > exFill[fill] + Horizon10s + Tolerance10s
    BY <2>2
  <2>6. ShortLookups(stored' \cup buffered', exFill[fill]) = ShortLookups(stored \cup buffered, exFill[fill])
    BY <2>2, <2>4, <2>5, LookupsAreFinal
  <2>7. QED
    BY <2>1, <2>3, <2>6
<1>2. \A fill \in batch' : Final(fill)' /\ fill \notin Enriched'
  BY <1>1 DEF SummaryInv, Enriched
<1>3. \A row \in current' : row.fill \in batch' /\ row.short \in ShortLookups(stored' \cup buffered', exFill'[row.fill])
  BY <1>1 DEF SummaryInv
<1>4. \A row \in enriched' :
        /\ Final(row.fill)' /\ row.short \in ShortLookups(stored' \cup buffered', exFill'[row.fill])
        /\ \A other \in enriched' : other.fill = row.fill => other = row
  BY <1>1 DEF SummaryInv
<1>5. busy' \in BOOLEAN /\ (busy' = FALSE => batch' = {})
  BY DEF SummaryInv
<1>6. QED
  BY <1>2, <1>3, <1>4, <1>5 DEF SummaryInv

LEMMA RunStep ==
  ASSUME SummaryInv, StartRun
  PROVE  SummaryInv'
<1>1. /\ ~busy /\ busy' = TRUE /\ batch' \in Batches
      /\ UNCHANGED <<clock, exFill, stored, buffered, enriched, current>>
  BY DEF StartRun
<1>2. batch' \subseteq Due
  BY <1>1 DEF Batches
<1>3. ASSUME NEW fill \in Due PROVE Final(fill) /\ fill \notin Enriched
  <2>1. fill \in DOMAIN exFill /\ fill \notin Enriched /\ exFill[fill] <= clock - MaxHorizonMs
    BY <1>3 DEF Due
  <2>2. exFill[fill] \in Nat /\ clock \in Nat /\ MaxHorizonMs \in Nat
    BY <2>1, HorizonAssumption DEF SummaryInv
  <2>3. exFill[fill] + MaxHorizonMs <= clock
    BY <2>1, <2>2
  <2>4. QED
    BY <2>1, <2>3 DEF Final
<1>4. \A fill \in batch' : Final(fill)' /\ fill \notin Enriched'
  BY <1>1, <1>2, <1>3 DEF Final, Enriched
<1>5. current = {}
  <2>1. batch = {}
    BY <1>1 DEF SummaryInv
  <2>2. QED
    BY <2>1 DEF SummaryInv
<1>6. QED
  BY <1>1, <1>4, <1>5 DEF SummaryInv, Final

LEMMA LookUpStep ==
  ASSUME SummaryInv, NEW fill, LookUp(fill)
  PROVE  SummaryInv'
<1>1. /\ fill \in batch /\ UNCHANGED <<clock, exFill, stored, buffered, enriched, busy, batch>>
  BY DEF LookUp
<1>2. PICK short \in ShortLookups(stored, exFill[fill]), long \in LongLookups(stored, exFill[fill]) :
         current' = {[fill |-> fill, short |-> short, midT60s |-> long]}
  BY DEF LookUp
<1>3. Final(fill)
  BY <1>1 DEF SummaryInv
<1>4. ShortLookups(stored \cup buffered, exFill[fill]) = ShortLookups(stored, exFill[fill])
  <2>1. /\ exFill[fill] \in Nat
        /\ \A r \in buffered : r.ts > exFill[fill] + Horizon10s + Tolerance10s
    BY <1>3, FinalIsLater
  <2>2. stored \in SUBSET MarketRows /\ stored \cup buffered \in SUBSET MarketRows
    BY DEF SummaryInv
  <2>3. \A r \in (stored \cup buffered) \ stored : r.ts > exFill[fill] + Horizon10s + Tolerance10s
    BY <2>1
  <2>4. QED
    BY <2>1, <2>2, <2>3, LookupsAreFinal
<1>5. \A row \in current' :
        row.fill \in batch' /\ row.short \in ShortLookups(stored' \cup buffered', exFill'[row.fill])
  BY <1>1, <1>2, <1>4
<1>6. QED
  BY <1>1, <1>5 DEF SummaryInv, Final, Enriched

LEMMA InsertStep ==
  ASSUME SummaryInv, NEW row, Insert(row)
  PROVE  SummaryInv'
<1> DEFINE new == [fill |-> row.fill, short |-> row.short, midT60s |-> row.midT60s, id |-> Cardinality(enriched)]
<1>1. /\ row \in current /\ enriched' = enriched \cup {new}
      /\ batch' = batch \ {row.fill} /\ busy' = (batch # {row.fill}) /\ current' = {}
      /\ UNCHANGED <<clock, exFill, stored, buffered>>
  BY DEF Insert, Done
<1>2. /\ row.fill \in batch /\ Final(row.fill) /\ row.fill \notin Enriched
      /\ row.short \in ShortLookups(stored \cup buffered, exFill[row.fill])
  BY <1>1 DEF SummaryInv
<1>3. new.fill = row.fill /\ new.short = row.short
  OBVIOUS
<1> HIDE DEF new
<1>4. \A other \in enriched : other.fill # new.fill
  BY <1>2, <1>3 DEF Enriched
<1>5. ASSUME NEW r \in enriched'
      PROVE  /\ Final(r.fill)'
             /\ r.short \in ShortLookups(stored' \cup buffered', exFill'[r.fill])
             /\ \A other \in enriched' : other.fill = r.fill => other = r
  <2>1. CASE r \in enriched
    BY <1>1, <1>4, <2>1 DEF SummaryInv, Final
  <2>2. CASE r = new
    BY <1>1, <1>2, <1>3, <1>4, <2>2 DEF Final
  <2>3. QED
    BY <1>1, <1>5, <2>1, <2>2
<1>6. ASSUME NEW fill \in batch' PROVE Final(fill)' /\ fill \notin Enriched'
  <2>1. fill \in batch /\ fill # row.fill
    BY <1>1, <1>6
  <2>2. Final(fill) /\ fill \notin Enriched
    BY <2>1 DEF SummaryInv
  <2>3. QED
    BY <1>1, <1>3, <2>1, <2>2 DEF Final, Enriched
<1>7. busy' \in BOOLEAN /\ (busy' = FALSE => batch' = {})
  BY <1>1
<1>8. QED
  BY <1>1, <1>5, <1>6, <1>7 DEF SummaryInv

(* Work that is given up, of one fill or by a crash, leaves no trace.      *)
LEMMA GiveUpStep ==
  ASSUME SummaryInv, UNCHANGED <<clock, exFill, stored, buffered, enriched>>,
         current' = {}, batch' \subseteq batch, busy' \in BOOLEAN, busy' = FALSE => batch' = {}
  PROVE  SummaryInv'
<1>1. \A fill \in batch' : Final(fill)' /\ fill \notin Enriched'
  BY DEF SummaryInv, Final, Enriched
<1>2. QED
  BY <1>1 DEF SummaryInv, Final

LEMMA SummaryStep == SummaryInv /\ [SummaryNext]_summaryVars => SummaryInv'
<1> SUFFICES ASSUME SummaryInv, [SummaryNext]_summaryVars PROVE SummaryInv'
  OBVIOUS
<1>1. /\ clock \in Nat /\ exFill \in [DOMAIN exFill -> Nat] /\ MaxDelayMs \in Nat
      /\ stored \in SUBSET MarketRows /\ buffered \in SUBSET MarketRows
      /\ \A row \in buffered : row.ts \in Nat /\ row.ts <= clock /\ clock <= row.ts + MaxDelayMs
  BY HorizonAssumption DEF SummaryInv, MarketRows
<1>2. CASE TimePasses
  <2>1. /\ clock' = clock + 1 /\ \A row \in buffered : clock - row.ts < MaxDelayMs
        /\ UNCHANGED <<exFill, stored, buffered, enriched, busy, batch, current>>
    BY <1>2 DEF TimePasses, workerVars
  <2>2. \A row \in buffered' : row.ts <= clock' /\ clock' <= row.ts + MaxDelayMs
    BY <1>1, <2>1
  <2>3. clock' \in Nat /\ clock <= clock'
    BY <1>1, <2>1
  <2>4. QED
    BY <1>1, <2>1, <2>2, <2>3, WorldStep
<1>3. ASSUME NEW fill \in FillIds, RecordFill(fill) PROVE SummaryInv'
  <2>1. /\ fill \notin DOMAIN exFill
        /\ exFill' = [f \in DOMAIN exFill \cup {fill} |-> IF f = fill THEN clock ELSE exFill[f]]
        /\ UNCHANGED <<clock, stored, buffered, enriched, busy, batch, current>>
    BY <1>3 DEF RecordFill, workerVars
  <2>2. /\ DOMAIN exFill' = DOMAIN exFill \cup {fill}
        /\ \A f \in DOMAIN exFill : exFill'[f] = exFill[f]
        /\ exFill' \in [DOMAIN exFill' -> Nat]
    BY <1>1, <2>1
  <2>3. clock <= clock'
    BY <1>1, <2>1
  <2>4. QED
    BY <1>1, <2>1, <2>2, <2>3, WorldStep
<1>4. ASSUME NEW price \in Prices, MarketRow(price) PROVE SummaryInv'
  <2> DEFINE row == [ts |-> clock, midPx |-> price]
  <2>1. /\ buffered' = buffered \cup {row}
        /\ UNCHANGED <<clock, exFill, stored, enriched, busy, batch, current>>
    BY <1>4 DEF MarketRow, workerVars
  <2>2. row \in MarketRows /\ row.ts = clock
    BY <1>1, <1>4 DEF MarketRows
  <2> HIDE DEF row
  <2>3. clock <= clock' /\ clock' <= clock + MaxDelayMs /\ clock' \in Nat
    BY <1>1, <2>1
  <2>4. \A r \in buffered' : r.ts <= clock' /\ clock' <= r.ts + MaxDelayMs
    BY <1>1, <2>1, <2>2, <2>3
  <2>5. \A r \in (stored' \cup buffered') \ (stored \cup buffered) : r.ts = clock
    BY <2>1, <2>2
  <2>6. buffered' \in SUBSET MarketRows /\ stored \cup buffered \subseteq stored' \cup buffered'
    BY <1>1, <2>1, <2>2
  <2>7. QED
    BY <1>1, <2>1, <2>3, <2>4, <2>5, <2>6, WorldStep
<1>5. ASSUME NEW row \in buffered, StoreRow(row) PROVE SummaryInv'
  <2>1. /\ buffered' = buffered \ {row} /\ stored' = stored \cup {row}
        /\ UNCHANGED <<clock, exFill, enriched, busy, batch, current>>
    BY <1>5 DEF StoreRow, workerVars
  <2>2. stored' \cup buffered' = stored \cup buffered
    BY <1>5, <2>1
  <2>3. clock <= clock'
    BY <1>1, <2>1
  <2>4. stored' \in SUBSET MarketRows /\ buffered' \in SUBSET MarketRows
    BY <1>1, <1>5, <2>1
  <2>5. \A r \in buffered' : r.ts <= clock' /\ clock' <= r.ts + MaxDelayMs
    BY <1>1, <2>1
  <2>6. QED
    BY <1>1, <2>1, <2>2, <2>3, <2>4, <2>5, WorldStep
<1>6. CASE StartRun
  BY <1>6, RunStep
<1>7. CASE ProcessAny
  BY <1>7, LookUpStep DEF ProcessAny
<1>8. CASE InsertAny
  BY <1>8, InsertStep DEF InsertAny
<1>9. ASSUME NEW fill \in FillIds, ProcessFails(fill) PROVE SummaryInv'
  <2>1. /\ batch' = batch \ {fill} /\ busy' = (batch # {fill}) /\ current' = {}
        /\ UNCHANGED <<clock, exFill, stored, buffered, enriched>>
    BY <1>9 DEF ProcessFails, Done
  <2>2. busy' \in BOOLEAN /\ (busy' = FALSE => batch' = {}) /\ batch' \subseteq batch
    BY <2>1
  <2>3. QED
    BY <2>1, <2>2, GiveUpStep
<1>10. CASE CrashAndRestart
  BY <1>10, GiveUpStep DEF CrashAndRestart
<1>11. CASE UNCHANGED summaryVars
  <2>1. UNCHANGED <<clock, exFill, stored, buffered, enriched, busy, batch, current>>
    BY <1>11 DEF summaryVars, workerVars
  <2>2. clock <= clock'
    BY <1>1, <2>1
  <2>3. QED
    BY <1>1, <2>1, <2>2, WorldStep
<1>12. QED
  BY <1>2, <1>3, <1>4, <1>5, <1>6, <1>7, <1>8, <1>9, <1>10, <1>11 DEF SummaryNext

(* A fill has one enriched row, over failures and crashes and although the  *)
(* table would take a second one; and no row of market data that came or    *)
(* comes later would change what was computed up to the 10 s horizon: for   *)
(* any fills, prices, horizons and delays that leave the gate its room      *)
(* (FillsService.getUnprocessedFills, processFill).                        *)
THEOREM FillsEnrichedOnce == SummaryInit /\ [][SummaryNext]_summaryVars => []EnrichedOnceForAll
<1>1. SummaryInit => SummaryInv
  <2> SUFFICES ASSUME SummaryInit PROVE SummaryInv
    OBVIOUS
  <2>1. exFill = << >> /\ DOMAIN exFill = {}
    BY DEF SummaryInit
  <2>2. exFill \in [DOMAIN exFill -> Nat]
    BY <2>1
  <2>3. QED
    BY <2>2 DEF SummaryInit, SummaryInv
<1>2. SummaryInv => EnrichedOnceForAll
  BY DEF SummaryInv, EnrichedOnceForAll
<1>3. QED
  BY <1>1, <1>2, SummaryStep, PTL

-----------------------------------------------------------------------------
(* The reflector                                                           *)

ParamRows == [DOMAIN Defaults -> Int]

ProposalRows ==
  [window : Nat, base : ParamRows, file : Nat, changes : {answer.changes : answer \in Answers},
   rollback : {answer.rollback : answer \in Answers}, status : {"pending", "applied", "rejected"}]

ReflectorType ==
  /\ lastWindow \in Nat
  /\ lastProcessed \in 0 .. lastWindow
  /\ run \in [pc : {"idle", "fetch", "agent", "file", "save"}, window : Nat, base : ParamRows,
              proposal : SUBSET Answers, file : Nat]
  /\ files \in SUBSET Nat /\ IsFiniteSet(files)
  /\ proposals \in Seq(ProposalRows)
  /\ params \in ParamRows
  /\ disturbed \in SUBSET Nat

(* Files are numbered; a row has one of its own, and so will the next one.  *)
Traced ==
  /\ \A f \in files : f <= Cardinality(files)
  /\ \A i \in DOMAIN proposals :
       /\ proposals[i].file \in files
       /\ \A j \in DOMAIN proposals : proposals[j].file = proposals[i].file => j = i
       /\ At("save") => proposals[i].file # run.file
  /\ At("save") => run.file \in files

(* A window is not taken up again once it has a row, unless it is disturbed. *)
Undisturbed(i) == proposals[i].window \notin disturbed

OneRowPerWindow ==
  /\ \A i \in DOMAIN proposals :
       /\ proposals[i].window <= lastWindow
       /\ proposals[i].window = lastWindow /\ Undisturbed(i) => lastProcessed = lastWindow
       /\ ~At("idle") => proposals[i].window <= run.window
       /\ ~At("idle") /\ proposals[i].window = run.window => ~Undisturbed(i)
       /\ \A j \in DOMAIN proposals :
            proposals[j].window = proposals[i].window /\ Undisturbed(i) => j = i
  /\ ~At("idle") => isRunning = TRUE /\ run.window <= lastWindow
  /\ isRunning \in BOOLEAN

(* What is saved has passed the reflector's gate with the row's base.      *)
Gated ==
  /\ \A i \in DOMAIN proposals : Passes(ReflectorRules, proposals[i], proposals[i].base)
  /\ \A answer \in run.proposal : Passes(ReflectorRules, answer, run.base)
  /\ run.pc \in {"fetch", "agent"} => run.proposal = {}

(* Integer columns hold integers.                                          *)
IntegersWhole == \A p \in DOMAIN Defaults : p \in IntegerParams => params[p] % Tenth = 0

ReflectorInv == ReflectorType /\ Traced /\ OneRowPerWindow /\ Gated /\ IntegersWhole

LEMMA ReflectorStarts == ReflectorInit => ReflectorInv
<1> SUFFICES ASSUME ReflectorInit PROVE ReflectorInv
  OBVIOUS
<1>1. Defaults \in ParamRows
  BY ReflectorAssumption DEF ParamRows
<1>2. run = NoRun /\ NoRun \in [pc : {"idle", "fetch", "agent", "file", "save"}, window : Nat, base : ParamRows,
                                proposal : SUBSET Answers, file : Nat]
      /\ run.pc = "idle" /\ run.proposal = {}
  BY <1>1 DEF ReflectorInit, NoRun
<1>3. proposals = << >> /\ proposals \in Seq(ProposalRows) /\ DOMAIN proposals = {}
  BY DEF ReflectorInit
<1>4. files = {} /\ IsFiniteSet(files)
  BY FS_EmptySet DEF ReflectorInit
<1>5. ReflectorType
  BY <1>1, <1>2, <1>3, <1>4 DEF ReflectorInit, ReflectorType
<1>6. Traced /\ OneRowPerWindow /\ Gated
  BY <1>2, <1>3, <1>4 DEF ReflectorInit, Traced, OneRowPerWindow, Gated, At
<1>7. IntegersWhole
  BY ReflectorAssumption DEF ReflectorInit, IntegersWhole
<1>8. QED
  BY <1>5, <1>6, <1>7 DEF ReflectorInv

(* What an invariant of the run that has ended needs: none is under way.   *)
LEMMA NoRunType ==
  /\ NoRun \in [pc : {"idle", "fetch", "agent", "file", "save"}, window : Nat, base : ParamRows,
                proposal : SUBSET Answers, file : Nat]
  /\ NoRun.pc = "idle" /\ NoRun.proposal = {}
BY ReflectorAssumption DEF NoRun, ParamRows

(* A reflection that starts or goes on without writing anything.           *)
LEMMA GoesOn ==
  ASSUME ReflectorInv, UNCHANGED <<lastWindow, lastProcessed, files, proposals, params, disturbed>>,
         run' \in [pc : {"idle", "fetch", "agent", "file", "save"}, window : Nat, base : ParamRows,
                   proposal : SUBSET Answers, file : Nat],
         run'.pc \in {"fetch", "agent", "file"}, isRunning' = TRUE,
         \/ ~At("idle") /\ run'.window = run.window
         \/ run'.window = lastWindow /\ lastWindow # lastProcessed,
         \A answer \in run'.proposal : Passes(ReflectorRules, answer, run'.base),
         run'.pc \in {"fetch", "agent"} => run'.proposal = {}
  PROVE  ReflectorInv'
<1>1. ReflectorType'
  BY DEF ReflectorInv, ReflectorType
<1>2. Traced'
  BY DEF ReflectorInv, Traced, At
<1>3. OneRowPerWindow'
  <2>1. \A i \in DOMAIN proposals :
          /\ proposals[i].window <= run'.window
          /\ proposals[i].window = run'.window => ~Undisturbed(i)
    BY DEF ReflectorInv, OneRowPerWindow
  <2>2. run'.window <= lastWindow
    BY DEF ReflectorInv, ReflectorType, OneRowPerWindow
  <2>3. QED
    BY <2>1, <2>2 DEF ReflectorInv, OneRowPerWindow, Undisturbed, At
<1>4. Gated' /\ IntegersWhole'
  BY DEF ReflectorInv, Gated, IntegersWhole
<1>5. QED
  BY <1>1, <1>2, <1>3, <1>4 DEF ReflectorInv

(* A run that ends without a row: with an error, refused, or by a restart.  *)
LEMMA EndsWithoutRow ==
  ASSUME ReflectorInv, run' = NoRun, isRunning' = FALSE,
         UNCHANGED <<lastWindow, files, proposals, params>>,
         \/ lastProcessed' = lastProcessed /\ disturbed' \in {disturbed, disturbed \cup {run.window}}
         \/ ~At("idle") /\ lastProcessed' = run.window /\ disturbed' = disturbed
         \/ lastProcessed' = 0 /\ disturbed' = disturbed \cup {lastProcessed, run.window}
  PROVE  ReflectorInv'
<1>1. /\ lastWindow \in Nat /\ lastProcessed \in 0 .. lastWindow /\ run.window \in Nat
      /\ proposals \in Seq(ProposalRows) /\ disturbed \in SUBSET Nat
  BY DEF ReflectorInv, ReflectorType
<1>2. \A i \in DOMAIN proposals : proposals[i].window \in Nat
  <2>1. \A i \in DOMAIN proposals : proposals[i] \in ProposalRows
    BY <1>1
  <2>2. QED
    BY <2>1 DEF ProposalRows
<1>3. ReflectorType'
  <2>1. ~At("idle") => run.window \in 0 .. lastWindow
    BY <1>1 DEF ReflectorInv, OneRowPerWindow
  <2>2. lastProcessed' \in 0 .. lastWindow'
    BY <1>1, <2>1
  <2>3. disturbed' \in SUBSET Nat
    <3>1. lastProcessed \in Nat
      BY <1>1
    <3>2. disturbed' \subseteq disturbed \cup {lastProcessed, run.window}
      OBVIOUS
    <3>3. QED
      BY <1>1, <3>1, <3>2
  <2>4. QED
    BY <2>2, <2>3, NoRunType DEF ReflectorInv, ReflectorType
<1>4. Traced'
  BY NoRunType DEF ReflectorInv, Traced, At
<1>5. disturbed \subseteq disturbed'
  OBVIOUS
<1>6. ASSUME NEW i \in DOMAIN proposals, proposals[i].window = lastWindow, proposals[i].window \notin disturbed'
      PROVE  lastProcessed' = lastWindow
  <2>1. proposals[i].window \notin disturbed /\ lastProcessed = lastWindow
    BY <1>5, <1>6 DEF ReflectorInv, OneRowPerWindow, Undisturbed
  <2>2. ~At("idle") => lastWindow <= run.window /\ run.window <= lastWindow /\ run.window # lastWindow
    BY <1>6, <2>1 DEF ReflectorInv, OneRowPerWindow, Undisturbed
  <2>3. At("idle")
    BY <1>1, <2>2
  <2>4. lastWindow \notin disturbed'
    BY <1>6
  <2>5. QED
    BY <2>1, <2>3, <2>4
<1>7. OneRowPerWindow'
  <2>1. At("idle")' /\ isRunning' \in BOOLEAN
    BY NoRunType DEF At
  <2>2. \A i \in DOMAIN proposals :
          /\ proposals[i].window <= lastWindow
          /\ \A j \in DOMAIN proposals :
               proposals[j].window = proposals[i].window /\ proposals[i].window \notin disturbed' => j = i
    BY <1>5 DEF ReflectorInv, OneRowPerWindow, Undisturbed
  <2>3. QED
    BY <1>6, <2>1, <2>2 DEF OneRowPerWindow, Undisturbed
<1>8. Gated' /\ IntegersWhole'
  BY NoRunType DEF ReflectorInv, Gated, IntegersWhole
<1>9. QED
  BY <1>3, <1>4, <1>7, <1>8 DEF ReflectorInv

(* A row that is saved is traced to the file just written, is the first of  *)
(* its window that is undisturbed, and has passed the gate.                *)
LEMMA RowAdded ==
  ASSUME ReflectorInv, At("save"), NEW answer \in run.proposal,
         proposals' = Append(proposals, Row(answer)),
         run' = NoRun, isRunning' = FALSE, UNCHANGED <<lastWindow, files, params>>,
         \/ lastProcessed' = run.window /\ disturbed' = disturbed
         \/ lastProcessed' = lastProcessed /\ disturbed' = disturbed \cup {run.window}
  PROVE  ReflectorInv'
<1> DEFINE row == Row(answer)
           n == Len(proposals) + 1
<1>1. /\ lastWindow \in Nat /\ lastProcessed \in 0 .. lastWindow /\ run.window \in Nat
      /\ run.base \in ParamRows /\ run.file \in Nat /\ answer \in Answers
      /\ proposals \in Seq(ProposalRows) /\ disturbed \in SUBSET Nat
  BY DEF ReflectorInv, ReflectorType
<1>2. run.window \in 0 .. lastWindow
  BY <1>1 DEF ReflectorInv, OneRowPerWindow, At
<1>3. /\ row \in ProposalRows /\ row.window = run.window /\ row.base = run.base /\ row.file = run.file
      /\ row.changes = answer.changes /\ row.rollback = answer.rollback
  BY <1>1 DEF Row, ProposalRows
<1> HIDE DEF row
<1>4. /\ proposals' \in Seq(ProposalRows) /\ DOMAIN proposals' = DOMAIN proposals \cup {n}
      /\ n \notin DOMAIN proposals /\ proposals'[n] = row
      /\ \A i \in DOMAIN proposals : proposals'[i] = proposals[i]
  <2>1. proposals' = Append(proposals, row)
    BY DEF row
  <2>2. QED
    BY <1>1, <1>3, <2>1
<1> HIDE DEF n
<1>5. \A i \in DOMAIN proposals : proposals[i].window \in Nat
  <2>1. \A i \in DOMAIN proposals : proposals[i] \in ProposalRows
    BY <1>1
  <2>2. QED
    BY <2>1 DEF ProposalRows
<1>6. ReflectorType'
  <2>1. lastProcessed' \in 0 .. lastWindow'
    BY <1>1, <1>2
  <2>2. disturbed' \in SUBSET Nat
    BY <1>1
  <2>3. QED
    BY <1>4, <2>1, <2>2, NoRunType DEF ReflectorInv, ReflectorType
<1>7. Traced'
  <2>1. /\ run.file \in files
        /\ \A i \in DOMAIN proposals : proposals[i].file \in files /\ proposals[i].file # run.file
        /\ \A i, j \in DOMAIN proposals : proposals[j].file = proposals[i].file => j = i
        /\ \A f \in files : f <= Cardinality(files)
    BY DEF ReflectorInv, Traced
  <2>2. ~At("save")'
    BY NoRunType DEF At
  <2>3. QED
    BY <1>3, <1>4, <2>1, <2>2 DEF Traced
<1>8. OneRowPerWindow'
  <2>1. /\ disturbed \subseteq disturbed'
        /\ lastProcessed' = run.window \/ run.window \in disturbed'
    OBVIOUS
  <2>2. At("idle")' /\ isRunning' \in BOOLEAN
    BY NoRunType DEF At
  <2>3. \A i \in DOMAIN proposals :
          /\ proposals[i].window <= lastWindow /\ proposals[i].window <= run.window
          /\ proposals[i].window = run.window => proposals[i].window \in disturbed
          /\ \A j \in DOMAIN proposals :
               proposals[j].window = proposals[i].window /\ proposals[i].window \notin disturbed => j = i
    BY DEF ReflectorInv, OneRowPerWindow, Undisturbed, At
  <2>4. ASSUME NEW i \in DOMAIN proposals', proposals'[i].window = lastWindow,
               proposals'[i].window \notin disturbed'
        PROVE  lastProcessed' = lastWindow
    <3>1. CASE i = n
      BY <1>3, <1>4, <2>1, <2>4, <3>1
    <3>2. CASE i \in DOMAIN proposals
      <4>1. proposals[i].window <= run.window /\ proposals[i].window = lastWindow
        BY <1>4, <2>3, <2>4, <3>2
      <4>2. proposals[i].window = run.window
        BY <1>1, <1>2, <4>1
      <4>3. QED
        BY <1>4, <2>1, <2>3, <2>4, <3>2, <4>2
    <3>3. QED
      BY <1>4, <2>4, <3>1, <3>2
  <2>5. ASSUME NEW i \in DOMAIN proposals', NEW j \in DOMAIN proposals',
               proposals'[j].window = proposals'[i].window, proposals'[i].window \notin disturbed'
        PROVE  j = i
    <3>1. CASE i = n /\ j \in DOMAIN proposals
      BY <1>3, <1>4, <2>1, <2>3, <2>5, <3>1
    <3>2. CASE j = n /\ i \in DOMAIN proposals
      BY <1>3, <1>4, <2>1, <2>3, <2>5, <3>2
    <3>3. CASE i \in DOMAIN proposals /\ j \in DOMAIN proposals
      BY <1>4, <2>1, <2>3, <2>5, <3>3
    <3>4. QED
      BY <1>4, <2>5, <3>1, <3>2, <3>3
  <2>6. \A i \in DOMAIN proposals' : proposals'[i].window <= lastWindow'
    BY <1>1, <1>2, <1>3, <1>4, <2>3
  <2>7. QED
    BY <2>2, <2>4, <2>5, <2>6 DEF OneRowPerWindow, Undisturbed
<1>9. Gated' /\ IntegersWhole'
  <2>1. Passes(ReflectorRules, answer, run.base)
    BY DEF ReflectorInv, Gated
  <2>2. Passes(ReflectorRules, row, row.base)
    BY <1>3, <2>1 DEF Passes
  <2>3. \A i \in DOMAIN proposals' : Passes(ReflectorRules, proposals'[i], proposals'[i].base)
    BY <1>4, <2>2 DEF ReflectorInv, Gated
  <2>4. run'.proposal = {} /\ run'.pc = "idle"
    BY NoRunType
  <2>5. QED
    BY <2>3, <2>4 DEF ReflectorInv, Gated, IntegersWhole
<1>10. QED
  BY <1>6, <1>7, <1>8, <1>9 DEF ReflectorInv

(* A new file has a number that no other file has. *)
LEMMA NewFileIsNew ==
  ASSUME ReflectorInv
  PROVE  /\ NewFile \in Nat /\ NewFile \notin files /\ IsFiniteSet(files \cup {NewFile})
         /\ Cardinality(files \cup {NewFile}) = NewFile
<1>1. files \in SUBSET Nat /\ IsFiniteSet(files) /\ \A f \in files : f <= Cardinality(files)
  BY DEF ReflectorInv, ReflectorType, Traced
<1>2. Cardinality(files) \in Nat
  BY <1>1, FS_CardinalityType
<1>3. NewFile = Cardinality(files) + 1 /\ NewFile \in Nat /\ NewFile \notin files
  BY <1>1, <1>2 DEF NewFile
<1>4. QED
  BY <1>1, <1>3, FS_AddElement

LEMMA FileStep ==
  ASSUME ReflectorInv, WriteFile
  PROVE  ReflectorInv'
<1> DEFINE file == NewFile
<1>1. /\ At("file") /\ files' = files \cup {file} /\ run' = [run EXCEPT !.pc = "save", !.file = file]
      /\ UNCHANGED <<lastWindow, lastProcessed, isRunning, proposals, params, disturbed>>
  BY DEF WriteFile, guards
<1>2. /\ file \in Nat /\ file \notin files /\ IsFiniteSet(files \cup {file})
      /\ Cardinality(files \cup {file}) = file /\ file = Cardinality(files) + 1
  BY NewFileIsNew DEF NewFile
<1> HIDE DEF file
<1>3. run \in [pc : {"idle", "fetch", "agent", "file", "save"}, window : Nat, base : ParamRows,
               proposal : SUBSET Answers, file : Nat]
      /\ files \in SUBSET Nat /\ IsFiniteSet(files)
  BY DEF ReflectorInv, ReflectorType
<1>4. /\ run'.pc = "save" /\ run'.file = file /\ run'.window = run.window /\ run'.base = run.base
      /\ run'.proposal = run.proposal
      /\ run' \in [pc : {"idle", "fetch", "agent", "file", "save"}, window : Nat, base : ParamRows,
                   proposal : SUBSET Answers, file : Nat]
  BY <1>1, <1>2, <1>3
<1>5. ReflectorType'
  BY <1>1, <1>2, <1>4 DEF ReflectorInv, ReflectorType
<1>6. Traced'
  <2>1. \A f \in files' : f <= Cardinality(files')
    <3>1. Cardinality(files) \in Nat
      BY <1>3, FS_CardinalityType
    <3>2. \A f \in files : f \in Nat /\ f <= Cardinality(files)
      BY <1>3 DEF ReflectorInv, Traced
    <3>3. QED
      BY <1>1, <1>2, <3>1, <3>2
  <2>2. \A i \in DOMAIN proposals :
          /\ proposals[i].file \in files
          /\ \A j \in DOMAIN proposals : proposals[j].file = proposals[i].file => j = i
    BY DEF ReflectorInv, Traced
  <2>3. QED
    BY <1>1, <1>2, <1>4, <2>1, <2>2 DEF Traced
<1>7. OneRowPerWindow'
  BY <1>1, <1>4 DEF ReflectorInv, OneRowPerWindow, Undisturbed, At
<1>8. Gated' /\ IntegersWhole'
  BY <1>1, <1>4 DEF ReflectorInv, Gated, IntegersWhole
<1>9. QED
  BY <1>5, <1>6, <1>7, <1>8 DEF ReflectorInv

-----------------------------------------------------------------------------
(* The gates                                                               *)

(* Math.round moves a value by half a unit at most, and a whole one not at  *)
(* all.                                                                    *)
LEMMA RoundIsNear ==
  ASSUME NEW v \in Int
  PROVE  /\ Round(v) \in Int /\ Round(v) % Tenth = 0
         /\ Round(v) <= v + 5 /\ v <= Round(v) + 5
         /\ v >= 0 => Round(v) >= 0
         /\ v % Tenth = 0 => Round(v) = v
BY DEF Round, Tenth

(* Both tables have the same rules. *)
LEMMA TablesAgree == ReflectorRules = CHANGE_RULES
BY DEF ReflectorRules, CHANGE_RULES, Rule

LEMMA KeysAreFinite == IsFiniteSet(ALLOWED_PARAM_KEYS)
<1>1. ASSUME NEW x, NEW y PROVE IsFiniteSet({x, y})
  <2>1. {x, y} = {x} \cup {y} /\ IsFiniteSet({x}) /\ IsFiniteSet({y})
    BY FS_Singleton
  <2>2. QED
    BY <2>1, FS_Union
<1>2. ASSUME NEW x, NEW y, NEW z PROVE IsFiniteSet({x, y, z})
  <2>1. {x, y, z} = {x, y} \cup {z} /\ IsFiniteSet({z})
    BY FS_Singleton
  <2>2. IsFiniteSet({x, y})
    BY <1>1
  <2>3. QED
    BY <2>1, <2>2, FS_Union
<1>3. IsFiniteSet(Gains)
  <2>1. Gains = {"baseHalfSpreadBps", "volSpreadGain"} \cup {"toxSpreadGain", "inventorySkewGain"}
    BY DEF Gains
  <2>2. QED
    <3>1. /\ IsFiniteSet({"baseHalfSpreadBps", "volSpreadGain"})
          /\ IsFiniteSet({"toxSpreadGain", "inventorySkewGain"})
      BY <1>1
    <3>2. QED
      BY <2>1, <3>1, FS_Union
<1>4. IsFiniteSet(Sizes) /\ IsFiniteSet(IntegerParams)
  BY <1>2 DEF Sizes, IntegerParams
<1>5. IsFiniteSet(Gains \cup Sizes)
  BY <1>3, <1>4, FS_Union
<1>6. QED
  BY <1>4, <1>5, FS_Union DEF ALLOWED_PARAM_KEYS

(* A value that the rules allow in place of old, as its column stores it.   *)
Ruled(p, old, new) ==
  \E value \in Int :
    /\ WithinRule(CHANGE_RULES[p], old, value)
    /\ new = IF p \in IntegerParams THEN Round(value) ELSE value

(* What the executor makes of changes that pass its gate: at most as many   *)
(* parameters change as the gate allows, each to a value the rules allow in *)
(* place of the one it replaces, and integer columns hold integers again.   *)
LEMMA AcceptedChange ==
  ASSUME NEW old \in ParamRows, NEW proposal,
         \A p \in DOMAIN old : p \in IntegerParams => old[p] % Tenth = 0,
         \A p \in DOMAIN proposal.changes : proposal.changes[p] \subseteq Int,
         ExecutorAccepts(proposal, old)
  PROVE  LET new == ApplyChanges(old, proposal.changes)
             changed == {p \in DOMAIN old : new[p] # old[p]}
         IN  /\ new \in ParamRows
             /\ \A p \in DOMAIN old : p \in IntegerParams => new[p] % Tenth = 0
             /\ Cardinality(changed) <= MaxChanges
             /\ \A p \in changed : Ruled(p, old[p], new[p])
<1> DEFINE changes == proposal.changes
           new == ApplyChanges(old, changes)
           changed == {p \in DOMAIN old : new[p] # old[p]}
           value(p) == IF p \in DOMAIN changes THEN CHOOSE v \in changes[p] : TRUE ELSE old[p]
<1>1. /\ Cardinality(DOMAIN changes) <= MaxChanges /\ DOMAIN changes \subseteq ALLOWED_PARAM_KEYS
      /\ \A p \in DOMAIN changes : changes[p] # {} /\ \A v \in changes[p] : WithinRule(CHANGE_RULES[p], old[p], v)
  BY DEF ExecutorAccepts, Passes
<1>2. DOMAIN old = DOMAIN Defaults /\ \A p \in DOMAIN old : old[p] \in Int
  BY DEF ParamRows
<1>3. \A p \in DOMAIN changes : value(p) \in changes[p]
  BY <1>1
<1>4. \A p \in DOMAIN old : value(p) \in Int
  BY <1>2, <1>3
<1>5. DOMAIN new = DOMAIN old
      /\ \A p \in DOMAIN old : new[p] = IF p \in IntegerParams THEN Round(value(p)) ELSE value(p)
  BY DEF ApplyChanges
<1>6. new \in ParamRows
  <2>1. new = [p \in DOMAIN old |-> IF p \in IntegerParams THEN Round(value(p)) ELSE value(p)]
    BY DEF ApplyChanges
  <2>2. \A p \in DOMAIN old : (IF p \in IntegerParams THEN Round(value(p)) ELSE value(p)) \in Int
    BY <1>4, RoundIsNear
  <2>3. QED
    BY <1>2, <2>1, <2>2 DEF ParamRows
<1> HIDE DEF new, value
<1>7. \A p \in DOMAIN old : p \in IntegerParams => new[p] % Tenth = 0
  BY <1>4, <1>5, RoundIsNear
<1>8. ASSUME NEW p \in changed PROVE p \in DOMAIN changes
  <2>1. p \in DOMAIN old /\ new[p] # old[p] /\ old[p] \in Int
    BY <1>2, <1>8
  <2>2. p \notin DOMAIN changes => value(p) = old[p]
    BY DEF value
  <2>3. p \in IntegerParams => Round(old[p]) = old[p]
    BY <2>1, RoundIsNear
  <2>4. QED
    BY <1>5, <2>1, <2>2, <2>3
<1>9. Cardinality(changed) <= MaxChanges
  <2>1. IsFiniteSet(DOMAIN changes)
    BY <1>1, KeysAreFinite, FS_Subset
  <2>2. changed \in SUBSET DOMAIN changes
    BY <1>8
  <2>3. /\ Cardinality(changed) <= Cardinality(DOMAIN changes)
        /\ Cardinality(changed) \in Nat /\ Cardinality(DOMAIN changes) \in Nat
    BY <2>1, <2>2, FS_Subset, FS_CardinalityType
  <2>4. QED
    BY <1>1, <2>3 DEF MaxChanges
<1>10. ASSUME NEW p \in changed PROVE Ruled(p, old[p], new[p])
  <2>1. p \in DOMAIN old /\ p \in DOMAIN changes /\ value(p) \in Int
        /\ WithinRule(CHANGE_RULES[p], old[p], value(p))
    BY <1>1, <1>3, <1>4, <1>8, <1>10
  <2>2. QED
    BY <1>5, <2>1 DEF Ruled
<1>11. QED
  BY <1>6, <1>7, <1>9, <1>10 DEF new

(* The executor decides: a row changes its status only. *)
LEMMA DecisionStep ==
  ASSUME ReflectorInv, NEW i \in DOMAIN proposals, NEW context, ExecutorDecides(i, context)
  PROVE  /\ ReflectorInv'
         /\ params' = params \/ (ExecutorAccepts(proposals[i], params)
                                  /\ params' = ApplyChanges(params, proposals[i].changes))
<1> DEFINE status == IF ExecutorAccepts(proposals[i], params) /\ OperationalGates(context, MaxPauses, MinMarkout)
                     THEN "applied" ELSE "rejected"
<1>1. /\ proposals' = [proposals EXCEPT ![i].status = status]
      /\ params' = params \/ (ExecutorAccepts(proposals[i], params)
                               /\ params' = ApplyChanges(params, proposals[i].changes))
      /\ UNCHANGED <<lastWindow, lastProcessed, isRunning, run, files, disturbed>>
  BY DEF ExecutorDecides, guards
<1>2. status \in {"applied", "rejected"}
  OBVIOUS
<1> HIDE DEF status
<1>3. proposals \in Seq(ProposalRows) /\ params \in ParamRows
  BY DEF ReflectorInv, ReflectorType
<1>4. /\ proposals' \in Seq(ProposalRows) /\ DOMAIN proposals' = DOMAIN proposals
      /\ \A j \in DOMAIN proposals :
           /\ proposals'[j].window = proposals[j].window /\ proposals'[j].base = proposals[j].base
           /\ proposals'[j].file = proposals[j].file
           /\ proposals'[j].changes = proposals[j].changes /\ proposals'[j].rollback = proposals[j].rollback
  <2>1. proposals[i] \in ProposalRows
    BY <1>3
  <2>2. [proposals[i] EXCEPT !.status = status] \in ProposalRows
    BY <1>2, <2>1 DEF ProposalRows
  <2>3. proposals' = [proposals EXCEPT ![i] = [proposals[i] EXCEPT !.status = status]]
    BY <1>1
  <2>4. proposals' \in Seq(ProposalRows) /\ DOMAIN proposals' = DOMAIN proposals
    BY <1>3, <2>2, <2>3
  <2>5. \A j \in DOMAIN proposals :
           proposals'[j] = IF j = i THEN [proposals[i] EXCEPT !.status = status] ELSE proposals[j]
    BY <1>3, <2>3
  <2>6. QED
    BY <2>1, <2>4, <2>5 DEF ProposalRows
<1>5. params' \in ParamRows /\ IntegersWhole'
  <2>1. CASE params' = params
    BY <1>3, <2>1 DEF ReflectorInv, IntegersWhole
  <2>2. CASE ExecutorAccepts(proposals[i], params) /\ params' = ApplyChanges(params, proposals[i].changes)
    <3>1. DOMAIN params = DOMAIN Defaults
      BY <1>3 DEF ParamRows
    <3>2. \A p \in DOMAIN params : p \in IntegerParams => params[p] % Tenth = 0
      BY <3>1 DEF ReflectorInv, IntegersWhole
    <3>3. \A p \in DOMAIN proposals[i].changes : proposals[i].changes[p] \subseteq Int
      <4>1. proposals[i] \in ProposalRows
        BY <1>3
      <4>2. PICK answer \in Answers : proposals[i].changes = answer.changes
        BY <4>1 DEF ProposalRows
      <4>3. QED
        BY <4>2, ReflectorAssumption
    <3>4. /\ ApplyChanges(params, proposals[i].changes) \in ParamRows
          /\ \A p \in DOMAIN params :
               p \in IntegerParams => ApplyChanges(params, proposals[i].changes)[p] % Tenth = 0
      BY <1>3, <2>2, <3>2, <3>3, AcceptedChange
    <3>5. QED
      BY <2>2, <3>1, <3>4 DEF IntegersWhole
  <2>3. QED
    BY <1>1, <2>1, <2>2
<1>6. ReflectorType'
  BY <1>1, <1>4, <1>5 DEF ReflectorInv, ReflectorType
<1>7. Traced'
  BY <1>1, <1>4 DEF ReflectorInv, Traced, At
<1>8. OneRowPerWindow'
  BY <1>1, <1>4 DEF ReflectorInv, OneRowPerWindow, Undisturbed, At
<1>9. Gated'
  <2>1. ASSUME NEW j \in DOMAIN proposals PROVE Passes(ReflectorRules, proposals'[j], proposals'[j].base)
    <3>1. Passes(ReflectorRules, proposals[j], proposals[j].base)
      BY DEF ReflectorInv, Gated
    <3>2. QED
      BY <1>4, <3>1 DEF Passes
  <2>2. QED
    BY <1>1, <1>4, <2>1 DEF ReflectorInv, Gated
<1>10. QED
  BY <1>1, <1>5, <1>6, <1>7, <1>8, <1>9 DEF ReflectorInv

-----------------------------------------------------------------------------
(* The reflector: the theorems                                             *)

LEMMA ReflectorStep == ReflectorInv /\ [ReflectorNext]_reflectorVars => ReflectorInv'
<1> SUFFICES ASSUME ReflectorInv, [ReflectorNext]_reflectorVars PROVE ReflectorInv'
  OBVIOUS
<1>1. /\ run \in [pc : {"idle", "fetch", "agent", "file", "save"}, window : Nat, base : ParamRows,
                  proposal : SUBSET Answers, file : Nat]
      /\ params \in ParamRows /\ lastWindow \in Nat /\ lastProcessed \in 0 .. lastWindow
      /\ \A answer \in run.proposal : Passes(ReflectorRules, answer, run.base)
  BY DEF ReflectorInv, ReflectorType, Gated
<1>2. CASE WindowEnds
  <2>1. /\ lastWindow' = lastWindow + 1
        /\ UNCHANGED <<lastProcessed, isRunning, run, files, proposals, params, disturbed>>
    BY <1>2 DEF WindowEnds, guards
  <2>2. ReflectorType'
    BY <1>1, <2>1 DEF ReflectorInv, ReflectorType
  <2>3. Traced' /\ Gated' /\ IntegersWhole'
    BY <2>1 DEF ReflectorInv, Traced, Gated, IntegersWhole, At
  <2>4. \A i \in DOMAIN proposals : proposals[i].window \in Nat /\ proposals[i].window < lastWindow'
    <3>1. \A i \in DOMAIN proposals : proposals[i] \in ProposalRows
      BY DEF ReflectorInv, ReflectorType
    <3>2. \A i \in DOMAIN proposals : proposals[i].window \in Nat /\ proposals[i].window <= lastWindow
      BY <3>1 DEF ProposalRows, ReflectorInv, OneRowPerWindow
    <3>3. QED
      BY <1>1, <2>1, <3>2
  <2>5. ~At("idle") => run.window <= lastWindow'
    BY <1>1, <2>1 DEF ReflectorInv, OneRowPerWindow
  <2>6. \A i \in DOMAIN proposals : proposals[i].window <= lastWindow' /\ proposals[i].window # lastWindow'
    BY <1>1, <2>1, <2>4
  <2>7. OneRowPerWindow'
    BY <2>1, <2>5, <2>6 DEF ReflectorInv, OneRowPerWindow, Undisturbed, At
  <2>8. QED
    BY <2>2, <2>3, <2>7 DEF ReflectorInv
<1>3. CASE StartReflection
  <2>1. /\ isRunning' = TRUE /\ run' = [NoRun EXCEPT !.pc = "fetch", !.window = lastWindow]
        /\ lastWindow # lastProcessed
        /\ UNCHANGED <<lastWindow, lastProcessed, files, proposals, params, disturbed>>
    BY <1>3 DEF StartReflection
  <2>2. /\ run' \in [pc : {"idle", "fetch", "agent", "file", "save"}, window : Nat, base : ParamRows,
                     proposal : SUBSET Answers, file : Nat]
        /\ run'.pc = "fetch" /\ run'.window = lastWindow /\ run'.proposal = {}
    BY <1>1, <2>1, NoRunType
  <2>3. QED
    BY <2>1, <2>2, GoesOn
<1>4. CASE FetchInput
  <2>1. /\ At("fetch") /\ run' = [run EXCEPT !.pc = "agent", !.base = params]
        /\ UNCHANGED <<lastWindow, lastProcessed, isRunning, files, proposals, params, disturbed>>
    BY <1>4 DEF FetchInput, guards
  <2>2. isRunning' = TRUE /\ ~At("idle")
    BY <2>1 DEF ReflectorInv, OneRowPerWindow, At
  <2>3. run.proposal = {}
    BY <2>1 DEF ReflectorInv, Gated, At
  <2>4. /\ run' \in [pc : {"idle", "fetch", "agent", "file", "save"}, window : Nat, base : ParamRows,
                     proposal : SUBSET Answers, file : Nat]
        /\ run'.pc = "agent" /\ run'.window = run.window /\ run'.proposal = {}
    BY <1>1, <2>1, <2>3
  <2>5. QED
    BY <2>1, <2>2, <2>4, GoesOn
<1>5. CASE RunFails
  <2>1. /\ run' = NoRun /\ isRunning' = FALSE
        /\ UNCHANGED <<lastWindow, lastProcessed, files, proposals, params, disturbed>>
    BY <1>5 DEF RunFails, EndWithError, EndRun
  <2>2. QED
    BY <2>1, EndsWithoutRow
<1>6. ASSUME NEW answer \in Answers, Propose(answer) PROVE ReflectorInv'
  <2>1. At("agent") /\ UNCHANGED <<lastWindow, files, proposals, params, disturbed>>
    BY <1>6 DEF Propose
  <2>2. CASE ReflectorAccepts(answer, run.base)
    <3>1. run' = [run EXCEPT !.pc = "file", !.proposal = {answer}] /\ UNCHANGED <<lastProcessed, isRunning>>
      BY <1>6, <2>2 DEF Propose, guards
    <3>2. /\ run' \in [pc : {"idle", "fetch", "agent", "file", "save"}, window : Nat, base : ParamRows,
                       proposal : SUBSET Answers, file : Nat]
          /\ run'.pc = "file" /\ run'.window = run.window /\ run'.base = run.base /\ run'.proposal = {answer}
      BY <1>1, <1>6, <3>1
    <3>3. isRunning' = TRUE /\ ~At("idle")
      BY <2>1, <3>1 DEF ReflectorInv, OneRowPerWindow, At
    <3>4. Passes(ReflectorRules, answer, run.base)
      BY <2>2 DEF ReflectorAccepts
    <3>5. \A a \in run'.proposal : Passes(ReflectorRules, a, run'.base)
      BY <3>2, <3>4
    <3>6. QED
      BY <2>1, <3>1, <3>2, <3>3, <3>5, GoesOn
  <2>3. CASE ~ReflectorAccepts(answer, run.base)
    <3>1. run' = NoRun /\ isRunning' = FALSE /\ lastProcessed' = run.window
      BY <1>6, <2>3 DEF Propose, EndProcessed, EndRun
    <3>2. ~At("idle")
      BY <2>1 DEF At
    <3>3. QED
      BY <2>1, <3>1, <3>2, EndsWithoutRow
  <2>4. QED
    BY <2>2, <2>3
<1>7. CASE WriteFile
  BY <1>7, FileStep
<1>8. CASE Save
  <2>1. /\ At("save") /\ run' = NoRun /\ isRunning' = FALSE /\ lastProcessed' = run.window
        /\ UNCHANGED <<lastWindow, files, params, disturbed>>
    BY <1>8 DEF Save, EndProcessed, EndRun
  <2>2. PICK answer \in run.proposal : proposals' = Append(proposals, Row(answer))
    BY <1>8 DEF Save
  <2>3. QED
    BY <2>1, <2>2, RowAdded
<1>9. CASE SaveFails
  <2>1. /\ At("save") /\ run' = NoRun /\ isRunning' = FALSE
        /\ UNCHANGED <<lastWindow, lastProcessed, files, params>>
        /\ disturbed' = disturbed \cup {run.window}
    BY <1>9 DEF SaveFails, EndWithError, EndRun
  <2>2. PICK answer \in run.proposal : proposals' \in {proposals, Append(proposals, Row(answer))}
    BY <1>9 DEF SaveFails
  <2>3. CASE proposals' = Append(proposals, Row(answer))
    BY <2>1, <2>3, RowAdded
  <2>4. CASE proposals' = proposals
    BY <2>1, <2>4, EndsWithoutRow
  <2>5. QED
    BY <2>2, <2>3, <2>4
<1>10. CASE Restart
  BY <1>10, EndsWithoutRow DEF Restart, EndRun
<1>11. ASSUME NEW i \in DOMAIN proposals, NEW context \in Contexts, ExecutorDecides(i, context)
       PROVE  ReflectorInv'
  BY <1>11, DecisionStep
<1>12. CASE UNCHANGED reflectorVars
  BY <1>12 DEF reflectorVars, guards, ReflectorInv, ReflectorType, Traced, OneRowPerWindow, Gated,
               IntegersWhole, Undisturbed, At
<1>13. QED
  BY <1>2, <1>3, <1>4, <1>5, <1>6, <1>7, <1>8, <1>9, <1>10, <1>11, <1>12 DEF ReflectorNext, ProposeAny

(* A proposal can be traced to a reasoning log of its own, and a window has *)
(* one proposal at most unless it is disturbed: for any number of windows,  *)
(* failures and restarts (runHourlyReflection, validateAndPersist).        *)
THEOREM ProposalsAreAccounted ==
  ReflectorInit /\ [][ReflectorNext]_reflectorVars => []ProposalsAccounted
<1>1. ReflectorInv => ProposalsAccounted
  <2> SUFFICES ASSUME ReflectorInv PROVE ProposalsAccounted
    OBVIOUS
  <2>1. ASSUME NEW window \in 1 .. MaxWindows, window \notin disturbed
        PROVE  Cardinality(RowsOf(window)) <= 1
    <3>1. CASE RowsOf(window) = {}
      BY <3>1, FS_EmptySet
    <3>2. CASE RowsOf(window) # {}
      <4>1. PICK i \in DOMAIN proposals : proposals[i].window = window
        BY <3>2 DEF RowsOf
      <4>2. \A j \in RowsOf(window) : j = i
        BY <2>1, <4>1 DEF RowsOf, ReflectorInv, OneRowPerWindow, Undisturbed
      <4>3. RowsOf(window) = {i}
        BY <3>2, <4>2
      <4>4. Cardinality(RowsOf(window)) = 1
        BY <4>3, FS_Singleton
      <4>5. QED
        BY <4>4
    <3>3. QED
      BY <3>1, <3>2
  <2>2. QED
    BY <2>1 DEF ReflectorInv, Traced, ProposalsAccounted
<1>2. QED
  BY <1>1, ReflectorStarts, ReflectorStep, PTL

(* What the reflector let through is not refused by the executor's gate as  *)
(* long as the parameters are the same: for any answers and any caps (the   *)
(* two copies of the parameter gate).                                      *)
THEOREM TheGatesAgree == ReflectorInit /\ [][ReflectorNext]_reflectorVars => []GatesAgree
<1>1. ReflectorInv => GatesAgree
  BY TablesAgree DEF ReflectorInv, Gated, GatesAgree, ExecutorAccepts
<1>2. QED
  BY <1>1, ReflectorStarts, ReflectorStep, PTL

(* Changes as the gates let them through.                                  *)
EachChangeRuled ==
  [][/\ Cardinality(Changed) <= MaxChanges
     /\ \A p \in Changed : Ruled(p, params[p], params'[p])]_reflectorVars

(* What the gates guarantee in place of 10 %: a step changes two parameters *)
(* at most, each to a value that the rules allow in place of the one it     *)
(* replaces, rounded after the check in an integer column.  So the rounding *)
(* is the only way past the ratios, for any answers, and for proposals that *)
(* are decided after others (tryApplyProposal, applyChanges).              *)
THEOREM ChangesAreRuled == ReflectorInit /\ [][ReflectorNext]_reflectorVars => EachChangeRuled
<1>1. ReflectorInv /\ [ReflectorNext]_reflectorVars
        => [/\ Cardinality(Changed) <= MaxChanges
            /\ \A p \in Changed : Ruled(p, params[p], params'[p])]_reflectorVars
  <2> SUFFICES ASSUME ReflectorInv, ReflectorNext
               PROVE  /\ Cardinality(Changed) <= MaxChanges
                      /\ \A p \in Changed : Ruled(p, params[p], params'[p])
    OBVIOUS
  <2>1. CASE params' = params
    <3>1. Changed = {}
      BY <2>1 DEF Changed
    <3>2. Cardinality(Changed) = 0
      BY <3>1, FS_EmptySet
    <3>3. QED
      BY <3>1, <3>2 DEF MaxChanges
  <2>2. CASE params' # params
    <3>1. PICK i \in DOMAIN proposals, context \in Contexts : ExecutorDecides(i, context)
      BY <2>2 DEF ReflectorNext, WindowEnds, StartReflection, FetchInput, RunFails, ProposeAny, Propose,
                  WriteFile, Save, SaveFails, Restart
    <3>2. ExecutorAccepts(proposals[i], params) /\ params' = ApplyChanges(params, proposals[i].changes)
      BY <2>2, <3>1, DecisionStep
    <3>3. params \in ParamRows /\ DOMAIN params = DOMAIN Defaults /\ proposals[i] \in ProposalRows
      BY DEF ReflectorInv, ReflectorType, ParamRows
    <3>4. \A p \in DOMAIN params : p \in IntegerParams => params[p] % Tenth = 0
      BY <3>3 DEF ReflectorInv, IntegersWhole
    <3>5. PICK answer \in Answers : proposals[i].changes = answer.changes
      BY <3>3 DEF ProposalRows
    <3>6. \A p \in DOMAIN proposals[i].changes : proposals[i].changes[p] \subseteq Int
      BY <3>5, ReflectorAssumption
    <3>7. QED
      BY <3>2, <3>3, <3>4, <3>6, AcceptedChange DEF Changed
  <2>3. QED
    BY <2>1, <2>2
<1>2. QED
  BY <1>1, ReflectorStarts, ReflectorStep, PTL DEF EachChangeRuled
=============================================================================
