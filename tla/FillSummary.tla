---------------------------- MODULE FillSummary -----------------------------
(***************************************************************************)
(* The summarizer: an interval worker that enriches every fill with the    *)
(* mids around it and the market data before it, once the longest horizon  *)
(* has passed.  The ingestor stores market data with a delay, so a row may  *)
(* appear in md_bbo, md_trade or md_price long after its time.             *)
(*                                                                         *)
(* Market data are the rows of md_bbo; those of md_trade and md_price are   *)
(* stored and looked up in the same way.  A feature is a function of the    *)
(* rows in its window, and is modelled by those rows; so is a markout, by   *)
(* its mids.  An action is the code from one await to the next, except that *)
(* the lookups for a fill are one.                                         *)
(***************************************************************************)
EXTENDS Integers, FiniteSets

CONSTANTS
  FillIds,
  Prices,
  Horizon1s, Horizon10s, MaxHorizonMs,     \* 1 s, 10 s and 60 s
  ToleranceT0, Tolerance1s, Tolerance10s, Tolerance60s,
  FeatureWindowMs,   \* the 10 s before a fill
  MaxDelayMs,        \* how late a row of market data is stored
  BatchLimit,        \* LIMIT of the query for unprocessed fills
  MaxMarketRows,     \* bound: rows of market data
  MaxMishaps,        \* bound: crashes of the summarizer and failed fills
  LastMs             \* bound: the time explored

(* The gate leaves room for the widest short lookup and the delay.          *)
ASSUME HorizonAssumption ==
  /\ {Horizon1s, Horizon10s, MaxHorizonMs, ToleranceT0, Tolerance1s, Tolerance10s,
      Tolerance60s, FeatureWindowMs, MaxDelayMs, BatchLimit, LastMs} \subseteq Nat
  /\ Horizon1s + Tolerance1s <= Horizon10s + Tolerance10s
  /\ ToleranceT0 <= Horizon10s + Tolerance10s
  /\ Horizon10s + Tolerance10s + MaxDelayMs < MaxHorizonMs

VARIABLES
  clock,
  exFill,        \* ex_fill: the time of each recorded fill
  stored,        \* md_bbo
  buffered,      \* rows of market data the ingestor has not stored yet
  enriched,      \* fills_enriched, with a number of its own per row
  busy,          \* the worker's in-flight guard
  batch,         \* fills the current run still has to process
  current,       \* what was looked up for the fill to be inserted
  mishaps

workerVars == <<busy, batch, current>>
summaryVars == <<clock, exFill, stored, buffered, enriched, workerVars, mishaps>>

SummaryInit ==
  /\ clock = 0
  /\ exFill = << >>
  /\ stored = {}
  /\ buffered = {}
  /\ enriched = {}
  /\ busy = FALSE
  /\ batch = {}
  /\ current = {}
  /\ mishaps = 0

-----------------------------------------------------------------------------
(* The executor, the market and the ingestor                                *)

TimePasses ==
  /\ clock < LastMs
  /\ \A row \in buffered : clock - row.ts < MaxDelayMs
  /\ clock' = clock + 1
  /\ UNCHANGED <<exFill, stored, buffered, enriched, workerVars, mishaps>>

RecordFill(fill) ==
  /\ fill \notin DOMAIN exFill
  /\ clock + MaxHorizonMs < LastMs
  /\ exFill' = [f \in DOMAIN exFill \cup {fill} |-> IF f = fill THEN clock ELSE exFill[f]]
  /\ UNCHANGED <<clock, stored, buffered, enriched, workerVars, mishaps>>

MarketRow(midPx) ==
  LET row == [ts |-> clock, midPx |-> midPx]
  IN  /\ Cardinality(stored \cup buffered) < MaxMarketRows
      /\ row \notin stored \cup buffered
      /\ buffered' = buffered \cup {row}
      /\ UNCHANGED <<clock, exFill, stored, enriched, workerVars, mishaps>>

StoreRow(row) ==
  /\ row \in buffered
  /\ buffered' = buffered \ {row}
  /\ stored' = stored \cup {row}
  /\ UNCHANGED <<clock, exFill, enriched, workerVars, mishaps>>

-----------------------------------------------------------------------------
(* Lookups                                                                 *)

Distance(a, b) == IF a < b THEN b - a ELSE a - b

(* findClosestBbo: ORDER BY distance LIMIT 1, where a tie may fall either   *)
(* way.  The rows that may be found.                                       *)
findClosestBbo(rows, targetTs, toleranceMs) ==
  LET near == {r \in rows : Distance(r.ts, targetTs) <= toleranceMs}
  IN  {r \in near : \A other \in near : Distance(r.ts, targetTs) <= Distance(other.ts, targetTs)}

(* The mids that may result: a set of one, or {} for null.                 *)
MidsAt(rows, targetTs, toleranceMs) ==
  LET closest == findClosestBbo(rows, targetTs, toleranceMs)
  IN  IF closest = {} THEN {{}} ELSE {{r.midPx} : r \in closest}

InFeatureWindow(rows, ts) == {r \in rows : r.ts \in ts - FeatureWindowMs .. ts}

(* What processFill may compute for a fill.  The 60 s mid is apart: its     *)
(* tolerance reaches beyond the time at which it is looked up.             *)
ShortLookups(rows, ts) ==
  [midT0 : MidsAt(rows, ts, ToleranceT0),
   midT1s : MidsAt(rows, ts + Horizon1s, Tolerance1s),
   midT10s : MidsAt(rows, ts + Horizon10s, Tolerance10s),
   features : {InFeatureWindow(rows, ts)}]

LongLookups(rows, ts) == MidsAt(rows, ts + MaxHorizonMs, Tolerance60s)

-----------------------------------------------------------------------------
(* The worker                                                              *)

Enriched == {row.fill : row \in enriched}

(* Mutant: a fill is taken up as soon as it is recorded.                   *)
DueAtOnce == DOMAIN exFill \ Enriched

(* Mutant: a run takes up what became due since the clock's last step.     *)
DueNow == {f \in DOMAIN exFill \ Enriched : exFill[f] = clock - MaxHorizonMs}

(* The anti-join and the horizon gate.                                     *)
Due == {f \in DOMAIN exFill \ Enriched : exFill[f] <= clock - MaxHorizonMs}

(* LIMIT without ORDER BY: any of the fills due.                           *)
Batches ==
  IF Cardinality(Due) <= BatchLimit
  THEN {Due}
  ELSE {fills \in SUBSET Due : Cardinality(fills) = BatchLimit}

(* The interval fires; a run without work leaves no trace.                 *)
StartRun ==
  /\ ~busy
  /\ Due # {}
  /\ busy' = TRUE
  /\ batch' \in Batches
  /\ UNCHANGED <<clock, exFill, stored, buffered, enriched, current, mishaps>>

(* The lookups and calculations of processFill.                            *)
LookUp(fill) ==
  /\ fill \in batch /\ current = {}
  /\ \E short \in ShortLookups(stored, exFill[fill]), long \in LongLookups(stored, exFill[fill]) :
       current' = {[fill |-> fill, short |-> short, midT60s |-> long]}
  /\ UNCHANGED <<clock, exFill, stored, buffered, enriched, busy, batch, mishaps>>

Done(fill) ==
  /\ batch' = batch \ {fill}
  /\ busy' = (batch # {fill})
  /\ current' = {}

Insert(row) ==
  /\ row \in current
  /\ enriched' = enriched \cup
       {[fill |-> row.fill, short |-> row.short, midT60s |-> row.midT60s, id |-> Cardinality(enriched)]}
  /\ Done(row.fill)
  /\ UNCHANGED <<clock, exFill, stored, buffered, mishaps>>

(* A query or the INSERT throws: logged, and on to the next fill.           *)
ProcessFails(fill) ==
  /\ fill \in batch
  /\ mishaps < MaxMishaps
  /\ current = {} \/ \E row \in current : row.fill = fill
  /\ Done(fill)
  /\ mishaps' = mishaps + 1
  /\ UNCHANGED <<clock, exFill, stored, buffered, enriched>>

(* The process dies, maybe right after its INSERT took effect.             *)
CrashAndRestart ==
  /\ mishaps < MaxMishaps
  /\ busy' = FALSE /\ batch' = {} /\ current' = {}
  /\ mishaps' = mishaps + 1
  /\ UNCHANGED <<clock, exFill, stored, buffered, enriched>>

ProcessAny == \E fill \in batch : LookUp(fill)
InsertAny == \E row \in current : Insert(row)

SummaryNext ==
  \/ TimePasses \/ StartRun \/ ProcessAny \/ InsertAny \/ CrashAndRestart
  \/ \E fill \in FillIds : RecordFill(fill) \/ ProcessFails(fill)
  \/ \E price \in Prices : MarketRow(price)
  \/ \E row \in buffered : StoreRow(row)

(* The interval fires, rows are stored and queries are answered.           *)
SummaryFairness ==
  /\ WF_summaryVars(TimePasses)
  /\ WF_summaryVars(\E row \in buffered : StoreRow(row))
  /\ WF_summaryVars(StartRun)
  /\ WF_summaryVars(ProcessAny) /\ WF_summaryVars(InsertAny)

-----------------------------------------------------------------------------
(* A fill is enriched once, over failures and restarts and although nothing *)
(* in fills_enriched forbids a second row; and what is computed up to the   *)
(* 10 s horizon is final: no row of market data that was or will be stored  *)
(* later would have changed it.                                            *)
EnrichedOnceForAll ==
  \A row \in enriched :
    /\ \A other \in enriched \ {row} : other.fill # row.fill
    /\ row.short \in ShortLookups(stored \cup buffered, exFill[row.fill])

(* Every recorded fill is enriched in the end.                             *)
EveryFillEnriched ==
  \A fill \in FillIds : [](fill \in DOMAIN exFill => <>(fill \in Enriched))
=============================================================================
