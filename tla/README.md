# agentic-mm-bot: TLA+ models and proofs

Specifications of the market-making bot in this repository: TLA+ modules translated from
the TypeScript source, TLC configurations that check them on small instances, and theorems
that TLAPS proves for every value of the constants.

Paths below are relative to the repository. `requirements.md` and `design.md` are the ones
under `.kiro/specs/agentic-mm-bot/`; a number such as 7.4 is a requirement in them.

## How to run

    tlc -workers 2 -config MCCore.cfg MCCore
    tlc -workers 2 -config DecisionCycleRepair.cfg DecisionCycle
    for m in *Proofs.tla; do tlapm $m; done

`PROJECT.json` lists every run with its module, configuration and expected outcome, the
source lines behind every definition, a mutated definition for every checked property (the
property fails on it), the hazards, the findings and the theorems.

## 1. The system

Four processes share a PostgreSQL database; two of them talk to the exchange (Extended).

    exchange --public stream--> ingestor --> md_* tables, latest_top
       |  ^                                        |
       |  +--orders--- executor <--strategy_params, llm_proposal
       +--private stream-->|                       ^
                           +--> ex_order_event, ex_fill, strategy_state, param_rollout
                                   |               |
                              summarizer      llm-reflector

| Component | State it keeps | Operations |
|---|---|---|
| Strategy engine, risk policy (`packages/core`) | mode, modeSinceMs, pauseUntilMs, lastQuoteMs | `evaluateRisk`, `determineNextMode`, `decide`, `createInitialState` |
| Quote and feature calculation (`packages/core`) | none | `calculateQuotes`, `priceExceedsThreshold`, features over 1 s and 10 s windows |
| Execution planner (executor) | none | `planExecution` |
| Decision cycle (executor `usecases/decision-cycle.ts`, tick loop in `main.ts`) | throttle, sync and back-off time stamps; the shared strategy state | `executeTick`, `executeAction`, the tick timer, state persistence, shutdown |
| Order tracker (executor) | tracked orders | `addOrder`, `removeOrder`, `clear`, `syncFromOpenOrders`, `updateFromOrderEvent`, `updateFromFill` |
| Position tracker and publisher (executor) | position size; last published value | `updateFromFill`, `syncPosition`, debounced upsert |
| Market data cache (executor) | best bid and offer, trades, mark and index price, stamps | `updateBbo`, `addTrade`, `updatePrice`, `getSnapshot` |
| Proposal applier and parameter refresh (executor) | current parameters in memory, their signature | `processPendingProposals`, `tryApplyProposal`, refresh callback, startup load |
| Proposal and parameter repositories | `strategy_params`, `llm_proposal`, `param_rollout` | `getCurrentParams` (seeds), `createParams`, `setCurrentParams`, status and audit updates |
| Parameters overlay (executor) | tightening step | tighten on adverse fills, reset |
| Event repository | queues of order events and fills | `queueOrderEvent`, `queueFill`, `doFlush`, timer, `stop` |
| Execution adapter | account stream, known filled quantities | place, cancel, cancel all, open orders, fill and order-update events |
| Market data adapter | WebSocket connections, reconnect timers | connect, disconnect, scheduled reconnection |
| Ingestor | insert buffers, dead letters, dirty `latest_top` | stream handlers, flush with retries, upsert, watchdog, shutdown |
| Summarizer | none in memory | enrich fills with mark-outs, aggregate by hour and minute |
| LLM reflector, parameter gate | none in memory | hourly workflow, validation of a proposal |
| Interval worker (`packages/utils`) | in-flight flag | run, stop |
| Backtest | simulated orders and position | replay through the same core |

Interaction. Inside the executor everything runs on one event loop: the tick timer, the
persistence, refresh and apply timers, and the callbacks of the private and public streams
interleave at every `await`. None of the executor's `setInterval` callbacks has an
in-flight guard. Processes meet only in the database.

What is hard, and what makes each component correct:

- **Strategy engine.** A PAUSE must last its minimum, must not be re-armed or inherited
  over ticks, persistence and restarts, must end in DEFENSIVE, and must end.
- **Quote timing.** Three unrelated clocks (`lastQuoteMs`, the age of an order, the
  `cancel_all` throttle) decide what is on the book: placements are spaced, a PAUSE ends
  with an empty book, a missing side returns (it does not, see section 4).
- **Decision cycle.** The tracker is an image of the exchange that goes stale during every
  await: no live order escapes it, no side piles up orders, a PAUSE empties the book, drift
  is found.
- **Parameters.** A change is six database operations without a transaction, run by callbacks
  that may overlap, fail or die: one current row, each proposal once, no lost update, an audit
  that tells the truth.
- **Event queue.** Overlapping flushes put failed batches back into queues that others have
  emptied: nothing is lost, fills are stored once, everything is stored in the end.
- **Fills.** A fill reaches the executor as a trade, as a growth of `filledQty`, or as part of
  a REST answer that it may overtake or be overtaken by: `ex_fill` has each unit once, an open
  order stays tracked, the position ends up right.
- **Market data connection.** One web socket per stream, opened one after the other by loops
  that a timer, the watchdog and `subscribe` may start at once: every stream comes back, none
  is opened twice, nothing is left open by `disconnect`.
- **Order book.** Messages get lost, and sequence numbers are checked on events only: a best
  bid and offer handed on is the exchange's and never crossed.
- **Ingestor.** Rows are appended to buffers whose head is being inserted: nothing is lost or
  stored twice, `latest_top` catches up, a shutdown leaves what is known to be late.
- **Adaptation.** Two copies of the gate, rounding after validation, a proposal judged by
  parameters other than its own: one logged proposal per window, bounded changes. The overlay
  tightens slowly whatever resets it.
- **Summarizer.** Each fill enriched, once, from market data that is final by then.
- **Backtest.** Same features and decisions as the executor, fills that a trade explains,
  totals that agree.

`PROJECT.json` has each of these hazards at its line.

## 2. Modules

| Module | Models | State and actions |
|---|---|---|
| `StrategyCore` | `risk-policy.ts`, `strategy-engine.ts` | Operators `EvaluateRisk`, `DetermineNextMode`, `Decide`, one per function. Undefined times are `Undefined`; reason codes are left out. |
| `StrategyEngine` | one executor process, its clock, persistence and restart | `Tick` = `executeTick` up to its decision and the assignment of `state`; `Persist` = one round of the persistence timer; `Restart` = death and restore. |
| `ExecutionPlanner` | `execution-planner.ts` | Operators, used by the two modules below. |
| `QuoteLoop` | decide, planner and `cancel_all` throttle with exact elapsed times | Stamps are kept as ages capped where the code no longer tells them apart. One action per tick, plus fills and price moves. |
| `DecisionCycle` | ticks suspended at every await, tracker, exchange, private stream | One action per stretch of code between two awaits (`StartTick`, `Start...`, `Resume...`, `Finish`); the exchange and the stream are external actions; intervals are flags. |
| `ParamsRollout` | `proposal-applier.ts`, `proposal-repository.ts`, refresh and startup in `main.ts` | One action per database operation of a callback; `proc[q].pc` says which one is next. |
| `FillTracking`, `MCFillTracking` | `execution-adapter.ts` (account messages), `order-tracker.ts`, `position-tracker.ts`, and what `main.ts` does on a fill | `HandleMessage` = one account message with all the callbacks it runs; `StartSync`, `AnswerSync`, `ApplySync` = a position query before and after its await; the exchange and its stream are external. |
| `EventPersistence` | `event-repository.ts` and the shutdown | Queues of numbered records; `Take` empties them, `Insert`/`Fail` is the answer to one INSERT. |
| `MCCore` | `StrategyEngine`, `QuoteLoop` and `EventPersistence` in one run | Features, positions and parameters on both sides of every threshold. |
| `DurableQueue` | what a write-behind queue promises | `Accept`, `Commit`; `EventPersistence` implements it. |
| `ProposalDecisions` | what the rollout promises | `Make`, `Accept`, `Reject`, `InstallSeed`; `ParamsRollout` implements it. |
| `MarketDataConnection` | `market-data-adapter.ts` (streams, reconnection), `ws-connection.ts`, the watchdog of the ingestor's `main.ts` | A start loop is the stream whose handshake it awaits; a listener is an entry of `active` or one in `leaked` that lost its entry. |
| `OrderBookFeed` | `normalizeOrderbook`, `checkSequence` | `Snapshot`, `Delta`: one message through book, top and sequence check; `Lost`, `Reconnect`. The exchange's book is external. |
| `MarketDataRecorder` | the ingestor's handlers, `event-writer.ts`, `bbo-throttler.ts`, `latest-state-manager.ts`, shutdown | One action per handler; a flush is `StartFlush` and the answers to its inserts; an upsert is its begin and its end. |
| `MCIngestor` | the three above in one run | |
| `ParamGate` | both `param-gate.ts`, the schema, `applyChanges`, operational gates | Operators. |
| `Reflector` | worker, window guard, workflow, log file, `saveProposal`; the executor's verdict as one step | `FetchInput`, `Propose`, `WriteFile`, `Save`: the workflow between its awaits. |
| `ParamsOverlay` | `params-overlay.ts`, the tick and the refresh loop that call it | `Fill`, `OverlayTick`, `NewParams`. |
| `FillSummary` | `process-fills.ts` and its lookups, late market data | `StartRun`, `LookUp`, `Insert`, `ProcessFails`, `CrashAndRestart`. |
| `MCAdaptation` | `ParamsRollout` and the four above in one run | |
| `QuoteCalculator` | `feature-calculator.ts`, `quote-calculator.ts` | One operator per function, on integers. |
| `MarketData` | `market-data-state.ts` of the backtest and `market-data-cache.ts` of the executor | Operators on one record: `Update...` and `Cache...`. |
| `Backtest`, `MCBacktest` | the replay, `sim-execution.ts`, `action-planner.ts`, `markout.ts` | `Row`, `ReplayTick`, `Report`; the executor's cache runs beside it on the same rows. |
| `MCSafety` | `ParamsRollout` and `Backtest` in one run, without fairness | |
| `QuoteLoopProofs`, `DecisionCycleProofs`, `FillTrackingProofs`, `ParamsRolloutProofs`, `EventPersistenceProofs` | | theorems about the module of that name, section 5. |
| `CoreProofs` | | theorems about `StrategyEngine` and `Backtest`. |
| `IngestorProofs` | | theorems about `MarketDataRecorder`, `OrderBookFeed` and `MarketDataConnection`. |
| `AdaptationProofs` | | theorems about `ParamsOverlay`, `FillSummary` and `Reflector` with `ParamGate`. |

`QuoteLoop` and `DecisionCycle` are two views of the same loop, both built on `StrategyCore`
and `ExecutionPlanner`: the first has exact times and no slow calls, the second has every
interleaving and no exact times. Keeping both in one state space would be out of TLC's
reach; each property is stated where what it depends on is exact.

`MCCore`, `MCIngestor`, `MCAdaptation` and `MCSafety` explore one part at a time: the initial state
picks a part, and the others rest. The parts meet only at an interface that each leaves open, or not at all. The feed
sees the connection as a stream that is open, broken or reopened, the recorder sees any sequence of
mids; the reflector, the rollout, the overlay and the summarizer share rows of the database only, and each
takes any row as its input; of what is queued `EventPersistence` knows a number only. Interleaving them would
multiply states without adding a behaviour to any part. Deadlock is not checked in these runs, because a bound
on time or records, or a process that stops, ends each of them. Fairness of a part that may not rest by itself is
stated in the MC module, for the part that is explored.

## 3. Runs that pass

**`core`, the mode machine.** `PauseDeadline` (the deadline in a PAUSE is its own entry plus the
minimum, also in the persisted row), `QuoteOutsidePauseWindow`, `PauseLeftSafely` (5.6, 5.7)
and, with weak fairness on ticks and clock, `CalmReachesNormal`. Bounds: a clock of 15 with a
minimum pause of 5, so that two PAUSEs and restarts within and after one fit; from time 8 on
(`CalmFrom`) neither risk nor restarts, which is the premise of the liveness property.

**`core`, the timing of quotes.** Gaps of 1 and 2 between ticks, refresh interval 3, stale age 4, throttle 3
and 7, minimum pause 5: every order of the intervals that the defaults have (tick < refresh <
stale, throttle < pause), with gaps that do not divide them. `PlacementSpacing` (7.7),
`PauseEndsFlat` (4.5, 7.5).

**`core`, the queue of records.** Two flushes in flight, two records of each kind, inserts that fail with or
without effect, a shutdown at any moment. `ImplementsDurableQueue` is the refinement of
`DurableQueue`, in which a record waits until a commit stores it and a fill is then done with:
what waits there is here in a queue or in the batch of a flush. `EventuallyStored`: every
record, unless the process stops. Order events may be stored twice (the insert of fills behind
them fails and both are queued again), fills only if an insert failed after it took effect.

**`cycle`.** One tick in flight, the case of an exchange that answers within the tick interval.
Calls fail in every way, orders end at any time, events come late or never.
`TrackerCoversLive`; `LiveOrdersBounded`: one live order on a side until the first failed
call, two after it. The actions of a tick run one after the other whatever their results, so
a cancel that fails is followed by the placement of its replacement, and then the guardrail
cancels all. Three order ids per side: a third order could exist, and does not.

**`cycle_repair`.** A startup sync that failed, placements that reach the exchange and report
an error, failing calls, a shutdown at any moment. `EventuallyFlat`: while decisions stay
PAUSE the book gets empty and stays so, and it is empty after a shutdown whose cancel
succeeded with no tick in flight. `DriftRepaired`: no order stays live and untracked, or gone
and tracked, for ever. One order id per side: drift of each kind needs no more.
Here the tracker may also drop an open order on a partial fill (`Miscounts`);
`TrackerCoversLive` and the bounds of `cycle` are stated without that, and `fills` says when
that is: while no snapshot contains a partial fill, no trade is counted twice, and no size was
raised at the exchange. Deadlock is not checked: the process may have stopped.

**`fills`.** Sizes as the planner asks for them and as the adapter places them (`PlacedSize`): a
bid of 5 that is rounded down to two steps of 2 and may be filled in two parts, and an ask of 1 that
is raised to the minimum of 2 and filled at once; messages with and without the trade; a stream that fails to connect or ends (nothing opens it again);
two position queries in flight, of the debounce and of the periodic timer; restarts.
`FillsRecordedOnce` holds while `exact`: the messages carry no trades beside `filledQty`, none
was missed, and the process did not restart (a restart forgets `filledQty`). `OpenIsTracked`
holds for an order whose size was not raised and while `plain`: `exact`, and no snapshot of open
orders has replaced the tracker.
`PositionConverges` (4.7) holds without conditions: once the fills stop, the next answered
query is right, whatever was overtaken before. Two parts are the least for which a partial
fill can be counted twice without ending the order.

**`ingestor`.** Connection: three streams of which two are critical (a stream before and one
after an uncritical one), five start loops at once (the most that three faults can have
under way), handshakes that open, hang or are rejected.
`StreamsComeBack`: every stream has a listener again, unless a handshake hangs or the process
stops. `SilenceMeansStuckWatchdog`: all streams are silent for good only if the watchdog's own
`connect` hangs, which leaves `watchdogInFlight` set. `CleanUnlessOvertaken` says what holds as
long as the streams were never stopped under a loop still awaiting a handshake
(`overtaken`): one listener per stream, none after `disconnect`, a timer for every entry whose
listener ended. Feed: prices on both sides that can cross, two levels kept. `TopIsTrue`: what is
handed on is never crossed, and is the exchange's best bid and offer while no level was
pruned and no loss went unseen. Recorder: two tables, two events of which both may be bbo, three
attempts as in the code, two upserts at once. `RowsAccounted`, `LatestCaughtUp` (an update that
arrives during an upsert, or an overlapping upsert, is where it fails: `raced`), and
`RowsSettle`: a row leaves its buffer.

**`adaptation`, the other three.** Reflector: two windows, one fault, answers at and beyond the ratios, one that
is rounded away, two changes, no number, a negative one. `ProposalsAccounted` (13.1): a
saved proposal has a log of its own, and a window has one proposal unless a restart or an
insert of unknown outcome came between. `GatesAgree`: what the reflector lets through core
does not refuse on the same parameters. `WindowAnswered`: an error is tried again. Overlay: `TightensSlowly`, with bases above, within
and below a step of the floor, and fills that are reported late. Summary: two fills, a page
of one, two market rows, one crash or failure; horizons 1, 2 and 5 with tolerances that leave
room for the delay of the ingestor, as 10 s + 1 s + delay < 60 s does (an assumption of the
module). `EnrichedOnceForAll`, `EveryFillEnriched`.

**`adaptation`, the rollout.** One apply job beside the refresh loop, two proposals, five rows (the first
seed, two changes, and a seed in each switch). `DecidedOnce` is the refinement of
`ProposalDecisions`: the verdict on a proposal is its status, or "applied" from the moment its
row comes into force, and the chain is the sequence of rows that came into force; so every
proposal is decided once, in the end (10.4), and its parameters come into force with the
decision and never again. `MemoryCatchesUp`: the refresh loop may install an answer older
than a change just applied, but not for good.

**`safety`, the tables of parameters.** Two jobs in flight, one proposal, failures of any operation, crashes
between any two. `AuditTruthful` holds unconditionally.
`AtMostOneCurrent` and `ChangesBuildOnCurrent` hold until two callbacks have overlapped
(`overlapped` is a history variable); failures and crashes alone do not break them, also
when they leave no row current and the next load seeds defaults.

**`safety`, the backtest.** Eight instants, a tick of 2, windows of 4 and 2, up to four rows: books, trades with
and without a side, a liquidation, mark and index prices. `FillsMatchTrades` (11.3): an order
fills by a trade that reached its price, and none rests through one.
`TotalsAgree`: counters, position and fills; the position exceeds the limit by one order at
most. `ReplayMatchesLive` (11.1): the executor's cache fed with the same rows has the same
features, although it prunes at other times. `MarkoutInWindow`. Four rows are enough for two fills
with prices before and after, or a pause by each of its conditions.

Fairness. Weak fairness stands for the event loop: timers that fire, continuations that run,
calls that are answered. Strong fairness is used where code retries for ever and a
reply may fail any number of times but not always: `cancel_all` and the open-orders query in
`DecisionCycle`, the position query in `FillTracking`, each kind of insert in
`EventPersistence`; and on `StartApply`, because the
apply timer (1 s) fires many times within each grace period (30 s). `WF_vars(TickStep(t))` of
`DecisionCycle` stands for the steps of a tick, of which one at most is possible at a time.
In `MarketDataConnection` the watchdog is fair only while all streams are silent, and a
handshake need not settle (`Hangs`). In the other modules faults are bounded and
everything else is weakly fair. Nothing is assumed about fills, the private stream, risk
inputs, proposals, failures or crashes.

## 4. Where the code and its documents disagree

Five disagreements have a run that is violated. Each checks what the documents say, as one property,
and TLC shows how the code breaks it.

- `cycle_late_write`, `PauseExitsToDefensive` (5.6). A slow tick that read NORMAL writes NORMAL over
  the PAUSE of a later tick.
- `quote_loop_missing_side`, `MissingSideQuoted` (7.4, 14.3.2: one order on each side is maintained).
  `decide` stamps `lastQuoteMs` on every quoting tick, placed or not (`strategy-engine.ts:144`), and
  the planner compares with that stamp. With ticks shorter than `refreshIntervalMs`, as the
  defaults have them (200 ms, 1000 ms), a side that was filled or rejected stays empty until a PAUSE
  or an unusually late tick. Intervals of `core`; the ticks are weakly fair, and nothing else
  need happen. `MissingSideStarves` proves the cause for all intervals.
- `fills_raised_size`, `RemovedIfFilled` ("Remove if fully filled", `order-tracker.ts:61`). The
  adapter raises a size to the minimum of the market (`execution-adapter.ts:343`), and the tracker
  keeps the requested one: a partial fill that reaches it drops an open order, and the planner
  places another. The ask of 1 is raised to 4 here (minimum 3, step 2) and half filled;
  `OpenOrdersTracked` proves that nothing else drops an order under the same conditions.
- `adaptation_ten_percent`, `ChangesWithinTenPercent` (10.2, 10.5, and the header of the reflector's
  `param-gate.ts`). The tables of both gates allow ratios of 0.3 to 3 and wider; the run applies a
  change from 20 to 60. Not even these ratios hold of what is applied, as integers are rounded after
  they were validated: a `pauseLiqCount10s` of 3 becomes 0 through a proposed 0.4, and that pauses for
  good. `ChangesAreRuled` proves that rounding is the only way past the ratios.
- `backtest_next_trade`, `NextTradeFills` (11.3: the next trade; "trades that arrived since last
  tick", `backtest-runner.ts:118`). The window is closed, so a trade exactly at a tick is looked at by
  this tick and by the next one, where it fills the order placed between; one trade may fill two
  orders. `NoFillByOlderTrade` proves that only a trade of that very time does.

The models show the following ones too. They are described here, and the properties of section 3
are stated so that they hold beside them.

Executor, orders:

- Two overlapping ticks may both find a side empty and place on it. A slow tick places orders
  after a later tick decided PAUSE.
- A `cancel_all` within the throttle of the previous attempt is skipped, so a PAUSE may begin with
  orders on the book (7.5 says always). A post-only rejection is not retried on the next tick,
  as the comment at `decision-cycle.ts:411` says.
- The shutdown neither looks at the result of its `cancelAllOrders` nor waits for a tick in flight
  (`main.ts:751`): orders may stay on the exchange.
- A fill is counted twice when a message carries both the trade and the new `filledQty`, and
  again after a restart, which forgets `filledQty` (`execution-adapter.ts:680`; its comment at
  line 676 wants each once).
- The adapter rounds the price of both sides down, while the tracker keeps what was requested.

Executor, parameters:

- `setCurrentParams` is two UPDATEs (`proposal-repository.ts:158`). A load between them finds no
  current row and seeds defaults; the second UPDATE then adds another current row.
- Several proposals may be applied in one grace period ("max 1 per boundary",
  `proposal-applier.ts:6`), and as `getPendingProposals` has no order the first is not always the
  oldest (`proposal-applier.ts:434`). A decision whose audit insert failed has no audit row (10.6).
- A change from 0 is not checked against a ratio. A number followed by text passes both gates and
  fails in the database.

Reflector and summarizer:

- The guard that a window is answered once is in memory: a restart, or an insert whose outcome is
  unknown, leads to a second proposal. The log file names a proposal by another id than the
  row's. The call of the model has no timeout.
- Windows of the aggregation are closed at both ends and count a fill on the boundary twice; the
  fills of the last minutes are not enriched yet when they are aggregated (9.6). The mark-index
  divergence of a fill is null, as a row of `md_price` has a mark or an index price (9.5). The
  price at 60 s may come from incomplete data and is not computed again, where the comment at
  `process-fills.ts:115` has all horizons covered.

Market data and backtest:

- A web socket whose handshake neither opens nor fails leaves its loop waiting, contrary to
  `ws-connection.ts:117`; the "exponential backoff" of `market-data-adapter.ts:6` never exceeds
  its first step.
- Events that come after the last flush of a shutdown began are not stored, in the
  ingestor as in the executor. An update of `latest_top` during its upsert waits for the next one.
- A pause at the first tick of the backtest is not counted, as the mode starts as PAUSE. With the default tick of 200 ms and refresh
  interval of 1 s, a side starves as above. The mark-out starts from the mid at the fill,
  that of the summarizer from the price of the fill (only the sign is the "same as summarizer", `markout.ts:56`).

## 5. Theorems

`CoreProofs` on `StrategyEngine`, for every set of inputs, clock bound and pause length in Nat:
`TypeCorrect`, `PauseDeadlineHolds`, `NoQuoteInPauseWindow` and `PauseExit`.
`QuoteOutsidePauseWindow` is not inductive: it says nothing of a state that has not quoted yet.
The invariant is `TypeOK`, `PauseDeadline`, `QuoteOutsidePauseWindow` and `PauseHistory`,
which ties `pausedAt` to the state: while in PAUSE it is `modeSinceMs`, and afterwards the
deadline it implies is over. `PauseDeadline` covers the persisted row because `Restart` brings
it back. Each action is one step of the proof, each conjunct it disturbs one step below.

`CoreProofs` on `Backtest`, for every set of rows, all parameters, windows, ticks and times, and any
number of rows: `FillsFollowTrades`, `TotalsAlwaysAgree`, `ReplayIsLive` and `MarkoutsInWindow`
(`FillsMatchTrades`, `TotalsAgree`, `ReplayMatchesLive`, `MarkoutInWindow`), and
`NoFillByOlderTrade`, which bounds how far `NextTradeFills` fails. The invariant is `ReplayInv`:

- `OrdersPlaced`: an order that rests was placed by an earlier tick, so the trades a tick looks
  at, those of the last interval, are not older than the order: fills have their reason
  (`FillsMade`). `Unpassed` is the other half: the trades of the last interval were looked at by
  this tick, older ones by the ticks before, and a row that comes later is newer than both.
- `Balanced`, `PositionBounded` and that no order rests beyond the limit. A tick starts within the
  limit or without orders, each side fills once at most, and a position beyond the limit makes
  `EvaluateRisk` pause, so that the tick that went beyond it also cancels (`ExcessPauses`).
- `SameMarket`: both markets show the same prices, and the same items in their windows at the next
  tick. Whoever prunes, earlier or later, leaves what a later window shows (`WindowOfWindow`).
- `BboSorted`, from which the binary search finds the last row at or before its target.

Three of them rest on folds (`FoldLeft` over trades, fills and windows) and the last on a
recursive function. The library's induction theorems cannot be used here, as they take an operator
as a parameter, and CHOOSE of a recursive function says nothing until one is shown to exist. The
module proves what is needed of both in first-order terms: `SetInduction` and `SeqInduction` take the set
of the values that have the property, `FoldExists` and `SearchExists` give the functions, and
`FoldPath` and `SearchFinds` say what they compute. From these follow the facts the steps cite: `WindowAppend`, `NetFilledAppend`,
`TouchAppend`, `CheckTouchFillFacts`, `FindBboFacts`.

`QuoteLoopProofs`, for every choice of the intervals: `TypeCorrect`; `PlacementsSpaced`, from an
invariant that neither `lastQuoteMs` nor the order on the book is ever older than the last
attempt on that side;
`BookEmptyAfterPause`, under the named hypothesis that the throttle plus one tick fit into
the minimum pause (1 s + tick interval against 10 s in the code), from an invariant that bounds
the pause left by the age of the attempt; `MissingSideStarves`, which explains the violated
`MissingSideQuoted`: when every tick is shorter than the refresh interval, a side without an order has
none after the next quoting tick either.

`DecisionCycleProofs`, for any number of order ids: `NoOrderMissed` (`TrackerCoversLive`) and
`BookStaysSmall` (`LiveOrdersBounded`), over failing calls, rate limits, reconciliation, fills,
late events and shutdown. Neither is inductive: what a tick still has to do must leave the
book small. The invariant adds three facts about a tick in flight. `Shape`: the call it waits
for is the first of its remaining actions, and these place once on a side. `ReplyTrue`: a reply
stays true until the tick goes on. `Room`: while it still has to place on a side, that side is
empty or its only order is cancelled before; after a failure it has one order at most. The
hypothesis is `CalmExchange`, whose four parts are needed:

- one tick in flight: of two that overlap, both place on an empty side, or one puts a
  snapshot into the tracker that is older than the order the other has just placed there;
- `~RepliesLost`: an order that was taken but reported as refused is live and not tracked;
- `~Miscounts`: a fill counted twice, or a size raised at the exchange, makes the tracker drop an
  order that is live;
- `StartSynced`: after a startup query that failed, orders of an earlier process are unknown.

`PauseExit` proves `PauseExitsToDefensive` from the first of the four alone: what a tick is about
to assign was decided from the state as it still is (`NextIsDue`). So overlapping ticks are the
only cause of the disagreement in section 4.

`FillTrackingProofs`, for orders of any requested size, any step and minimum of the market, messages
and queries: `UnitsRecordedOnce` and `OpenOrdersTracked`. `FillsRecordedOnce` compares sums at one moment; the invariant says what
the stream holds: as long as no message was missed or doubled, the messages about an order
lead from what is recorded to what is filled, in order (`Leads`), and the tracker has counted no
more than the adapter (`CountsNoMore`), so that only a message that ends the order drops it: an
order that is open is filled by less than was placed, and that is no more than was requested
unless the size was raised.

`ParamsRolloutProofs`, for any number of jobs, proposals and rows. `AuditIsTruthful` has no
hypothesis: the invariant is that what a job holds in its locals from its decision on is true of
the tables (`LocalTruth`). `OneRowCurrent` and `NoUpdateLost`: until callbacks overlap, one at
most is in flight; then a row that is current is the last that came into force, and a job that
prepares a change builds on that row (`Alone`). Failures and crashes are covered.
`EachDecidedOnce`: under `OneJobNoFaults` every step is a step of `ProposalDecisions` or
leaves verdict and chain alone, that is the safety part of `DecidedOnce`. With a failure or a
crash between the switch and the status update, a proposal in force is still pending and comes
into force again; two jobs may take the same proposal.

`EventPersistenceProofs`, for any number of flushes and records: `QueueIsDurable`, the
refinement of `DurableQueue`. A step of the code maps to a step of the queue only because a
fill is in one place at a time, the queue or one batch (`FillsInOnePlace`), and because a batch
whose fills are next has its order events stored (`FlushShape`).

`IngestorProofs`. `RowsAreAccounted`, for any tables' inserts, events and attempts: the buffer of
a table is in the order of the events, what is being inserted is its head, and what came after
the last flush began is behind it (`InOrder`); without that order the cut after an insert would
take other rows than the insert stored. `LatestRowCatchesUp`: unless they raced, one upsert is
in flight, it carries the latest state, and `dirty` is still set. `TopOfBookIsTrue`, for any
prices and depth: unless a loss went unseen, the local book is the exchange's, or part of it
once a level was cut off (`Matches`). `ConnectionStaysClean`, for any number of streams and
loops: until a loop is overtaken there is one that opens streams, all entries from the one it
awaits on are free (`Alone`), and nothing is under way before `subscribe` and after `disconnect`
(`Quiet`).

`AdaptationProofs`. `SpreadTightensSlowly`, for any bases, steps and times, from what the last
step left (`Tightened`): it had a reference fill, and fits into the intervals until then.
`FillsEnrichedOnce`, for any fills, rows and horizons: a batch holds fills that are not enriched
and whose market data are complete (`Final`), which is where the horizon assumption enters.
`ProposalsAreAccounted`: file numbers grow, and a window with an undisturbed row is not taken up
again (`OneRowPerWindow`). `TheGatesAgree`, for any parameters and answers: what is saved has
passed the reflector's rules (`Gated`), and each rule of the one table implies that of the other.
`ChangesAreRuled` says what the gates guarantee where `ChangesWithinTenPercent` fails:
at most two parameters change, each to what the rules allow in place of the value it replaces,
rounded afterwards in an integer column.

The theorems on `OrderBookFeed` and `MarketDataRecorder` are about their `Spec`; the others of the
last two proof modules are about `Init` and `[][Next]` of a component, which is how the MC modules use it.

Assumptions. The constants carry only the named assumptions of their modules; TLC evaluates
those in the runs above. Two that a proof needs and that are not obvious: the order ids of
`DecisionCycle` are finite (`SlotsAssumption`; `Cardinality` says nothing otherwise), and the
seeded parameters and the numbers in an answer are integers in tenths, with whole values in the
integer columns (`ReflectorAssumption`; `strategy-params.ts:24` declares those columns). Two
more are the backtest's. Numbers are integers, prices of `md_bbo` are positive, and the tick is not
longer than the window of the trades (`BacktestAssumption`; 200 ms against 10 s), as a longer one
would miss trades. No row of `md_bbo` is crossed (`UncrossedRows`), as the ingestor hands on no
crossed top (`TopOfBookIsTrue`). Only `ReplayIsLive` needs it: of a crossed row the cache keeps
the time alone (`market-data-cache.ts:50`), where the backtest takes the prices.

Model-checked only:

- all liveness properties, and the fairness part of `DecidedOnce`: liveness under fairness and
  ENABLED are out of TLAPS's reach here.

So every invariant and every action property that a passing run checks is a theorem, under the
hypotheses named above.
No module declares a RECURSIVE operator.

## 6. Abstractions

- Executor: whether a quote moved by `MIN_REQUOTE_BPS` is an event, and so is a fill; a
  fill in `DecisionCycle` is complete. Partial fills are in `FillTracking`, in units of the planner, of which the market's step is a
  multiple, where each order is used once and `recorded` counts no further than one unit too many.
- Order ids are reused once nothing refers to them; the code's never repeat. With all in
  use, a placement is refused.
- A failed cancel, cancel-all or query has no effect; a failed placement may have one.
- The shutdown of the executor is one step, at the moment the exchange handles its cancel; the
  last flush behind it is in `EventPersistence`.
- A record or row is a number, the number of its event; levels of a book are prices, without
  sizes. Prices and sizes are integers, and a basis point is a whole unit of price.
- In `ParamsRollout` a proposal is a number and the gates' verdicts are open. In `Reflector` a
  proposed value is its finite number, if it has one, and what the model answers is open.
- A feature of the backtest and a mark-out of the summarizer are functions of the rows in
  their window.
- `CHOOSE` in `OrderOnSide` stands for the first order found in the tracker's map; the planner
  is reached only with at most one order on a side, so it never has a choice.

## 7. Not modelled, and the plan

Not modelled, and why. Dashboards and logging: output only, nothing reads it back.
Environment and table definitions: declarations; what they fix is in the constants. The hourly
and minute aggregation and the metrics queries: sums computed afresh from rows each time, with
nothing kept between two runs. Entry price, profit and the publication of the position:
arithmetic and one upsert that nothing in the executor reads. Signing, fees and account
caches: library calls and reads. Funding rates: shown only. CSV reports and the wording of
prompts: text.

Done, most important behaviour first:

1. `StrategyCore`, `StrategyEngine` with proofs of the pause rules.
2. `ExecutionPlanner`, `QuoteLoop` with proofs of spacing, flat pauses and starvation.
3. `DecisionCycle`, composing planner, engine, tracker and exchange, with the shutdown.
4. `ParamsRollout`, `EventPersistence`, and the abstract `ProposalDecisions` and `DurableQueue`.
5. `FillTracking`.
6. `MarketDataConnection`, `OrderBookFeed`, `MarketDataRecorder`.
7. `ParamGate`, `Reflector`, `ParamsOverlay`, `FillSummary`.
8. `QuoteCalculator`, `MarketData`, `Backtest`.
9. Proofs about every component: the safety properties of all runs, and the two refinements.

Left: the parts listed above as not modelled or only partly, and the liveness properties, which
stay with TLC.
