---------------------------- MODULE StrategyCore ----------------------------
(***************************************************************************)
(* The pure decision core of the bot (packages/core/src): risk evaluation, *)
(* the three-state mode machine and the decision made on every tick.       *)
(* Nothing here keeps state.  Module StrategyEngine runs these operators   *)
(* as the executor's tick loop does, QuoteLoop and DecisionCycle reuse     *)
(* them next to the execution planner and the exchange.                    *)
(*                                                                         *)
(* Decimal inputs are integers: basis points as they are, the trade        *)
(* imbalance in tenths.  Quote prices and reason codes are not modelled.   *)
(***************************************************************************)
EXTENDS Integers

CONSTANTS
  PauseMinDurationMs,   \* PAUSE_MIN_DURATION_MS, a constant of the code
  Undefined             \* the value of an optional field that is not set

ASSUME PauseMinAssumption == PauseMinDurationMs \in Nat

(* An optional field never takes a number for "not set". *)
ASSUME UndefinedAssumption == Undefined \notin Int

Sides == {"buy", "sell"}
Mode == {"NORMAL", "DEFENSIVE", "PAUSE"}
OptTime == Int \cup {Undefined}

(* StrategyState, the record the executor threads through its ticks. *)
StrategyState ==
  [mode : Mode, modeSinceMs : Int, pauseUntilMs : OptTime, lastQuoteMs : OptTime]

-----------------------------------------------------------------------------
(* Risk policy                                                             *)

DefensiveVolThresholdBps == 50
DefensiveToxThresholdTenths == 7

AbsVal(x) == IF x < 0 THEN -x ELSE x

(* The four hard conditions; any of them asks for PAUSE. *)
HardPause(features, position, params) ==
  \/ features.dataStale
  \/ features.markIndexDivBps >= params.pauseMarkIndexBps
  \/ features.liqCount10s >= params.pauseLiqCount10s
  \/ AbsVal(position) > params.maxInventory

SoftRisk(features) ==
  \/ features.realizedVol10s >= DefensiveVolThresholdBps
  \/ AbsVal(features.tradeImbalance1s) >= DefensiveToxThresholdTenths

(* The early return of the code: a hard condition hides the soft ones. *)
EvaluateRisk(features, position, params) ==
  LET pause == HardPause(features, position, params)
  IN  [shouldPause |-> pause, shouldDefensive |-> ~pause /\ SoftRisk(features)]

(* The results EvaluateRisk can have. *)
RiskEvaluation ==
  {r \in [shouldPause : BOOLEAN, shouldDefensive : BOOLEAN] :
     ~(r.shouldPause /\ r.shouldDefensive)}

(* Mutant: the pause is over one unit of time early.                       *)
PauseElapsedEarly(pauseUntilMs, nowMs) ==
  IF pauseUntilMs = Undefined THEN TRUE ELSE nowMs + 1 >= pauseUntilMs

IsPauseDurationElapsed(pauseUntilMs, nowMs) ==
  IF pauseUntilMs = Undefined THEN TRUE ELSE nowMs >= pauseUntilMs

CalculatePauseUntil(nowMs) == nowMs + PauseMinDurationMs

-----------------------------------------------------------------------------
(* Mode machine and decision                                               *)

(* Mutant: PAUSE may be left for NORMAL.                                   *)
NextModeSkippingDefensive(mode, risk, elapsed) ==
  IF risk.shouldPause \/ (mode = "PAUSE" /\ ~elapsed) THEN "PAUSE"
  ELSE IF risk.shouldDefensive THEN "DEFENSIVE" ELSE "NORMAL"

DetermineNextMode(mode, risk, elapsed) ==
  IF risk.shouldPause \/ (mode = "PAUSE" /\ ~elapsed) THEN "PAUSE"
  ELSE IF mode = "PAUSE" \/ risk.shouldDefensive THEN "DEFENSIVE"
  ELSE "NORMAL"

(* Mutant: leaving PAUSE does not clear the deadline.                      *)
NextStateKeepingDeadline(state, next, nowMs) ==
  [state EXCEPT !.mode = next,
                !.modeSinceMs = IF next # state.mode THEN nowMs ELSE @,
                !.pauseUntilMs = IF next = "PAUSE" /\ state.mode # "PAUSE" THEN CalculatePauseUntil(nowMs) ELSE @]

(* Mutant: every tick in PAUSE sets the deadline anew.                     *)
NextStateRearming(state, next, nowMs) ==
  [state EXCEPT !.mode = next,
                !.modeSinceMs = IF next # state.mode THEN nowMs ELSE @,
                !.pauseUntilMs = IF next = "PAUSE" THEN CalculatePauseUntil(nowMs) ELSE Undefined]

(* Time stamps of the next state, before the intent is known. *)
NextModeState(state, next, nowMs) ==
  IF next # state.mode
  THEN [mode |-> next,
        modeSinceMs |-> nowMs,
        pauseUntilMs |-> IF next = "PAUSE" THEN CalculatePauseUntil(nowMs) ELSE Undefined,
        lastQuoteMs |-> state.lastQuoteMs]
  ELSE [state EXCEPT !.pauseUntilMs =
          IF next = "PAUSE" /\ @ = Undefined THEN CalculatePauseUntil(nowMs) ELSE @]

(* decide(): one intent per tick; a quoting tick stamps lastQuoteMs whether  *)
(* or not the planner then places anything.                                *)
Decide(nowMs, state, risk) ==
  LET next == DetermineNextMode(state.mode, risk,
                                IsPauseDurationElapsed(state.pauseUntilMs, nowMs))
      base == NextModeState(state, next, nowMs)
  IN  IF next = "PAUSE"
      THEN [nextState |-> base, intent |-> "CANCEL_ALL"]
      ELSE [nextState |-> [base EXCEPT !.lastQuoteMs = nowMs], intent |-> "QUOTE"]

CreateInitialState(nowMs) ==
  [mode |-> "PAUSE",
   modeSinceMs |-> nowMs,
   pauseUntilMs |-> CalculatePauseUntil(nowMs),
   lastQuoteMs |-> Undefined]
=============================================================================
