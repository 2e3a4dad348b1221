--------------------------- MODULE StrategyEngine ---------------------------
(***************************************************************************)
(* The strategy state machine as one executor process runs it: one tick    *)
(* after the other (the case of exchange calls that answer within a tick;  *)
(* DecisionCycle has the ticks overlap), the periodic persistence of the   *)
(* state, and restarts that restore the latest persisted snapshot.         *)
(***************************************************************************)
EXTENDS StrategyCore

CONSTANTS
  FeatureInputs,   \* the feature records a tick may compute
  PositionInputs,  \* the position sizes a tick may read
  ParamInputs,     \* the parameter sets that may be current
  MaxNow,          \* bound on the clock
  CalmFrom         \* bound: no risk condition and no restart from this time on

ASSUME InputAssumption ==
  /\ \A f \in FeatureInputs :
       /\ f.dataStale \in BOOLEAN
       /\ {f.markIndexDivBps, f.liqCount10s, f.realizedVol10s, f.tradeImbalance1s} \subseteq Int
  /\ PositionInputs \subseteq Int
  /\ \A p \in ParamInputs :
       {p.pauseMarkIndexBps, p.pauseLiqCount10s, p.maxInventory} \subseteq Int

ASSUME ClockAssumption == MaxNow \in Nat /\ CalmFrom \in Nat

VARIABLES
  now,       \* Date.now()
  state,     \* the executor's StrategyState
  saved,     \* latest row of strategy_state, or Undefined
  intent,    \* intent of the last tick, "NONE" before the first one
  pausedAt   \* history: latest time this process entered PAUSE

vars == <<now, state, saved, intent, pausedAt>>

(* What save() writes: lastQuoteMs is not persisted. *)
Snapshot(s) == [mode |-> s.mode, modeSinceMs |-> s.modeSinceMs, pauseUntilMs |-> s.pauseUntilMs]

SnapshotSet == [mode : Mode, modeSinceMs : Int, pauseUntilMs : OptTime]

(* Mutant: the row is taken as it is.                                      *)
RestoredRaw(row) == row

(* The state a starting process begins with: the latest snapshot with       *)
(* lastQuoteMs 0, or the initial PAUSE when there is none or it cannot be   *)
(* read.                                                                   *)
Restored(row) ==
  [mode |-> row.mode, modeSinceMs |-> row.modeSinceMs,
   pauseUntilMs |-> row.pauseUntilMs, lastQuoteMs |-> 0]

PauseEntry(s) == IF s.mode = "PAUSE" THEN s.modeSinceMs ELSE Undefined

Init ==
  /\ now = 0
  /\ state = CreateInitialState(now)
  /\ saved = Undefined
  /\ intent = "NONE"
  /\ pausedAt = PauseEntry(state)

Advance ==
  /\ now < MaxNow
  /\ now' = now + 1
  /\ UNCHANGED <<state, saved, intent, pausedAt>>

(* executeTick up to the decision, and `state = output.nextState`. *)
TickWith(risk) ==
  LET out == Decide(now, state, risk)
  IN  /\ state' = out.nextState
      /\ intent' = out.intent
      /\ pausedAt' = IF state.mode # "PAUSE" /\ out.nextState.mode = "PAUSE" THEN now ELSE pausedAt
      /\ UNCHANGED <<now, saved>>

(* A risk evaluation the tick may compute from its inputs. *)
PossibleRisk ==
  {EvaluateRisk(f, pos, p) : f \in FeatureInputs, pos \in PositionInputs, p \in ParamInputs}

CalmRisk == [shouldPause |-> FALSE, shouldDefensive |-> FALSE]

Tick ==
  \E risk \in PossibleRisk :
    /\ now >= CalmFrom => risk = CalmRisk
    /\ TickWith(risk)

Persist ==
  /\ saved' = Snapshot(state)
  /\ UNCHANGED <<now, state, intent, pausedAt>>

(* The process dies and a new one starts. *)
Restart ==
  /\ now < CalmFrom
  /\ \/ /\ saved # Undefined
        /\ state' = Restored(saved)
     \/ state' = CreateInitialState(now)
  /\ intent' = "NONE"
  /\ pausedAt' = PauseEntry(state')
  /\ UNCHANGED <<now, saved>>

Next == Advance \/ Tick \/ Persist \/ Restart

Spec == Init /\ [][Next]_vars

(* While the process runs, setInterval keeps firing the tick loop, and time *)
(* passes.  Nothing has to persist or restart.                             *)
EngineFairness == WF_vars(Tick) /\ WF_vars(Advance)

-----------------------------------------------------------------------------
(* The variables have the types of the code's StrategyState and of the row  *)
(* of strategy_state.                                                      *)
TypeOK ==
  /\ now \in Nat
  /\ state \in StrategyState
  /\ saved \in SnapshotSet \cup {Undefined}
  /\ intent \in {"NONE", "CANCEL_ALL", "QUOTE"}
  /\ pausedAt \in OptTime

DeadlineMatches(s) ==
  s.pauseUntilMs = IF s.mode = "PAUSE" THEN s.modeSinceMs + PauseMinDurationMs ELSE Undefined

(* A PAUSE always carries the deadline of its own entry, and no other mode  *)
(* carries one: through ticks that stay in PAUSE, persistence and restore,  *)
(* so that no path re-arms, drops or inherits a deadline (requirement 5.7). *)
PauseDeadline ==
  /\ DeadlineMatches(state)
  /\ saved # Undefined => DeadlineMatches(saved)

(* A process that entered PAUSE at pausedAt quotes only after the minimum   *)
(* pause has passed since (requirements 5.7 and 7.5): whatever the risk     *)
(* inputs did in between, and also when the PAUSE was restored.             *)
QuoteOutsidePauseWindow ==
  (intent = "QUOTE" /\ pausedAt # Undefined) => state.lastQuoteMs >= pausedAt + PauseMinDurationMs

(* While a process runs, PAUSE is left only for DEFENSIVE, never for NORMAL *)
(* (5.6), and a state newly entered after a PAUSE is at least the minimum   *)
(* pause younger than that PAUSE.                                          *)
PauseLeftSafely ==
  [][(state.mode = "PAUSE" /\ state'.mode # "PAUSE" /\ intent' # "NONE")
       => /\ state'.mode = "DEFENSIVE"
          /\ state'.modeSinceMs >= state.modeSinceMs + PauseMinDurationMs]_vars

(* Once the inputs stay calm the bot ends up in NORMAL and stays there:     *)
(* the deadline is not extended while it is waited for.                    *)
CalmReachesNormal == <>[](state.mode = "NORMAL")
=============================================================================
