------------------------------- MODULE MCCore -------------------------------
(***************************************************************************)
(* What the executor does without an answer of the exchange: the mode       *)
(* machine over restarts, the quotes with exact times, and the queue of the *)
(* records to store.  No two of them share state here; so each is explored  *)
(* in full while the others rest, instead of every combination of their     *)
(* states.                                                                 *)
(***************************************************************************)
EXTENDS StrategyEngine, QuoteLoop, EventPersistence

VARIABLE part   \* the part that is explored

(* Values around every threshold of the risk policy.                       *)
MCFeatures ==
  [dataStale : BOOLEAN, markIndexDivBps : {49, 50}, liqCount10s : {2, 3},
   realizedVol10s : {49, 50}, tradeImbalance1s : {-7, 6}]

MCPositions == {-2, -1, 1}

MCParams == {[pauseMarkIndexBps |-> 50, pauseLiqCount10s |-> 3, maxInventory |-> 1]}

mcVars == <<part, vars, loopVars, persistenceVars>>

(* At the end of a calm time, when another tick changes nothing.           *)
EngineRests ==
  /\ now = MaxNow
  /\ state = [mode |-> "NORMAL", modeSinceMs |-> MaxNow,
              pauseUntilMs |-> Undefined, lastQuoteMs |-> MaxNow]
  /\ saved = Undefined /\ intent = "QUOTE" /\ pausedAt = 0

MCInit ==
  /\ part \in {"engine", "loop", "persistence"}
  /\ IF part = "engine" THEN Init ELSE EngineRests
  /\ LoopInit
  /\ part # "loop" => mode = "NORMAL" /\ Tracked = {}
  /\ PersistenceInit

EnginePart ==
  part = "engine" /\ Next /\ UNCHANGED <<part, loopVars, persistenceVars>>
LoopPart ==
  part = "loop" /\ LoopNext /\ UNCHANGED <<part, vars, persistenceVars>>
PersistencePart ==
  part = "persistence" /\ PersistenceNext /\ UNCHANGED <<part, vars, loopVars>>

MCNext == EnginePart \/ LoopPart \/ PersistencePart

MCSpec == MCInit /\ [][MCNext]_mcVars /\ EngineFairness /\ PersistenceFairness
=============================================================================
