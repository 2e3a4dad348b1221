----------------------------- MODULE ParamGate ------------------------------
(***************************************************************************)
(* What may change about the strategy parameters in one step: the gate of  *)
(* the llm-reflector, the gate of the executor (core), and what the         *)
(* executor makes of changes that pass.                                    *)
(*                                                                         *)
(* Numbers are in tenths.  A proposed value is the set of the finite number *)
(* its text parses to: {} for a text or a number that is none.  A proposal  *)
(* has changes, a function on the changed parameters, and rollback, the     *)
(* set of the rollback conditions it states.                               *)
(***************************************************************************)
EXTENDS Integers, FiniteSets

CONSTANTS
  AbsMaxGain,    \* absMax of gains and spreads (10^6)
  AbsMaxSize     \* absMax of sizes, times and thresholds (10^9)

ASSUME GateAssumption == AbsMaxGain \in Nat /\ AbsMaxSize \in Nat

Gains == {"baseHalfSpreadBps", "volSpreadGain", "toxSpreadGain", "inventorySkewGain"}
Sizes == {"quoteSizeUsd", "maxInventory", "pauseMarkIndexBps"}
IntegerParams == {"refreshIntervalMs", "staleCancelMs", "pauseLiqCount10s"}
ALLOWED_PARAM_KEYS == Gains \cup Sizes \cup IntegerParams

RollbackConditions == {"markout10sP50BelowBps", "pauseCountAbove", "maxDurationMs"}
MaxChanges == 2

Tenth == 10

Rule(minRatio, maxRatio, absMax) ==
  [minRatio |-> minRatio, maxRatio |-> maxRatio, absMax |-> absMax]

(* The guardrails of the executor ...                                      *)
CHANGE_RULES ==
  [p \in ALLOWED_PARAM_KEYS |->
     CASE p \in Gains -> Rule(3, 30, AbsMaxGain)
       [] p \in Sizes -> Rule(2, 50, AbsMaxSize)
       [] p \in IntegerParams -> Rule(1, 100, AbsMaxSize)]

(* Mutant: gains are let through like sizes.                               *)
ReflectorRulesLoose ==
  [p \in ALLOWED_PARAM_KEYS |->
     CASE p \in Gains \cup Sizes -> Rule(2, 50, AbsMaxSize)
       [] p \in IntegerParams -> Rule(1, 100, AbsMaxSize)]

(* ... and the table the reflector keeps of its own.                       *)
ReflectorRules ==
  [p \in ALLOWED_PARAM_KEYS |->
     CASE p \in Gains -> Rule(3, 30, AbsMaxGain)
       [] p \in Sizes -> Rule(2, 50, AbsMaxSize)
       [] p \in IntegerParams -> Rule(1, 100, AbsMaxSize)]

(* Of a current value 0 no ratio is taken: only the cap is left.           *)
WithinRule(rule, original, proposed) ==
  /\ proposed >= 0 /\ proposed <= rule.absMax
  /\ original # 0 =>
       /\ Tenth * proposed <= rule.maxRatio * original
       /\ Tenth * proposed >= rule.minRatio * original

Passes(rules, proposal, current) ==
  /\ Cardinality(DOMAIN proposal.changes) <= MaxChanges
  /\ DOMAIN proposal.changes \subseteq ALLOWED_PARAM_KEYS
  /\ \A p \in DOMAIN proposal.changes :
       /\ proposal.changes[p] # {}
       /\ \A value \in proposal.changes[p] : WithinRule(rules[p], current[p], value)
  /\ proposal.rollback # {}

(* ProposalOutputSchema: unknown names are stripped before it counts.      *)
SchemaAccepts(proposal) ==
  /\ Cardinality(DOMAIN proposal.changes) \in 1 .. MaxChanges
  /\ proposal.rollback # {}

(* validateProposal of the reflector and of core.                          *)
ReflectorAccepts(proposal, current) ==
  SchemaAccepts(proposal) /\ Passes(ReflectorRules, proposal, current)

ExecutorAccepts(proposal, current) == Passes(CHANGE_RULES, proposal, current)

(* Math.round, to a multiple of ten tenths.                                *)
Round(value) == ((value + 5) \div Tenth) * Tenth

(* Every integer column is rounded after the check, changed or not.        *)
ApplyChanges(current, changes) ==
  [p \in DOMAIN current |->
     LET value == IF p \in DOMAIN changes THEN CHOOSE v \in changes[p] : TRUE ELSE current[p]
     IN  IF p \in IntegerParams THEN Round(value) ELSE value]

(* The operational gates.  main.ts passes FALSE for the first two always.  *)
OperationalGates(context, maxPauses, minMarkout) ==
  /\ ~context.dbWriteFailures /\ ~context.exchangeErrors /\ ~context.dataStale
  /\ context.pauseCountLastHour <= maxPauses
  /\ \A markout \in context.markout10sP50 : markout >= minMarkout
=============================================================================
