-------------------------- MODULE ExecutionPlanner --------------------------
(***************************************************************************)
(* The execution planner (apps/executor/src/services/execution-planner.ts):*)
(* what a QUOTE intent does to one side of the book.  Times are given as   *)
(* the time passed since the stamp the code subtracts.                     *)
(***************************************************************************)
EXTENDS StrategyCore, Sequences

(* Mutant: the comparison off by one.                                       *)
CanRefreshEarly(sinceQuoteMs, refreshIntervalMs) == sinceQuoteMs + 1 >= refreshIntervalMs

CanRefresh(sinceQuoteMs, refreshIntervalMs) == sinceQuoteMs >= refreshIntervalMs

IsOrderStale(ageMs, staleCancelMs) == ageMs > staleCancelMs

(* The decision for one side.  moved: the quoted price is at least          *)
(* MIN_REQUOTE_BPS away from the order's price.                            *)
SidePlan(hasOrder, stale, moved, canRefresh) ==
  IF hasOrder
  THEN IF stale \/ (moved /\ canRefresh) THEN "replace" ELSE "keep"
  ELSE IF canRefresh THEN "place" ELSE "keep"

(* The actions of one side, in the order the executor runs them.           *)
SideActions(side, order, plan) ==
  CASE plan = "replace" -> << [type |-> "cancel", order |-> order], [type |-> "place", side |-> side] >>
    [] plan = "place"   -> << [type |-> "place", side |-> side] >>
    [] plan = "keep"    -> << >>

(* planExecution: the bid's actions come before the ask's; CANCEL_ALL is a  *)
(* single action whatever the tracker holds.                               *)
PlanExecution(intent, bid, bidPlan, ask, askPlan) ==
  IF intent = "CANCEL_ALL"
  THEN << [type |-> "cancel_all"] >>
  ELSE SideActions("buy", bid, bidPlan) \o SideActions("sell", ask, askPlan)
=============================================================================
