------------------------------ MODULE QuoteLoop ------------------------------
(***************************************************************************)
(* The timing of quotes: decide(), the planner and the cancel_all throttle *)
(* of executeAction, run tick after tick with exact elapsed times.  The    *)
(* exchange answers within the tick, cancels succeed and a placement is    *)
(* accepted or rejected (post-only); DecisionCycle has slow and failing    *)
(* calls.  Time stamps are kept as ages, each capped where the code stops  *)
(* telling values apart, so that behaviours are not cut off by a clock.    *)
(***************************************************************************)
EXTENDS StrategyCore, ExecutionPlanner

CONSTANTS
  TickGaps,             \* times that may pass from one tick to the next
  RefreshIntervalMs,    \* params.refreshIntervalMs
  StaleCancelMs,        \* params.staleCancelMs
  CancelAllWithMs,      \* CANCEL_ALL_MIN_INTERVAL_WITH_ORDERS_MS
  CancelAllWithoutMs    \* CANCEL_ALL_MIN_INTERVAL_WITHOUT_ORDERS_MS

ASSUME IntervalAssumption ==
  /\ TickGaps \subseteq Nat \ {0}
  /\ RefreshIntervalMs \in Nat
  /\ StaleCancelMs \in Nat
  /\ CancelAllWithMs \in Nat
  /\ CancelAllWithoutMs \in Nat
  /\ CancelAllWithMs <= CancelAllWithoutMs

VARIABLES
  mode,          \* state.mode
  pauseLeft,     \* time until state.pauseUntilMs, 0 when elapsed or unset
  quoteAge,      \* time since state.lastQuoteMs, capped at RefreshIntervalMs
  order,         \* per side: age of the order on the book, NoOrder without one
  moved,         \* sides whose order is MIN_REQUOTE_BPS off the quoted price
  cancelAllAge,  \* time since lastCancelAllAttemptMs, capped
  lastIntent,        \* intent of the last tick
  attemptAge,    \* history: time since the last placement attempt, per side, capped
  attemptGap     \* history: time between the last two attempts, per side, capped

book == <<order, moved>>
attempts == <<attemptAge, attemptGap>>
loopVars == <<mode, pauseLeft, quoteAge, book, cancelAllAge, lastIntent, attempts>>

NoOrder == -1
AgeCap == StaleCancelMs + 1

(* The spacing the planner keeps between two placements on one side.       *)
MinSpacing == IF RefreshIntervalMs < AgeCap THEN RefreshIntervalMs ELSE AgeCap

Older(age, gap, cap) == IF age + gap < cap THEN age + gap ELSE cap
HasOrder(s) == order[s] # NoOrder
Tracked == {s \in Sides : HasOrder(s)}

(* The process starts in the initial PAUSE, or in a restored mode with      *)
(* lastQuoteMs 0 and a deadline that may be over; the cancel_all stamp is   *)
(* 0.  Orders may already be open.                                         *)
LoopInit ==
  /\ mode \in Mode
  /\ pauseLeft \in IF mode = "PAUSE" THEN 0 .. PauseMinDurationMs ELSE {0}
  /\ quoteAge = RefreshIntervalMs
  /\ order \in [Sides -> {NoOrder, 0}]
  /\ moved = {}
  /\ cancelAllAge = CancelAllWithoutMs
  /\ lastIntent = "NONE"
  /\ attemptAge = [s \in Sides |-> MinSpacing]
  /\ attemptGap = [s \in Sides |-> MinSpacing]

(* An order is filled, or disappears for another reason.                   *)
Fill(s) ==
  /\ HasOrder(s)
  /\ order' = [order EXCEPT ![s] = NoOrder]
  /\ moved' = moved \ {s}
  /\ UNCHANGED <<mode, pauseLeft, quoteAge, cancelAllAge, lastIntent, attempts>>

(* The market moves away from the price of an order.                       *)
PriceMoves(s) ==
  /\ HasOrder(s)
  /\ moved' = moved \cup {s}
  /\ UNCHANGED <<mode, pauseLeft, quoteAge, order, cancelAllAge, lastIntent, attempts>>

(* Mutant: the throttle takes no notice of tracked orders.                 *)
CancelAllDueSlowly(age) == age >= CancelAllWithoutMs

(* cancel_all with its throttle: 1 s between attempts while orders are      *)
(* tracked, 30 s while there are none.                                     *)
CancelAllDue(age) ==
  age >= IF Tracked # {} THEN CancelAllWithMs ELSE CancelAllWithoutMs

CancelAllTick(gap) ==
  LET age == Older(cancelAllAge, gap, CancelAllWithoutMs)
  IN  /\ IF CancelAllDue(age)
         THEN /\ cancelAllAge' = 0
              /\ order' = [s \in Sides |-> NoOrder]
              /\ moved' = {}
         ELSE /\ cancelAllAge' = age
              /\ order' = [s \in Sides |-> IF HasOrder(s) THEN Older(order[s], gap, AgeCap) ELSE NoOrder]
              /\ UNCHANGED moved
      /\ quoteAge' = Older(quoteAge, gap, RefreshIntervalMs)
      /\ attemptAge' = [s \in Sides |-> Older(attemptAge[s], gap, MinSpacing)]
      /\ UNCHANGED attemptGap

(* Sides the planner places on, with the order that is there cancelled.    *)
PlannedSides(gap) ==
  {s \in Sides :
     SidePlan(HasOrder(s),
              HasOrder(s) /\ IsOrderStale(order[s] + gap, StaleCancelMs),
              s \in moved,
              CanRefresh(quoteAge + gap, RefreshIntervalMs)) # "keep"}

(* A quoting tick; reject is the set of placements the exchange refuses.    *)
QuoteTick(gap, reject) ==
  LET planned == PlannedSides(gap)
  IN  /\ reject \subseteq planned
      /\ order' = [s \in Sides |->
           IF s \in reject THEN NoOrder
           ELSE IF s \in planned THEN 0
           ELSE IF HasOrder(s) THEN Older(order[s], gap, AgeCap) ELSE NoOrder]
      /\ moved' = moved \ planned
      /\ quoteAge' = 0
      /\ attemptAge' = [s \in Sides |->
           IF s \in planned THEN 0 ELSE Older(attemptAge[s], gap, MinSpacing)]
      /\ attemptGap' = [s \in Sides |->
           IF s \in planned THEN Older(attemptAge[s], gap, MinSpacing) ELSE attemptGap[s]]
      /\ cancelAllAge' = Older(cancelAllAge, gap, CancelAllWithoutMs)

(* decide() and the execution of its intent, gap after the previous tick.   *)
LoopTick(gap, risk, reject) ==
  LET left == IF pauseLeft > gap THEN pauseLeft - gap ELSE 0
      next == DetermineNextMode(mode, risk, left = 0)
  IN  /\ mode' = next
      /\ pauseLeft' = IF next = "PAUSE" /\ mode # "PAUSE" THEN PauseMinDurationMs
                      ELSE IF next = "PAUSE" THEN left ELSE 0
      /\ lastIntent' = IF next = "PAUSE" THEN "CANCEL_ALL" ELSE "QUOTE"
      /\ IF next = "PAUSE" THEN reject = {} /\ CancelAllTick(gap) ELSE QuoteTick(gap, reject)

SomeTick(reject) == \E gap \in TickGaps, risk \in RiskEvaluation : LoopTick(gap, risk, reject)

LoopNext ==
  \/ \E reject \in SUBSET Sides : SomeTick(reject)
  \/ \E s \in Sides : Fill(s) \/ PriceMoves(s)

LoopSpec == LoopInit /\ [][LoopNext]_loopVars

(* The timer keeps ticking; nothing is assumed of fills and prices.        *)
FairLoop == LoopSpec /\ WF_loopVars(\E reject \in SUBSET Sides : SomeTick(reject))

-----------------------------------------------------------------------------
(* Ages stay within their caps, and every variable in its type.            *)
LoopTypeOK ==
  /\ mode \in Mode
  /\ pauseLeft \in 0 .. PauseMinDurationMs
  /\ quoteAge \in 0 .. RefreshIntervalMs
  /\ order \in [Sides -> {NoOrder} \cup 0 .. AgeCap]
  /\ moved \subseteq Sides
  /\ cancelAllAge \in 0 .. CancelAllWithoutMs
  /\ lastIntent \in {"NONE", "CANCEL_ALL", "QUOTE"}
  /\ attemptAge \in [Sides -> 0 .. MinSpacing]
  /\ attemptGap \in [Sides -> 0 .. MinSpacing]

(* Placements on one side are at least the shorter of refreshIntervalMs and *)
(* the stale age apart, over fills, rejections, price moves and PAUSEs      *)
(* (requirement 7.7 limits the update rate): the planner compares with      *)
(* lastQuoteMs and the order's age, never with the last attempt itself.     *)
PlacementSpacing == \A s \in Sides : attemptGap[s] = MinSpacing

(* The throttle of cancel_all may skip the cancel of a PAUSE that begins    *)
(* right after the previous attempt, but never for so long that orders are  *)
(* still on the book when the PAUSE ends (4.5, 7.5).                        *)
PauseEndsFlat == [][(lastIntent = "CANCEL_ALL" /\ lastIntent' = "QUOTE") => Tracked = {}]_loopVars

(* A side that is missing while the bot quotes gets a placement again, or  *)
(* a PAUSE comes ("one order on each side is maintained", 7.4).  It does    *)
(* not when ticks are closer together than refreshIntervalMs, as the        *)
(* defaults are: each quoting tick stamps lastQuoteMs, whether it placed or *)
(* not, and canRefresh compares with that stamp.                           *)
MissingSideQuoted ==
  \A s \in Sides :
    (lastIntent = "QUOTE" /\ ~HasOrder(s)) ~> (attemptAge[s] = 0 \/ lastIntent = "CANCEL_ALL")
=============================================================================
